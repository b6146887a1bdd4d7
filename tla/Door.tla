---------------------------------- MODULE Door ----------------------------------
(***************************************************************************)
(* What the event day promises about a registration, whatever requests run:*)
(* an entry counts as one attendance, the main event is entered once, a    *)
(* certificate is made out to who has earned it by then, and only one that *)
(* has been issued is revoked.  Nothing is said of who scans when: see     *)
(* EventDay, which implements this module.                                 *)
(***************************************************************************)
EXTENDS Naturals

CONSTANTS Registrations, Workshop, CheckinTypes, CertificateTypes, Threshold

VARIABLES
    entries,    \* how often each registration has entered what
    credit,     \* the attendances that this gives it
    certificate \* the status of each of its certificates

door == <<entries, credit, certificate>>

Init ==
    /\ entries = [r \in Registrations |-> [t \in CheckinTypes |-> 0]]
    /\ credit = [r \in Registrations |-> 0]
    /\ certificate = [r \in Registrations |-> [c \in CertificateTypes |-> "NONE"]]

Earned(r, c) ==
    /\ c = "PARTICIPATION" => credit[r] >= Threshold
    /\ c = "WORKSHOP" => r \in Workshop /\ entries[r]["WORKSHOP"] > 0

(* Once, or again where that makes sense.                                  *)
Enter(r, t) ==
    /\ entries[r][t] = 0 \/ t # "MAIN_EVENT"
    /\ entries' = [entries EXCEPT ![r][t] = @ + 1]
    /\ credit' = [credit EXCEPT ![r] = @ + 1]
    /\ UNCHANGED certificate

Become(r, c, value) ==
    /\ certificate' = [certificate EXCEPT ![r][c] = value]
    /\ UNCHANGED <<entries, credit>>

MakeOut(r, c) == certificate[r][c] = "NONE" /\ Earned(r, c) /\ Become(r, c, "ELIGIBLE")

(* Also one that was revoked meanwhile (see RevokedStaysRevoked).          *)
Issue(r, c) == certificate[r][c] # "NONE" /\ Become(r, c, "ISSUED")

Revoke(r, c) == certificate[r][c] \in {"ISSUED", "REVOKED"} /\ Become(r, c, "REVOKED")

Next ==
    \E r \in Registrations :
        \/ \E t \in CheckinTypes : Enter(r, t)
        \/ \E c \in CertificateTypes : MakeOut(r, c) \/ Issue(r, c) \/ Revoke(r, c)

Spec == Init /\ [][Next]_door
=============================================================================
