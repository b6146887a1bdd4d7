-------------------------------- MODULE EventDay --------------------------------
(***************************************************************************)
(* What is done with a confirmed registration: check-ins at the door       *)
(* (CheckinsService), and certificates afterwards (CertificatesService and *)
(* CertificateEligibilityService).                                         *)
(*                                                                         *)
(* A request is a sequence of statements, and other requests run between   *)
(* any two of them.  checkin reads the registration first and opens its    *)
(* transaction then: the transaction locks the registration's row (FOR     *)
(* UPDATE), which holds up other check-ins and every update of that row    *)
(* until it ends, but it does not read the row again.                      *)
(***************************************************************************)
EXTENDS Naturals, FiniteSets

CONSTANTS
    Registrations,
    Workshop,         \* the registrations of a workshop category
    CheckinTypes,     \* "MAIN_EVENT", "WORKSHOP", "SESSION" and "BANQUET", or some of them
    CertificateTypes, \* "PARTICIPATION", "WORKSHOP" and others
    Threshold,        \* certificateAttendanceThreshold
    Requests,         \* the requests the API serves at a time
    MaxCheckins,      \* a bound on the check-ins of a registration
    NoRegistration, NoType, NoRequest

ASSUME EventDayAssumption ==
    /\ IsFiniteSet(Requests) /\ NoRequest \notin Requests
    /\ Workshop \subseteq Registrations
    /\ "MAIN_EVENT" \in CheckinTypes /\ "WORKSHOP" \in CheckinTypes
    /\ Threshold \in Nat /\ MaxCheckins \in Nat

VARIABLES
    status,       \* of each registration
    rowLock,      \* the request whose transaction has locked the registration's row
    checkins,     \* how many check-ins of each type each registration has
    attendances,  \* how many attendances each registration has
    certificates, \* the status of each registration's certificate of each type
    req           \* the requests in flight

tables == <<checkins, attendances, certificates>>
vars == <<status, rowLock, checkins, attendances, certificates, req>>

RegStatuses == {"PENDING", "CONFIRMED", "CHECKED_IN", "REFUNDED"}
CertificateStatuses == {"NONE", "ELIGIBLE", "ISSUED", "REVOKED"}

CheckinSteps == {"lock", "findCheckin", "record"}
GenerateSteps == {"nextCertificate", "readEligibility", "countAttendance", "insertCertificate"}
Steps == {"idle", "issue", "revoke"} \cup CheckinSteps \cup GenerateSteps

Pairs == Registrations \X CertificateTypes

Idle == [at |-> "idle", registration |-> NoRegistration, type |-> NoType,
         reentry |-> FALSE, read |-> "PENDING", todo |-> {}]

RequestStates ==
    [at           : Steps,
     registration : Registrations \cup {NoRegistration},
     type         : CheckinTypes \cup CertificateTypes \cup {NoType},
     reentry      : BOOLEAN,        \* allowReentry
     read         : RegStatuses,    \* the registration's status when it was resolved
     todo         : SUBSET Pairs]   \* what generateForConference has not looked at yet

TypeOK ==
    /\ status \in [Registrations -> RegStatuses]
    /\ rowLock \in [Registrations -> Requests \cup {NoRequest}]
    /\ checkins \in [Registrations -> [CheckinTypes -> Nat]]
    /\ attendances \in [Registrations -> Nat]
    /\ certificates \in [Registrations -> [CertificateTypes -> CertificateStatuses]]
    /\ req \in [Requests -> RequestStates]

Init ==
    /\ status = [r \in Registrations |-> "PENDING"]
    /\ rowLock = [r \in Registrations |-> NoRequest]
    /\ checkins = [r \in Registrations |-> [t \in CheckinTypes |-> 0]]
    /\ attendances = [r \in Registrations |-> 0]
    /\ certificates = [r \in Registrations |-> [c \in CertificateTypes |-> "NONE"]]
    /\ req = [p \in Requests |-> Idle]

-----------------------------------------------------------------------------
Goto(p, step) == req' = [req EXCEPT ![p].at = step]
Respond(p) == req' = [req EXCEPT ![p] = Idle]
Unlock(r) == rowLock' = [rowLock EXCEPT ![r] = NoRequest]

Eligible == {"CONFIRMED", "CHECKED_IN"}

(* The model's bound on check-ins: every check-in in flight may record one.*)
HasRoom(r) == attendances[r] + Cardinality({p \in Requests : req[p].at \in CheckinSteps})
              < MaxCheckins

-----------------------------------------------------------------------------
(* CheckinsService.checkin: resolveRegistration and the look at the status,*)
(* outside of the transaction.                                             *)
Scan(p, r, t, reentry) ==
    /\ req[p] = Idle
    /\ HasRoom(r)
    /\ status[r] \in Eligible
    /\ req' = [req EXCEPT ![p] = [Idle EXCEPT !.at = "lock", !.registration = r, !.type = t,
                                              !.reentry = reentry, !.read = status[r]]]
    /\ UNCHANGED <<status, rowLock, tables>>

(* Mutant: the row is not locked.                                          *)
LockNothing(p) ==
    /\ req[p].at = "lock"
    /\ Goto(p, "findCheckin")
    /\ UNCHANGED <<status, rowLock, tables>>

Lock(p) ==
    LET r == req[p].registration IN
    /\ req[p].at = "lock"
    /\ rowLock[r] = NoRequest
    /\ rowLock' = [rowLock EXCEPT ![r] = p]
    /\ Goto(p, "findCheckin")
    /\ UNCHANGED <<status, tables>>

(* Whether an earlier check-in of this type is what the request gets.      *)
Reuses(p) ==
    /\ checkins[req[p].registration][req[p].type] > 0
    /\ req[p].type = "MAIN_EVENT" \/ ~req[p].reentry

(* Mutant: the transaction is left open when there is an earlier check-in. *)
FindCheckinStaysOpen(p) ==
    /\ req[p].at = "findCheckin"
    /\ IF Reuses(p) THEN Respond(p) ELSE Goto(p, "record")
    /\ UNCHANGED <<status, rowLock, tables>>

FindCheckin(p) ==
    /\ req[p].at = "findCheckin"
    /\ \/ Reuses(p) /\ Respond(p) /\ Unlock(req[p].registration)
       \/ ~Reuses(p) /\ Goto(p, "record") /\ UNCHANGED rowLock
    /\ UNCHANGED <<status, tables>>

(* The inserts and the update, which others see when the transaction       *)
(* commits.  The registration becomes CHECKED_IN whatever it is by now.    *)
Record(p) ==
    LET r == req[p].registration IN
    /\ req[p].at = "record"
    /\ checkins' = [checkins EXCEPT ![r][req[p].type] = @ + 1]
    /\ attendances' = [attendances EXCEPT ![r] = @ + 1]
    /\ status' = IF req[p].read = "CHECKED_IN" THEN status
                 ELSE [status EXCEPT ![r] = "CHECKED_IN"]
    /\ Unlock(r)
    /\ Respond(p)
    /\ UNCHANGED certificates

-----------------------------------------------------------------------------
(* CertificatesService.generateForConference, for every registration and   *)
(* type that has no certificate yet.                                       *)
Generate(p) ==
    /\ req[p] = Idle
    /\ req' = [req EXCEPT ![p].at = "nextCertificate", ![p].todo = Pairs]
    /\ UNCHANGED <<status, rowLock, tables>>

NextCertificate(p) ==
    /\ req[p].at = "nextCertificate"
    /\ \/ req[p].todo = {} /\ Respond(p)
       \/ \E pair \in req[p].todo :
              LET todo == req[p].todo \ {pair} IN
              req' = [req EXCEPT ![p] =
                         IF certificates[pair[1]][pair[2]] # "NONE"
                         THEN [@ EXCEPT !.todo = todo]
                         ELSE [@ EXCEPT !.todo = todo, !.at = "readEligibility",
                                        !.registration = pair[1], !.type = pair[2]]]
    /\ UNCHANGED <<status, rowLock, tables>>

(* What CertificateEligibilityService reads first.  The rules for the types*)
(* other than these two look at the programme and the reviews.             *)
ReadEligibility(p) ==
    LET r == req[p].registration
        c == req[p].type
        answer == CASE c = "PARTICIPATION" -> {status[r] \in Eligible}
                    [] c = "WORKSHOP"      -> {checkins[r]["WORKSHOP"] > 0 /\ r \in Workshop}
                    [] OTHER               -> BOOLEAN
    IN
    /\ req[p].at = "readEligibility"
    /\ \E yes \in answer :
          Goto(p, IF ~yes THEN "nextCertificate"
                  ELSE IF c = "PARTICIPATION" THEN "countAttendance" ELSE "insertCertificate")
    /\ UNCHANGED <<status, rowLock, tables>>

(* Mutant: the threshold is off by one.                                    *)
CountAttendanceOffByOne(p) ==
    /\ req[p].at = "countAttendance"
    /\ Goto(p, IF attendances[req[p].registration] + 1 >= Threshold
               THEN "insertCertificate" ELSE "nextCertificate")
    /\ UNCHANGED <<status, rowLock, tables>>

CountAttendance(p) ==
    /\ req[p].at = "countAttendance"
    /\ Goto(p, IF attendances[req[p].registration] >= Threshold
               THEN "insertCertificate" ELSE "nextCertificate")
    /\ UNCHANGED <<status, rowLock, tables>>

(* When another request has inserted this certificate, every attempt to    *)
(* find a number for it violates the unique index on registration and type,*)
(* and the exception ends the whole generation.                            *)
InsertCertificate(p) ==
    LET r == req[p].registration
        c == req[p].type
    IN
    /\ req[p].at = "insertCertificate"
    /\ \/ /\ certificates[r][c] = "NONE"
          /\ certificates' = [certificates EXCEPT ![r][c] = "ELIGIBLE"]
          /\ Goto(p, "nextCertificate")
       \/ /\ certificates[r][c] # "NONE"
          /\ Respond(p)
          /\ UNCHANGED certificates
    /\ UNCHANGED <<status, rowLock, checkins, attendances>>

-----------------------------------------------------------------------------
(* CertificatesService.issue looks at the certificate, renders and uploads *)
(* the document, and updates the certificate whatever it is by then.       *)
Issue(p, r, c) ==
    /\ req[p] = Idle
    /\ certificates[r][c] = "ELIGIBLE"
    /\ req' = [req EXCEPT ![p].at = "issue", ![p].registration = r, ![p].type = c]
    /\ UNCHANGED <<status, rowLock, tables>>

(* CertificatesService.revoke.                                             *)
Revoke(p, r, c) ==
    /\ req[p] = Idle
    /\ certificates[r][c] = "ISSUED"
    /\ req' = [req EXCEPT ![p].at = "revoke", ![p].registration = r, ![p].type = c]
    /\ UNCHANGED <<status, rowLock, tables>>

SetCertificate(p, value) ==
    /\ certificates' = [certificates EXCEPT ![req[p].registration][req[p].type] = value]
    /\ Respond(p)
    /\ UNCHANGED <<status, rowLock, checkins, attendances>>

(* Mutant: GENERATED, which the schema knows and nothing expects.          *)
UpdateGenerated(p) == req[p].at = "issue" /\ SetCertificate(p, "GENERATED")

UpdateIssued(p) == req[p].at = "issue" /\ SetCertificate(p, "ISSUED")
UpdateRevoked(p) == req[p].at = "revoke" /\ SetCertificate(p, "REVOKED")

-----------------------------------------------------------------------------
(* PaymentsService (the module Checkout says when): whatever a registration*)
(* is, the payment of its order confirms it and the refund refunds it.     *)
(* Both wait for the row's lock.                                           *)
SetStatus(r, value) ==
    /\ rowLock[r] = NoRequest
    /\ status' = [status EXCEPT ![r] = value]
    /\ UNCHANGED <<rowLock, tables, req>>

Confirm(r) == SetStatus(r, "CONFIRMED")
Refund(r) == SetStatus(r, "REFUNDED")

(* An exception, a timeout of the transaction or a restart: a transaction  *)
(* that is open is rolled back.                                            *)
Abort(p) ==
    /\ req[p] # Idle
    /\ Respond(p)
    /\ rowLock' = [r \in Registrations |-> IF rowLock[r] = p THEN NoRequest ELSE rowLock[r]]
    /\ UNCHANGED <<status, tables>>

Begin(p) ==
    \/ \E r \in Registrations, t \in CheckinTypes, reentry \in BOOLEAN : Scan(p, r, t, reentry)
    \/ Generate(p)
    \/ \E r \in Registrations, c \in CertificateTypes : Issue(p, r, c) \/ Revoke(p, r, c)

Continue(p) ==
    \/ Lock(p) \/ FindCheckin(p) \/ Record(p)
    \/ NextCertificate(p) \/ ReadEligibility(p) \/ CountAttendance(p) \/ InsertCertificate(p)
    \/ UpdateIssued(p) \/ UpdateRevoked(p)

Next == \/ \E p \in Requests : Begin(p) \/ Continue(p) \/ Abort(p)
        \/ \E r \in Registrations : Confirm(r) \/ Refund(r)

Spec == Init /\ [][Next]_vars

(* The event loop resumes a request whose statement has been answered, and *)
(* PostgreSQL grants a row lock in the order of the requests for it: who   *)
(* waits for a row that is unlocked again and again gets it.               *)
FairSpec == Spec /\ \A p \in Requests : WF_vars(Continue(p)) /\ SF_vars(Lock(p))

-----------------------------------------------------------------------------
(* Properties.                                                             *)

(* "Check-in should be idempotent unless re-entry is explicitly enabled",  *)
(* and never repeated for the main event, however many scans of the same   *)
(* badge are under way at once.                                            *)
CheckinIsIdempotent ==
    [][\A r \in Registrations, t \in CheckinTypes :
          checkins'[r][t] > checkins[r][t] =>
              \/ checkins[r][t] = 0
              \/ /\ t # "MAIN_EVENT"
                 /\ \E p \in Requests : req[p].registration = r /\ req[p].reentry]_vars

(* The main event is entered once.                                         *)
MainEventOnce == \A r \in Registrations : checkins[r]["MAIN_EVENT"] <= 1

(* A certificate is only ever made out to who has earned it, although the  *)
(* rule is evaluated in several statements and the row inserted by another:*)
(* the attendance of a participant, the workshop's check-in.               *)
CertificatesAreEarned ==
    \A r \in Registrations :
        /\ \A c \in CertificateTypes \cap {"PARTICIPATION"} :
              certificates[r][c] # "NONE" => attendances[r] >= Threshold
        /\ \A c \in CertificateTypes \cap {"WORKSHOP"} :
              certificates[r][c] # "NONE" => r \in Workshop /\ checkins[r]["WORKSHOP"] > 0

(* The requests implement Door: read through this mapping, every statement *)
(* of every request is one step at the door or none, although the earlier  *)
(* check-in, the attendances and the status of a certificate are read in   *)
(* statements before the one that writes.                                  *)
AtTheDoor == INSTANCE Door WITH
                 entries <- checkins, credit <- attendances, certificate <- certificates

ImplementsDoor == AtTheDoor!Spec

(* Who waits for a row waits for somebody who waits for nobody: a row is   *)
(* locked by a request that is inside of its transaction on that row and   *)
(* has its next statement to run, never by one that has ended.             *)
LockOwnersRun ==
    \A r \in Registrations : rowLock[r] # NoRequest =>
        req[rowLock[r]].at \in {"findCheckin", "record"} /\ req[rowLock[r]].registration = r

(* How many statements at most a request still has to run.                 *)
StatementsLeft(q) ==
    LET certificatesLeft == 4 * Cardinality(q.todo) IN
    CASE q.at = "idle" -> 0
      [] q.at \in {"record", "issue", "revoke"} -> 1
      [] q.at = "findCheckin" -> 2
      [] q.at = "lock" -> 3
      [] q.at = "nextCertificate" -> certificatesLeft + 1
      [] q.at = "insertCertificate" -> certificatesLeft + 2
      [] q.at = "countAttendance" -> certificatesLeft + 3
      [] q.at = "readEligibility" -> certificatesLeft + 4

(* Every statement brings its request nearer to its answer, and nothing    *)
(* that others do puts it further away.                                    *)
StatementsAreProgress ==
    [][\A p \in Requests :
          /\ Continue(p) => StatementsLeft(req'[p]) < StatementsLeft(req[p])
          /\ req[p] # Idle => StatementsLeft(req'[p]) <= StatementsLeft(req[p])]_vars

(* Every request is answered: no scan waits for ever behind other scans of *)
(* the same registration, and the generation of certificates ends.         *)
EverythingIsAnswered == \A p \in Requests : []<>(req[p] = Idle)

(* "A revoked certificate cannot be issued again." (CertificatesService)   *)
RevokedStaysRevoked ==
    [][\A r \in Registrations, c \in CertificateTypes :
          certificates[r][c] = "REVOKED" => certificates'[r][c] = "REVOKED"]_vars
=============================================================================
