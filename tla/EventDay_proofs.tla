---------------------------- MODULE EventDay_proofs ----------------------------
(***************************************************************************)
(* Proofs about EventDay, for any registrations, types and requests.       *)
(***************************************************************************)
EXTENDS EventDay, TLAPS, FiniteSetTheorems

(* What the statements that a request has run entitle it to.               *)
MayRecord(p) ==
    LET r == req[p].registration
        t == req[p].type
    IN  checkins[r][t] = 0 \/ (t # "MAIN_EVENT" /\ req[p].reentry)

Earned(r, c) ==
    /\ c = "PARTICIPATION" => attendances[r] >= Threshold
    /\ c = "WORKSHOP" => r \in Workshop /\ checkins[r]["WORKSHOP"] > 0

RequestOK(p) ==
    LET q == req[p] IN
    /\ q.at \in CheckinSteps => q.registration \in Registrations /\ q.type \in CheckinTypes
    /\ q.at \in {"readEligibility", "countAttendance", "insertCertificate", "issue", "revoke"}
           => q.registration \in Registrations /\ q.type \in CertificateTypes
    /\ q.at \in {"findCheckin", "record"} => rowLock[q.registration] = p
    /\ q.at = "record" => MayRecord(p)
    /\ q.at = "countAttendance" => q.type = "PARTICIPATION"
    /\ q.at = "insertCertificate" => Earned(q.registration, q.type)
    /\ q.at = "issue" => certificates[q.registration][q.type] # "NONE"
    /\ q.at = "revoke" => certificates[q.registration][q.type] \in {"ISSUED", "REVOKED"}

RequestsOK == \A p \in Requests : RequestOK(p)

AllEarned ==
    \A r \in Registrations, c \in CertificateTypes :
        certificates[r][c] # "NONE" => Earned(r, c)

IInv == TypeOK /\ RequestsOK /\ AllEarned /\ MainEventOnce /\ LockOwnersRun

-----------------------------------------------------------------------------
(* Typing.                                                                 *)

LEMMA IdleType == Idle \in RequestStates
  BY DEF Idle, RequestStates, Steps, RegStatuses

LEMMA OneCertificate ==
  ASSUME TypeOK, NEW s, NEW k, NEW value \in CertificateStatuses,
         certificates' = [certificates EXCEPT ![s][k] = value]
  PROVE  /\ certificates' \in [Registrations -> [CertificateTypes -> CertificateStatuses]]
         /\ \A r \in Registrations, c \in CertificateTypes :
               certificates'[r][c] # certificates[r][c] => r = s /\ c = k /\ certificates'[r][c] = value
  BY DEF TypeOK

(* The statements that write a certificate.                                *)
LEMMA CertificateStep ==
  ASSUME TypeOK, NEW p \in Requests,
         InsertCertificate(p) \/ UpdateIssued(p) \/ UpdateRevoked(p)
  PROVE  /\ certificates' \in [Registrations -> [CertificateTypes -> CertificateStatuses]]
         /\ \A r \in Registrations, c \in CertificateTypes :
               certificates'[r][c] # certificates[r][c] =>
                   /\ r = req[p].registration /\ c = req[p].type
                   /\ certificates'[r][c] # "NONE"
                   /\ certificates[r][c] # "NONE" => certificates'[r][c] \in {"ISSUED", "REVOKED"}
  <1> DEFINE s == req[p].registration
             k == req[p].type
  <1>1. CASE UNCHANGED certificates
    BY <1>1 DEF TypeOK
  <1>2. CASE ~UNCHANGED certificates
    <2>1. PICK value \in {"ELIGIBLE", "ISSUED", "REVOKED"} :
              /\ certificates' = [certificates EXCEPT ![s][k] = value]
              /\ value = "ELIGIBLE" => certificates[s][k] = "NONE"
      <3>1. CASE InsertCertificate(p)
        BY <1>2, <3>1 DEF InsertCertificate
      <3>2. CASE UpdateIssued(p)
        BY <3>2 DEF UpdateIssued, SetCertificate
      <3>3. CASE UpdateRevoked(p)
        BY <3>3 DEF UpdateRevoked, SetCertificate
      <3> QED
        BY <3>1, <3>2, <3>3
    <2>2. value \in CertificateStatuses /\ value # "NONE"
      BY DEF CertificateStatuses
    <2> HIDE DEF s, k
    <2>3. /\ certificates' \in [Registrations -> [CertificateTypes -> CertificateStatuses]]
          /\ \A r \in Registrations, c \in CertificateTypes :
                certificates'[r][c] # certificates[r][c] =>
                    r = s /\ c = k /\ certificates'[r][c] = value
      BY <2>1, <2>2, OneCertificate
    <2> QED
      BY <2>1, <2>2, <2>3 DEF s, k
  <1> QED
    BY <1>1, <1>2

LEMMA TypeStep ==
  ASSUME TypeOK, RequestsOK, [Next]_vars
  PROVE  TypeOK'
  <1> USE DEF TypeOK
  <1>1. ASSUME NEW p \in Requests, Respond(p)
        PROVE  req' \in [Requests -> RequestStates]
    BY <1>1, IdleType DEF Respond
  <1>2. ASSUME NEW p \in Requests, NEW step \in Steps, Goto(p, step)
        PROVE  req' \in [Requests -> RequestStates]
    BY <1>2 DEF Goto, RequestStates
  <1>3. ASSUME NEW r
        PROVE  Unlock(r) => rowLock' \in [Registrations -> Requests \cup {NoRequest}]
    BY DEF Unlock
  <1>4. ASSUME NEW p \in Requests, Begin(p)
        PROVE  TypeOK'
    <2>1. CASE \E r \in Registrations, t \in CheckinTypes, reentry \in BOOLEAN :
                  Scan(p, r, t, reentry)
      <3>1. PICK r \in Registrations, t \in CheckinTypes, reentry \in BOOLEAN :
                Scan(p, r, t, reentry)
        BY <2>1
      <3>2. [Idle EXCEPT !.at = "lock", !.registration = r, !.type = t,
                         !.reentry = reentry, !.read = status[r]] \in RequestStates
        BY DEF Idle, RequestStates, Steps, CheckinSteps
      <3> QED
        BY <3>1, <3>2 DEF Scan, tables
    <2>2. CASE Generate(p)
      <3>1. [req[p] EXCEPT !.at = "nextCertificate", !.todo = Pairs] \in RequestStates
        BY DEF RequestStates, Steps, GenerateSteps
      <3>2. req' = [req EXCEPT ![p] = [req[p] EXCEPT !.at = "nextCertificate", !.todo = Pairs]]
        BY <2>2 DEF Generate
      <3> QED
        BY <2>2, <3>1, <3>2 DEF Generate, tables
    <2>3. CASE \E r \in Registrations, c \in CertificateTypes : Issue(p, r, c) \/ Revoke(p, r, c)
      <3>1. PICK r \in Registrations, c \in CertificateTypes : Issue(p, r, c) \/ Revoke(p, r, c)
        BY <2>3
      <3>2. \A step \in {"issue", "revoke"} :
               [req[p] EXCEPT !.at = step, !.registration = r, !.type = c] \in RequestStates
        BY DEF RequestStates, Steps
      <3>3. PICK step \in {"issue", "revoke"} :
               req' = [req EXCEPT ![p] = [req[p] EXCEPT !.at = step, !.registration = r, !.type = c]]
        BY <3>1 DEF Issue, Revoke
      <3> QED
        BY <3>1, <3>2, <3>3 DEF Issue, Revoke, tables
    <2> QED
      BY <1>4, <2>1, <2>2, <2>3 DEF Begin
  <1>5. ASSUME NEW p \in Requests, Continue(p)
        PROVE  TypeOK'
    <2>1. CASE Lock(p)
      BY <1>2, <2>1 DEF Lock, tables, Steps, CheckinSteps
    <2>2. CASE FindCheckin(p)
      BY <1>1, <1>2, <1>3, <2>2 DEF FindCheckin, tables, Steps, CheckinSteps
    <2>3. CASE Record(p)
      <3> DEFINE r == req[p].registration
                 t == req[p].type
      <3>4. r \in Registrations /\ t \in CheckinTypes
        BY <2>3 DEF Record, RequestsOK, RequestOK, CheckinSteps
      <3>5. checkins[r][t] + 1 \in Nat /\ attendances[r] + 1 \in Nat
        BY <3>4
      <3>6. [checkins[r] EXCEPT ![t] = checkins[r][t] + 1] \in [CheckinTypes -> Nat]
        BY <3>4, <3>5
      <3>1. checkins' \in [Registrations -> [CheckinTypes -> Nat]]
        BY <2>3, <3>4, <3>6 DEF Record
      <3>2. attendances' \in [Registrations -> Nat]
        BY <2>3, <3>4, <3>5 DEF Record
      <3>3. status' \in [Registrations -> RegStatuses]
        BY <2>3 DEF Record, RegStatuses
      <3> QED
        BY <1>1, <1>3, <2>3, <3>1, <3>2, <3>3 DEF Record
    <2>4. CASE NextCertificate(p)
      <3>1. CASE Respond(p)
        BY <1>1, <2>4, <3>1 DEF NextCertificate, tables
      <3>2. CASE ~Respond(p)
        <4>1. PICK pair \in req[p].todo :
                LET todo == req[p].todo \ {pair} IN
                req' = [req EXCEPT ![p] =
                           IF certificates[pair[1]][pair[2]] # "NONE"
                           THEN [@ EXCEPT !.todo = todo]
                           ELSE [@ EXCEPT !.todo = todo, !.at = "readEligibility",
                                          !.registration = pair[1], !.type = pair[2]]]
          BY <2>4, <3>2 DEF NextCertificate
        <4>2. pair \in Pairs /\ req[p].todo \ {pair} \in SUBSET Pairs
          BY DEF RequestStates
        <4>3. pair[1] \in Registrations /\ pair[2] \in CertificateTypes
          BY <4>2 DEF Pairs
        <4>4. [req[p] EXCEPT !.todo = req[p].todo \ {pair}] \in RequestStates
          BY <4>2 DEF RequestStates
        <4>5. [req[p] EXCEPT !.todo = req[p].todo \ {pair}, !.at = "readEligibility",
                             !.registration = pair[1], !.type = pair[2]] \in RequestStates
          BY <4>2, <4>3 DEF RequestStates, Steps, GenerateSteps
        <4>6. req' \in [Requests -> RequestStates]
          BY <4>1, <4>4, <4>5
        <4> QED
          BY <2>4, <4>6 DEF NextCertificate, tables
      <3> QED
        BY <3>1, <3>2
    <2>5. CASE ReadEligibility(p)
      <3>1. PICK step \in Steps : Goto(p, step)
        BY <2>5 DEF ReadEligibility, Steps, GenerateSteps
      <3> QED
        BY <1>2, <2>5, <3>1 DEF ReadEligibility, tables
    <2>6. CASE CountAttendance(p)
      BY <1>2, <2>6 DEF CountAttendance, tables, Steps, GenerateSteps
    <2>7. CASE InsertCertificate(p)
      <3>1. PICK step \in Steps : Goto(p, step) \/ Respond(p)
        BY <2>7 DEF InsertCertificate, Steps, GenerateSteps
      <3>2. req' \in [Requests -> RequestStates]
        BY <1>1, <1>2, <3>1
      <3>3. certificates' \in [Registrations -> [CertificateTypes -> CertificateStatuses]]
        BY <2>7, CertificateStep
      <3> QED
        BY <2>7, <3>2, <3>3 DEF InsertCertificate
    <2>8. CASE UpdateIssued(p) \/ UpdateRevoked(p)
      <3>1. PICK value \in CertificateStatuses : SetCertificate(p, value)
        BY <2>8 DEF UpdateIssued, UpdateRevoked, CertificateStatuses
      <3>2. certificates' \in [Registrations -> [CertificateTypes -> CertificateStatuses]]
        BY <3>1 DEF SetCertificate
      <3> QED
        BY <1>1, <3>1, <3>2 DEF SetCertificate
    <2> QED
      BY <1>5, <2>1, <2>2, <2>3, <2>4, <2>5, <2>6, <2>7, <2>8 DEF Continue
  <1>6. ASSUME NEW p \in Requests, Abort(p)
        PROVE  TypeOK'
    BY <1>1, <1>6 DEF Abort, tables
  <1>7. ASSUME NEW r \in Registrations, Confirm(r) \/ Refund(r)
        PROVE  TypeOK'
    BY <1>7 DEF Confirm, Refund, SetStatus, tables, RegStatuses
  <1>8. CASE UNCHANGED vars
    BY <1>8 DEF vars
  <1> QED
    BY <1>4, <1>5, <1>6, <1>7, <1>8 DEF Next

-----------------------------------------------------------------------------
(* What no step takes back.                                                *)

LEMMA NothingIsTakenBack ==
  ASSUME TypeOK, RequestsOK, [Next]_vars, NEW r \in Registrations
  PROVE  /\ attendances'[r] >= attendances[r]
         /\ \A t \in CheckinTypes : checkins'[r][t] >= checkins[r][t]
         /\ \A c \in CertificateTypes : certificates[r][c] # "NONE" => certificates'[r][c] # "NONE"
         /\ \A c \in CertificateTypes : certificates[r][c] \in {"ISSUED", "REVOKED"}
                => certificates'[r][c] \in {"ISSUED", "REVOKED"}
  <1>1. ASSUME NEW p \in Requests, Record(p)
        PROVE  /\ attendances'[r] >= attendances[r]
               /\ \A t \in CheckinTypes : checkins'[r][t] >= checkins[r][t]
               /\ UNCHANGED certificates
    <2>1. /\ checkins' = [checkins EXCEPT ![req[p].registration][req[p].type] = @ + 1]
          /\ attendances' = [attendances EXCEPT ![req[p].registration] = @ + 1]
          /\ UNCHANGED certificates
      BY <1>1 DEF Record
    <2>2. \A t \in CheckinTypes : checkins[r][t] \in Nat
      BY DEF TypeOK
    <2>3. attendances[r] \in Nat
      BY DEF TypeOK
    <2>4. attendances'[r] >= attendances[r]
      BY <2>1, <2>3 DEF TypeOK
    <2>5. ASSUME NEW t \in CheckinTypes
          PROVE  checkins'[r][t] = checkins[r][t] \/ checkins'[r][t] = checkins[r][t] + 1
      BY <2>1 DEF TypeOK
    <2> QED
      BY <2>1, <2>2, <2>4, <2>5
  <1>2. ASSUME NEW p \in Requests,
               InsertCertificate(p) \/ UpdateIssued(p) \/ UpdateRevoked(p)
        PROVE  /\ UNCHANGED <<checkins, attendances>>
               /\ \A c \in CertificateTypes :
                     certificates[r][c] # "NONE" => certificates'[r][c] # "NONE"
               /\ \A c \in CertificateTypes : certificates[r][c] \in {"ISSUED", "REVOKED"}
                     => certificates'[r][c] \in {"ISSUED", "REVOKED"}
    <2>1. \A c \in CertificateTypes : certificates'[r][c] # certificates[r][c] =>
             /\ certificates'[r][c] # "NONE"
             /\ certificates[r][c] # "NONE" => certificates'[r][c] \in {"ISSUED", "REVOKED"}
      BY <1>2, CertificateStep
    <2> QED
      BY <1>2, <2>1 DEF InsertCertificate, UpdateIssued, UpdateRevoked, SetCertificate
  <1>3. ASSUME NEW p \in Requests, Begin(p) \/ Continue(p) \/ Abort(p),
               ~Record(p), ~InsertCertificate(p), ~UpdateIssued(p), ~UpdateRevoked(p)
        PROVE  UNCHANGED tables
    BY <1>3 DEF Begin, Continue, Abort, Scan, Generate, Issue, Revoke, Lock, FindCheckin,
                NextCertificate, ReadEligibility, CountAttendance
  <1>4. ASSUME UNCHANGED tables
        PROVE  /\ attendances'[r] >= attendances[r]
               /\ \A t \in CheckinTypes : checkins'[r][t] >= checkins[r][t]
               /\ \A c \in CertificateTypes :
                     certificates[r][c] # "NONE" => certificates'[r][c] # "NONE"
               /\ \A c \in CertificateTypes : certificates[r][c] \in {"ISSUED", "REVOKED"}
                     => certificates'[r][c] \in {"ISSUED", "REVOKED"}
    BY <1>4 DEF tables, TypeOK
  <1>5. ASSUME UNCHANGED <<checkins, attendances>>
        PROVE  /\ attendances'[r] >= attendances[r]
               /\ \A t \in CheckinTypes : checkins'[r][t] >= checkins[r][t]
    BY <1>5 DEF TypeOK
  <1>6. \/ \E p \in Requests : Begin(p) \/ Continue(p) \/ Abort(p)
        \/ UNCHANGED tables
    BY DEF Next, Confirm, Refund, SetStatus, vars, tables
  <1> QED
    BY <1>1, <1>2, <1>3, <1>4, <1>5, <1>6

LEMMA EarnedIsKept ==
  ASSUME TypeOK, RequestsOK, [Next]_vars, NEW r \in Registrations, NEW c, Earned(r, c)
  PROVE  Earned(r, c)'
  <1>1. "WORKSHOP" \in CheckinTypes
    BY EventDayAssumption
  <1>2. checkins'[r]["WORKSHOP"] >= checkins[r]["WORKSHOP"] /\ attendances'[r] >= attendances[r]
    BY <1>1, NothingIsTakenBack
  <1>3. checkins[r]["WORKSHOP"] \in Nat /\ attendances[r] \in Nat /\ Threshold \in Nat
    BY <1>1, EventDayAssumption DEF TypeOK
  <1>4. checkins'[r]["WORKSHOP"] \in Nat /\ attendances'[r] \in Nat
    BY <1>1, TypeStep DEF TypeOK
  <1> QED
    BY <1>2, <1>3, <1>4 DEF Earned

-----------------------------------------------------------------------------
(* A step of one request disturbs nothing that another relies on: the row  *)
(* lock keeps other check-ins of the registration out.                     *)

LEMMA LocksAreRespected ==
  ASSUME TypeOK, RequestsOK, [Next]_vars, NEW other \in Requests, UNCHANGED req[other],
         NEW r \in Registrations, rowLock[r] = other
  PROVE  rowLock'[r] = other /\ UNCHANGED checkins[r]
  <1> USE DEF TypeOK
  <1>1. ASSUME NEW p \in Requests, p # other, Lock(p) \/ FindCheckin(p) \/ Record(p)
        PROVE  rowLock'[r] = other /\ UNCHANGED checkins[r]
    <2>1. other # NoRequest
      BY EventDayAssumption
    <2>2. CASE Lock(p)
      BY <1>1, <2>1, <2>2 DEF Lock, tables
    <2>3. CASE FindCheckin(p) \/ Record(p)
      <3>1. rowLock[req[p].registration] = p
        BY <2>3 DEF FindCheckin, Record, RequestsOK, RequestOK
      <3>2. req[p].registration # r
        BY <1>1, <3>1
      <3> QED
        BY <2>3, <3>2 DEF FindCheckin, Record, Unlock, tables
    <2> QED
      BY <1>1, <2>2, <2>3
  <1>2. ASSUME NEW p \in Requests, p = other, Lock(p) \/ FindCheckin(p) \/ Record(p)
        PROVE  FALSE
    <2>1. req'[p].at # req[p].at
      BY <1>2 DEF Lock, FindCheckin, Record, Goto, Respond, Idle, RequestStates
    <2> QED
      BY <1>2, <2>1
  <1>3. ASSUME NEW p \in Requests, Abort(p)
        PROVE  rowLock'[r] = other /\ UNCHANGED checkins[r]
    BY <1>3 DEF Abort, Respond, tables
  <1>4. ASSUME NEW p \in Requests, Begin(p) \/ Continue(p),
               ~Lock(p), ~FindCheckin(p), ~Record(p)
        PROVE  UNCHANGED <<rowLock, checkins>>
    BY <1>4 DEF Begin, Continue, Scan, Generate, Issue, Revoke, NextCertificate,
                ReadEligibility, CountAttendance, InsertCertificate, UpdateIssued,
                UpdateRevoked, SetCertificate, tables
  <1>5. \/ \E p \in Requests : Begin(p) \/ Continue(p) \/ Abort(p)
        \/ UNCHANGED <<rowLock, checkins>>
    BY DEF Next, Confirm, Refund, SetStatus, vars, tables
  <1> QED
    BY <1>1, <1>2, <1>3, <1>4, <1>5

LEMMA Undisturbed ==
  ASSUME TypeOK, RequestsOK, [Next]_vars, NEW other \in Requests, UNCHANGED req[other]
  PROVE  RequestOK(other)'
  <1> DEFINE r == req[other].registration
  <1>1. RequestOK(other)
    BY DEF RequestsOK
  <1>2. ASSUME req[other].at \in {"findCheckin", "record"}
        PROVE  rowLock'[r] = other /\ UNCHANGED checkins[r]
    BY <1>1, <1>2, LocksAreRespected DEF RequestOK, CheckinSteps
  <1>3. ASSUME req[other].at = "insertCertificate"
        PROVE  Earned(r, req[other].type)'
    BY <1>1, <1>3, EarnedIsKept DEF RequestOK, Earned
  <1>4. ASSUME req[other].at = "issue"
        PROVE  certificates'[r][req[other].type] # "NONE"
    BY <1>1, <1>4, NothingIsTakenBack DEF RequestOK
  <1>5. ASSUME req[other].at = "revoke"
        PROVE  certificates'[r][req[other].type] \in {"ISSUED", "REVOKED"}
    BY <1>1, <1>5, NothingIsTakenBack DEF RequestOK
  <1> QED
    BY <1>1, <1>2, <1>3, <1>4, <1>5 DEF RequestOK, MayRecord, Earned

(* A request that takes a step has what its next statement relies on.      *)

LEMMA Idles ==
  ASSUME NEW p \in Requests, TypeOK, Respond(p)
  PROVE  RequestOK(p)'
  <1>1. req'[p].at = "idle"
    BY DEF Respond, Idle, TypeOK
  <1> QED
    BY <1>1 DEF RequestOK, CheckinSteps

LEMMA OwnStep ==
  ASSUME TypeOK, RequestsOK, NEW p \in Requests, Begin(p) \/ Continue(p) \/ Abort(p)
  PROVE  RequestOK(p)'
  <1> USE DEF TypeOK
  <1>1. RequestOK(p)
    BY DEF RequestsOK
  <1>2. ASSUME NEW r \in Registrations, NEW t \in CheckinTypes, NEW reentry \in BOOLEAN,
               Scan(p, r, t, reentry)
        PROVE  RequestOK(p)'
    <2>1. req'[p].at = "lock" /\ req'[p].registration = r /\ req'[p].type = t
      BY <1>2 DEF Scan, Idle
    <2> QED
      BY <2>1 DEF RequestOK
  <1>3. CASE Generate(p)
    <2>1. req'[p].at = "nextCertificate"
      BY <1>3 DEF Generate, RequestStates
    <2> QED
      BY <2>1 DEF RequestOK, CheckinSteps
  <1>4. ASSUME NEW r \in Registrations, NEW c \in CertificateTypes,
               Issue(p, r, c) \/ Revoke(p, r, c)
        PROVE  RequestOK(p)'
    <2>1. req'[p].at \in {"issue", "revoke"} /\ req'[p].registration = r /\ req'[p].type = c
      BY <1>4 DEF Issue, Revoke, RequestStates
    <2>2. /\ certificates'[r][c] # "NONE"
          /\ req'[p].at = "revoke" => certificates'[r][c] = "ISSUED"
      BY <1>4 DEF Issue, Revoke, tables, RequestStates
    <2> QED
      BY <2>1, <2>2 DEF RequestOK, CheckinSteps
  <1>5. CASE Lock(p)
    <2>1. /\ req'[p].at = "findCheckin"
          /\ req'[p].registration = req[p].registration
          /\ req'[p].type = req[p].type
      BY <1>5 DEF Lock, Goto, RequestStates
    <2>2. req[p].registration \in Registrations /\ req[p].type \in CheckinTypes
      BY <1>1, <1>5 DEF Lock, RequestOK, CheckinSteps
    <2>3. rowLock'[req[p].registration] = p
      BY <1>5, <2>2 DEF Lock
    <2> QED
      BY <2>1, <2>2, <2>3 DEF RequestOK
  <1>6. CASE FindCheckin(p)
    <2>1. CASE Reuses(p)
      BY <1>6, <2>1, Idles DEF FindCheckin
    <2>2. CASE ~Reuses(p)
      <3>1. /\ req'[p].at = "record"
            /\ req'[p].registration = req[p].registration
            /\ req'[p].type = req[p].type
            /\ req'[p].reentry = req[p].reentry
            /\ UNCHANGED <<rowLock, checkins>>
        BY <1>6, <2>2 DEF FindCheckin, Goto, RequestStates, tables
      <3>2. /\ req[p].registration \in Registrations /\ req[p].type \in CheckinTypes
            /\ rowLock[req[p].registration] = p
        BY <1>1, <1>6 DEF FindCheckin, RequestOK, CheckinSteps
      <3>3. MayRecord(p)
        BY <2>2, <3>2 DEF Reuses, MayRecord
      <3> QED
        BY <3>1, <3>2, <3>3 DEF RequestOK, MayRecord
    <2> QED
      BY <2>1, <2>2
  <1>7. CASE Record(p) \/ UpdateIssued(p) \/ UpdateRevoked(p) \/ Abort(p)
    BY <1>7, Idles DEF Record, UpdateIssued, UpdateRevoked, SetCertificate, Abort
  <1>8. CASE NextCertificate(p)
    <2>1. CASE Respond(p)
      BY <2>1, Idles
    <2>2. CASE ~Respond(p)
      <3>1. PICK pair \in req[p].todo :
              LET todo == req[p].todo \ {pair} IN
              req' = [req EXCEPT ![p] =
                         IF certificates[pair[1]][pair[2]] # "NONE"
                         THEN [@ EXCEPT !.todo = todo]
                         ELSE [@ EXCEPT !.todo = todo, !.at = "readEligibility",
                                        !.registration = pair[1], !.type = pair[2]]]
        BY <1>8, <2>2 DEF NextCertificate
      <3>2. pair[1] \in Registrations /\ pair[2] \in CertificateTypes
        BY DEF RequestStates, Pairs
      <3>3. \/ req'[p].at = "nextCertificate"
            \/ /\ req'[p].at = "readEligibility"
               /\ req'[p].registration = pair[1]
               /\ req'[p].type = pair[2]
        <4> DEFINE todo == req[p].todo \ {pair}
        <4>1. req[p] \in RequestStates /\ req[p].at = "nextCertificate"
          BY <1>8 DEF NextCertificate
        <4>2. CASE certificates[pair[1]][pair[2]] # "NONE"
          <5>1. req'[p] = [req[p] EXCEPT !.todo = todo]
            BY <3>1, <4>2
          <5> QED
            BY <4>1, <5>1 DEF RequestStates
        <4>3. CASE ~(certificates[pair[1]][pair[2]] # "NONE")
          <5>1. req'[p] = [req[p] EXCEPT !.todo = todo, !.at = "readEligibility",
                                         !.registration = pair[1], !.type = pair[2]]
            BY <3>1, <4>3
          <5> QED
            BY <4>1, <5>1 DEF RequestStates
        <4> QED
          BY <4>2, <4>3
      <3> QED
        BY <3>2, <3>3 DEF RequestOK, CheckinSteps
    <2> QED
      BY <2>1, <2>2
  <1> DEFINE r == req[p].registration
             c == req[p].type
  <1>9. ASSUME NEW step \in GenerateSteps \ {"readEligibility"}, Goto(p, step),
               r \in Registrations /\ c \in CertificateTypes,
               step = "countAttendance" => c = "PARTICIPATION",
               step = "insertCertificate" => Earned(r, c),
               UNCHANGED <<checkins, attendances>>
        PROVE  RequestOK(p)'
    <2>1. req'[p].at = step /\ req'[p].registration = r /\ req'[p].type = c
      BY <1>9 DEF Goto, RequestStates
    <2>2. step \in {"nextCertificate", "countAttendance", "insertCertificate"}
      BY DEF GenerateSteps
    <2> QED
      BY <1>9, <2>1, <2>2 DEF RequestOK, CheckinSteps, Earned
  <1>10. CASE ReadEligibility(p)
    <2>1. r \in Registrations /\ c \in CertificateTypes
      BY <1>1, <1>10 DEF ReadEligibility, RequestOK
    <2>2. UNCHANGED <<checkins, attendances>>
      BY <1>10 DEF ReadEligibility, tables
    <2>3. CASE Goto(p, "nextCertificate")
      BY <1>9, <2>1, <2>2, <2>3 DEF GenerateSteps
    <2>4. CASE ~Goto(p, "nextCertificate")
      <3>1. CASE c = "PARTICIPATION"
        <4>1. Goto(p, "countAttendance")
          BY <1>10, <2>4, <3>1 DEF ReadEligibility
        <4> QED
          BY <1>9, <2>1, <2>2, <3>1, <4>1 DEF GenerateSteps
      <3>2. CASE c = "WORKSHOP"
        <4>1. Goto(p, "insertCertificate") /\ checkins[r]["WORKSHOP"] > 0 /\ r \in Workshop
          BY <1>10, <2>4, <3>2 DEF ReadEligibility
        <4>2. Earned(r, c)
          BY <3>2, <4>1 DEF Earned
        <4> QED
          BY <1>9, <2>1, <2>2, <4>1, <4>2 DEF GenerateSteps
      <3>3. CASE c # "PARTICIPATION" /\ c # "WORKSHOP"
        <4>1. Goto(p, "insertCertificate")
          BY <1>10, <2>4, <3>3 DEF ReadEligibility
        <4>2. Earned(r, c)
          BY <3>3 DEF Earned
        <4> QED
          BY <1>9, <2>1, <2>2, <4>1, <4>2 DEF GenerateSteps
      <3> QED
        BY <3>1, <3>2, <3>3
    <2> QED
      BY <2>3, <2>4
  <1>11. CASE CountAttendance(p)
    <2>1. /\ r \in Registrations /\ c \in CertificateTypes /\ c = "PARTICIPATION"
          /\ UNCHANGED <<checkins, attendances>>
      BY <1>1, <1>11 DEF CountAttendance, RequestOK, tables
    <2>2. CASE attendances[r] >= Threshold
      <3>1. Goto(p, "insertCertificate") /\ Earned(r, c)
        BY <1>11, <2>1, <2>2 DEF CountAttendance, Earned
      <3> QED
        BY <1>9, <2>1, <3>1 DEF GenerateSteps
    <2>3. CASE ~(attendances[r] >= Threshold)
      <3>1. Goto(p, "nextCertificate")
        BY <1>11, <2>3 DEF CountAttendance
      <3> QED
        BY <1>9, <2>1, <3>1 DEF GenerateSteps
    <2> QED
      BY <2>2, <2>3
  <1>12. CASE InsertCertificate(p)
    <2>1. CASE Respond(p)
      BY <2>1, Idles
    <2>2. CASE ~Respond(p)
      <3>1. Goto(p, "nextCertificate") /\ UNCHANGED <<checkins, attendances>>
        BY <1>12, <2>2 DEF InsertCertificate
      <3>2. r \in Registrations /\ c \in CertificateTypes
        BY <1>1, <1>12 DEF InsertCertificate, RequestOK
      <3> QED
        BY <1>9, <3>1, <3>2 DEF GenerateSteps
    <2> QED
      BY <2>1, <2>2
  <1> QED
    BY <1>2, <1>3, <1>4, <1>5, <1>6, <1>7, <1>8, <1>10, <1>11, <1>12 DEF Begin, Continue

LEMMA RequestsStep ==
  ASSUME TypeOK, RequestsOK, [Next]_vars
  PROVE  RequestsOK'
  <1>1. ASSUME NEW p \in Requests, Begin(p) \/ Continue(p) \/ Abort(p), NEW other \in Requests,
               other # p
        PROVE  UNCHANGED req[other]
    BY <1>1 DEF Begin, Continue, Abort, Scan, Generate, Issue, Revoke, Lock, FindCheckin, Record,
                NextCertificate, ReadEligibility, CountAttendance, InsertCertificate,
                UpdateIssued, UpdateRevoked, SetCertificate, Goto, Respond, TypeOK
  <1>2. \/ \E p \in Requests : Begin(p) \/ Continue(p) \/ Abort(p)
        \/ UNCHANGED req
    BY DEF Next, Confirm, Refund, SetStatus, vars
  <1> QED
    BY <1>1, <1>2, OwnStep, Undisturbed DEF RequestsOK

-----------------------------------------------------------------------------
(* Who writes certificates and check-ins.                                  *)

LEMMA BeginWritesNothing ==
  ASSUME NEW p \in Requests, Begin(p)
  PROVE  UNCHANGED <<status, rowLock, tables>>
  BY DEF Begin, Scan, Generate, Issue, Revoke

LEMMA OutsideWritesNothing ==
  ASSUME (\E r \in Registrations : Confirm(r) \/ Refund(r)) \/ (\E p \in Requests : Abort(p))
  PROVE  UNCHANGED tables
  BY DEF Confirm, Refund, SetStatus, Abort

LEMMA CertificateWriters ==
  ASSUME [Next]_vars, certificates' # certificates
  PROVE  \E p \in Requests : InsertCertificate(p) \/ UpdateIssued(p) \/ UpdateRevoked(p)
  <1>1. PICK p \in Requests : Continue(p)
    BY BeginWritesNothing, OutsideWritesNothing DEF Next, vars, tables
  <1>2. ~Lock(p) /\ ~FindCheckin(p) /\ ~Record(p)
    BY DEF Lock, FindCheckin, Record, tables
  <1>3. ~NextCertificate(p) /\ ~ReadEligibility(p) /\ ~CountAttendance(p)
    BY DEF NextCertificate, ReadEligibility, CountAttendance, tables
  <1> QED
    BY <1>1, <1>2, <1>3 DEF Continue

LEMMA CheckinWriters ==
  ASSUME [Next]_vars, checkins' # checkins
  PROVE  \E p \in Requests : Record(p)
  <1>1. PICK p \in Requests : Continue(p)
    BY BeginWritesNothing, OutsideWritesNothing DEF Next, vars, tables
  <1>2. ~Lock(p) /\ ~FindCheckin(p) /\ ~InsertCertificate(p)
    BY DEF Lock, FindCheckin, InsertCertificate, tables
  <1>3. ~NextCertificate(p) /\ ~ReadEligibility(p) /\ ~CountAttendance(p)
    BY DEF NextCertificate, ReadEligibility, CountAttendance, tables
  <1>4. ~UpdateIssued(p) /\ ~UpdateRevoked(p)
    BY DEF UpdateIssued, UpdateRevoked, SetCertificate
  <1> QED
    BY <1>1, <1>2, <1>3, <1>4 DEF Continue

-----------------------------------------------------------------------------
(* The two invariants, and what a step does to a check-in count.           *)

LEMMA AllEarnedStep ==
  ASSUME TypeOK, RequestsOK, AllEarned, [Next]_vars
  PROVE  AllEarned'
  <1> SUFFICES ASSUME NEW r \in Registrations, NEW c \in CertificateTypes,
                      certificates'[r][c] # "NONE"
               PROVE  Earned(r, c)
    BY EarnedIsKept DEF AllEarned
  <1>1. CASE certificates'[r][c] = certificates[r][c]
    BY <1>1 DEF AllEarned
  <1>2. CASE certificates'[r][c] # certificates[r][c]
    <2>1. PICK p \in Requests : InsertCertificate(p) \/ UpdateIssued(p) \/ UpdateRevoked(p)
      BY <1>2, CertificateWriters
    <2>2. r = req[p].registration /\ c = req[p].type
      BY <1>2, <2>1, CertificateStep
    <2> QED
      BY <2>1, <2>2 DEF RequestsOK, RequestOK, AllEarned, InsertCertificate, UpdateIssued,
                        UpdateRevoked
  <1> QED
    BY <1>1, <1>2

(* A check-in is recorded by the request whose turn it is, as MayRecord    *)
(* allows.                                                                 *)
LEMMA CheckinStep ==
  ASSUME TypeOK, RequestsOK, [Next]_vars,
         NEW r \in Registrations, NEW t \in CheckinTypes, checkins'[r][t] # checkins[r][t]
  PROVE  /\ checkins'[r][t] = checkins[r][t] + 1
         /\ \/ checkins[r][t] = 0
            \/ t # "MAIN_EVENT" /\ \E p \in Requests : req[p].registration = r /\ req[p].reentry
  <1>1. PICK p \in Requests : Record(p)
    BY CheckinWriters
  <1>2. checkins' = [checkins EXCEPT ![req[p].registration][req[p].type] = @ + 1]
    BY <1>1 DEF Record
  <1>3. MayRecord(p)
    BY <1>1 DEF Record, RequestsOK, RequestOK
  <1>4. r = req[p].registration /\ t = req[p].type /\ checkins'[r][t] = checkins[r][t] + 1
    BY <1>2 DEF TypeOK
  <1> QED
    BY <1>3, <1>4 DEF MayRecord, TypeOK, RequestStates

LEMMA MainEventStep ==
  ASSUME TypeOK, RequestsOK, MainEventOnce, [Next]_vars
  PROVE  MainEventOnce'
  <1> SUFFICES ASSUME NEW r \in Registrations
               PROVE  checkins'[r]["MAIN_EVENT"] <= 1
    BY DEF MainEventOnce
  <1>1. "MAIN_EVENT" \in CheckinTypes
    BY EventDayAssumption
  <1>2. CASE checkins'[r]["MAIN_EVENT"] = checkins[r]["MAIN_EVENT"]
    BY <1>2 DEF MainEventOnce
  <1>3. CASE checkins'[r]["MAIN_EVENT"] # checkins[r]["MAIN_EVENT"]
    BY <1>1, <1>3, CheckinStep
  <1> QED
    BY <1>2, <1>3

(* A row stays locked by a request that is in its transaction, or is       *)
(* unlocked.                                                               *)
LEMMA LockOwnersStep ==
  ASSUME TypeOK, RequestsOK, LockOwnersRun, [Next]_vars
  PROVE  LockOwnersRun'
  <1> USE DEF TypeOK
  <1> SUFFICES ASSUME NEW r \in Registrations, rowLock'[r] # NoRequest
               PROVE  /\ req'[rowLock'[r]].at \in {"findCheckin", "record"}
                      /\ req'[rowLock'[r]].registration = r
    BY DEF LockOwnersRun
  <1>1. rowLock[r] # NoRequest => /\ rowLock[r] \in Requests
                                  /\ req[rowLock[r]].at \in {"findCheckin", "record"}
                                  /\ req[rowLock[r]].registration = r
    BY DEF LockOwnersRun
  <1>2. ASSUME NEW p \in Requests, \A q \in Requests \ {p} : UNCHANGED req[q],
               UNCHANGED rowLock[r], rowLock[r] # p
        PROVE  /\ req'[rowLock'[r]].at \in {"findCheckin", "record"}
               /\ req'[rowLock'[r]].registration = r
    BY <1>1, <1>2
  <1>3. ASSUME NEW p \in Requests, Begin(p) \/ Continue(p) \/ Abort(p)
        PROVE  \A q \in Requests \ {p} : UNCHANGED req[q]
    BY <1>3 DEF Begin, Continue, Abort, Scan, Generate, Issue, Revoke, Lock, FindCheckin, Record,
                NextCertificate, ReadEligibility, CountAttendance, InsertCertificate,
                UpdateIssued, UpdateRevoked, SetCertificate, Goto, Respond
  <1>4. ASSUME NEW p \in Requests, Begin(p)
        PROVE  rowLock[r] # p
    <2>1. req[p] = Idle
      BY <1>4 DEF Begin, Scan, Generate, Issue, Revoke
    <2>2. req[p].at = "idle"
      BY <2>1 DEF Idle
    <2> QED
      BY <1>1, <2>2, EventDayAssumption
  <1>5. ASSUME NEW p \in Requests, Lock(p)
        PROVE  /\ req'[rowLock'[r]].at \in {"findCheckin", "record"}
               /\ req'[rowLock'[r]].registration = r
    <2>1. req'[p].at = "findCheckin" /\ req'[p].registration = req[p].registration
      BY <1>5 DEF Lock, Goto, RequestStates
    <2>2. rowLock[r] # p
      BY <1>1, <1>5 DEF Lock
    <2>3. CASE r = req[p].registration
      BY <1>5, <2>1, <2>3 DEF Lock
    <2>4. CASE r # req[p].registration
      <3>1. UNCHANGED rowLock[r]
        BY <1>5, <2>4 DEF Lock
      <3> QED
        BY <1>2, <1>3, <1>5, <2>2, <3>1 DEF Continue
    <2> QED
      BY <2>3, <2>4
  <1>6. ASSUME NEW p \in Requests, FindCheckin(p) \/ Record(p), Unlock(req[p].registration)
        PROVE  /\ req'[rowLock'[r]].at \in {"findCheckin", "record"}
               /\ req'[rowLock'[r]].registration = r
    <2>1. r # req[p].registration /\ UNCHANGED rowLock[r]
      BY <1>6 DEF Unlock
    <2>2. rowLock[r] # p
      BY <1>1, <2>1
    <2> QED
      BY <1>2, <1>3, <1>6, <2>1, <2>2 DEF Continue
  <1>7. ASSUME NEW p \in Requests, FindCheckin(p), ~Unlock(req[p].registration)
        PROVE  /\ req'[rowLock'[r]].at \in {"findCheckin", "record"}
               /\ req'[rowLock'[r]].registration = r
    <2>1. /\ UNCHANGED rowLock
          /\ req'[p].at = "record" /\ req'[p].registration = req[p].registration
      BY <1>7 DEF FindCheckin, Goto, RequestStates
    <2>2. CASE rowLock[r] = p
      BY <1>1, <2>1, <2>2
    <2>3. CASE rowLock[r] # p
      BY <1>2, <1>3, <1>7, <2>1, <2>3 DEF Continue
    <2> QED
      BY <2>2, <2>3
  <1>8. ASSUME NEW p \in Requests, Continue(p), ~Lock(p), ~FindCheckin(p), ~Record(p)
        PROVE  UNCHANGED rowLock /\ rowLock[r] # p
    BY <1>1, <1>8 DEF Continue, NextCertificate, ReadEligibility, CountAttendance,
                      InsertCertificate, UpdateIssued, UpdateRevoked, SetCertificate
  <1>9. ASSUME NEW p \in Requests, Abort(p)
        PROVE  UNCHANGED rowLock[r] /\ rowLock[r] # p
    BY <1>9 DEF Abort
  <1>10. ASSUME UNCHANGED <<rowLock, req>>
         PROVE  /\ req'[rowLock'[r]].at \in {"findCheckin", "record"}
                /\ req'[rowLock'[r]].registration = r
    BY <1>1, <1>10
  <1>11. ASSUME NEW p \in Requests, Begin(p)
         PROVE  UNCHANGED rowLock
    BY <1>11, BeginWritesNothing
  <1>12. ASSUME NEW p \in Requests, Begin(p) \/ Continue(p) \/ Abort(p)
         PROVE  /\ req'[rowLock'[r]].at \in {"findCheckin", "record"}
                /\ req'[rowLock'[r]].registration = r
    <2>1. CASE Begin(p)
      BY <1>2, <1>3, <1>4, <1>11, <2>1
    <2>2. CASE Record(p)
      BY <1>6, <2>2 DEF Record
    <2>3. CASE Continue(p) /\ ~Record(p)
      BY <1>2, <1>3, <1>5, <1>6, <1>7, <1>8, <2>3
    <2>4. CASE Abort(p)
      BY <1>2, <1>3, <1>9, <2>4
    <2> QED
      BY <1>12, <2>1, <2>2, <2>3, <2>4
  <1>13. CASE UNCHANGED vars \/ \E s \in Registrations : Confirm(s) \/ Refund(s)
    BY <1>10, <1>13 DEF vars, Confirm, Refund, SetStatus
  <1> QED
    BY <1>12, <1>13 DEF Next

LEMMA Initial == Init => IInv
  <1> SUFFICES ASSUME Init PROVE IInv
    OBVIOUS
  <1>1. TypeOK
    BY IdleType DEF Init, TypeOK, RegStatuses, CertificateStatuses
  <1>2. RequestsOK
    BY DEF Init, Idle, RequestsOK, RequestOK, CheckinSteps
  <1>3. AllEarned /\ MainEventOnce /\ LockOwnersRun
    BY EventDayAssumption DEF Init, AllEarned, MainEventOnce, LockOwnersRun
  <1> QED
    BY <1>1, <1>2, <1>3 DEF IInv

(* The inductive invariant of check-ins and certificates.                  *)
THEOREM Invariance == Spec => []IInv
  <1>1. IInv /\ [Next]_vars => IInv'
    BY TypeStep, RequestsStep, AllEarnedStep, MainEventStep, LockOwnersStep DEF IInv
  <1> QED
    BY <1>1, Initial, PTL DEF Spec

(* The tables and the requests keep their types.                           *)
THEOREM TypeCorrect == Spec => []TypeOK
  <1>1. IInv => TypeOK
    BY DEF IInv
  <1> QED
    BY <1>1, Invariance, PTL

(* However many scans of a badge overlap, the main event is entered once.  *)
THEOREM MainEventIsEnteredOnce == Spec => []MainEventOnce
  <1>1. IInv => MainEventOnce
    BY DEF IInv
  <1> QED
    BY <1>1, Invariance, PTL

(* Certificates of participation and of a workshop are made out to who has *)
(* attended.                                                               *)
THEOREM CertificatesWereEarned == Spec => []CertificatesAreEarned
  <1>1. IInv => CertificatesAreEarned
    BY DEF IInv, AllEarned, Earned, CertificatesAreEarned
  <1> QED
    BY <1>1, Invariance, PTL

(* A check-in is repeated on request only, and the main event's never.     *)
THEOREM CheckinsAreIdempotent == Spec => CheckinIsIdempotent
  <1> DEFINE A == \A r \in Registrations, t \in CheckinTypes :
                     checkins'[r][t] > checkins[r][t] =>
                         \/ checkins[r][t] = 0
                         \/ /\ t # "MAIN_EVENT"
                            /\ \E p \in Requests : req[p].registration = r /\ req[p].reentry
  <1>1. IInv /\ [Next]_vars => [A]_vars
    <2> SUFFICES ASSUME IInv, [Next]_vars, NEW r \in Registrations, NEW t \in CheckinTypes,
                        checkins'[r][t] > checkins[r][t]
                 PROVE  \/ checkins[r][t] = 0
                        \/ /\ t # "MAIN_EVENT"
                           /\ \E p \in Requests : req[p].registration = r /\ req[p].reentry
      OBVIOUS
    <2>1. checkins[r][t] \in Nat
      BY DEF IInv, TypeOK
    <2>2. checkins'[r][t] # checkins[r][t]
      BY <2>1
    <2> QED
      BY <2>2, CheckinStep DEF IInv
  <1>2. [][A]_vars => CheckinIsIdempotent
    BY PTL DEF CheckinIsIdempotent
  <1> QED
    BY <1>1, <1>2, Invariance, PTL DEF Spec

(* Nobody waits for a row whose owner has ended, or waits as well: the row *)
(* of a registration is locked by a request in its transaction.            *)
THEOREM LocksAreInUse == Spec => []LockOwnersRun
  <1>1. IInv => LockOwnersRun
    BY DEF IInv
  <1> QED
    BY <1>1, Invariance, PTL

-----------------------------------------------------------------------------
(* The refinement of Door.                                                 *)

LEMMA InitialAtTheDoor == Init => AtTheDoor!Init
  BY DEF Init, AtTheDoor!Init

(* A check-in that is recorded is an entry.                                *)
LEMMA RecordIsEntry ==
  ASSUME TypeOK, RequestsOK, NEW p \in Requests, Record(p)
  PROVE  AtTheDoor!Next
  <1>1. req[p].registration \in Registrations /\ req[p].type \in CheckinTypes /\ MayRecord(p)
    BY DEF Record, RequestsOK, RequestOK, CheckinSteps
  <1>2. AtTheDoor!Enter(req[p].registration, req[p].type)
    BY <1>1 DEF Record, MayRecord, AtTheDoor!Enter
  <1> QED
    BY <1>1, <1>2 DEF AtTheDoor!Next

(* So is what is written of a certificate what Door allows.                *)
LEMMA CertificateAtTheDoor ==
  ASSUME TypeOK, RequestsOK, NEW p \in Requests,
         InsertCertificate(p) \/ UpdateIssued(p) \/ UpdateRevoked(p)
  PROVE  [AtTheDoor!Next]_(AtTheDoor!door)
  <1> DEFINE r == req[p].registration
             c == req[p].type
  <1>1. r \in Registrations /\ c \in CertificateTypes
    BY DEF RequestsOK, RequestOK, InsertCertificate, UpdateIssued, UpdateRevoked
  <1>2. CASE InsertCertificate(p)
    <2>1. Earned(r, c)
      BY <1>2 DEF InsertCertificate, RequestsOK, RequestOK
    <2>2. AtTheDoor!MakeOut(r, c) \/ UNCHANGED AtTheDoor!door
      BY <1>2, <2>1 DEF InsertCertificate, Earned, AtTheDoor!MakeOut, AtTheDoor!Earned,
                        AtTheDoor!Become, AtTheDoor!door
    <2> QED
      BY <1>1, <2>2 DEF AtTheDoor!Next
  <1>3. CASE UpdateIssued(p)
    <2>1. AtTheDoor!Issue(r, c)
      BY <1>3 DEF UpdateIssued, SetCertificate, RequestsOK, RequestOK, AtTheDoor!Issue,
                  AtTheDoor!Become
    <2> QED
      BY <1>1, <2>1 DEF AtTheDoor!Next
  <1>4. CASE UpdateRevoked(p)
    <2>1. AtTheDoor!Revoke(r, c)
      BY <1>4 DEF UpdateRevoked, SetCertificate, RequestsOK, RequestOK, AtTheDoor!Revoke,
                  AtTheDoor!Become
    <2> QED
      BY <1>1, <2>1 DEF AtTheDoor!Next
  <1> QED
    BY <1>2, <1>3, <1>4

LEMMA StepAtTheDoor ==
  ASSUME TypeOK, RequestsOK, [Next]_vars
  PROVE  [AtTheDoor!Next]_(AtTheDoor!door)
  <1>1. CASE UNCHANGED tables
    BY <1>1 DEF tables, AtTheDoor!door
  <1>2. CASE ~UNCHANGED tables
    <2>1. PICK p \in Requests : Continue(p)
      BY <1>2, BeginWritesNothing, OutsideWritesNothing DEF Next, vars, tables
    <2>2. Record(p) \/ InsertCertificate(p) \/ UpdateIssued(p) \/ UpdateRevoked(p)
      BY <1>2, <2>1 DEF Continue, Lock, FindCheckin, NextCertificate, ReadEligibility,
                        CountAttendance
    <2> QED
      BY <2>2, RecordIsEntry, CertificateAtTheDoor
  <1> QED
    BY <1>1, <1>2

(* Every statement of every request is a step of Door or none.             *)
THEOREM RefinesDoor == Spec => ImplementsDoor
  <1>1. IInv /\ [Next]_vars => [AtTheDoor!Next]_(AtTheDoor!door)
    BY StepAtTheDoor DEF IInv
  <1>2. Spec => AtTheDoor!Spec
    BY <1>1, Invariance, InitialAtTheDoor, PTL DEF Spec, AtTheDoor!Spec
  <1> QED
    BY <1>2 DEF ImplementsDoor

-----------------------------------------------------------------------------
(* Progress.  What is left of a generation can be counted.                 *)

LEMMA TodoIsFinite ==
  ASSUME IsFiniteSet(Pairs), TypeOK, NEW p \in Requests
  PROVE  IsFiniteSet(req[p].todo) /\ Cardinality(req[p].todo) \in Nat
  <1>1. req[p].todo \in SUBSET Pairs
    BY DEF TypeOK, RequestStates
  <1> QED
    BY <1>1, FS_Subset, FS_CardinalityType

(* The measure, place by place.                                            *)
LEMMA LeftAt ==
  ASSUME NEW q \in RequestStates, NEW n \in Nat, n = Cardinality(q.todo)
  PROVE  /\ StatementsLeft(q) \in Nat
         /\ q.at = "idle" => StatementsLeft(q) = 0
         /\ q.at \in {"record", "issue", "revoke"} => StatementsLeft(q) = 1
         /\ q.at = "findCheckin" => StatementsLeft(q) = 2
         /\ q.at = "lock" => StatementsLeft(q) = 3
         /\ q.at = "nextCertificate" => StatementsLeft(q) = 4 * n + 1
         /\ q.at = "insertCertificate" => StatementsLeft(q) = 4 * n + 2
         /\ q.at = "countAttendance" => StatementsLeft(q) = 4 * n + 3
         /\ q.at = "readEligibility" => StatementsLeft(q) = 4 * n + 4
  BY DEF StatementsLeft, RequestStates, Steps, CheckinSteps, GenerateSteps

LEMMA ContinueIsProgress ==
  ASSUME IsFiniteSet(Pairs), TypeOK, TypeOK', NEW p \in Requests, Continue(p)
  PROVE  StatementsLeft(req'[p]) < StatementsLeft(req[p])
  <1> DEFINE n == Cardinality(req[p].todo)
             m == Cardinality(req'[p].todo)
             before == req[p]
             after == req'[p]
  <1>1. n \in Nat /\ before \in RequestStates
    BY TodoIsFinite DEF TypeOK
  <1>2. m \in Nat /\ after \in RequestStates
    <2>1. after \in RequestStates
      BY DEF TypeOK
    <2>2. IsFiniteSet(after.todo)
      BY <2>1, FS_Subset DEF RequestStates
    <2> QED
      BY <2>1, <2>2, FS_CardinalityType
  <1>3. Respond(p) => after = Idle
    BY DEF Respond, TypeOK
  <1>4. \A step : Goto(p, step) => after.at = step /\ after.todo = before.todo
    BY <1>1 DEF Goto, TypeOK, RequestStates
  <1>5. CASE Lock(p)
    <2>1. before.at = "lock" /\ after.at = "findCheckin"
      BY <1>4, <1>5 DEF Lock
    <2> QED
      BY <1>1, <1>2, <2>1, LeftAt
  <1>6. CASE FindCheckin(p)
    <2>1. before.at = "findCheckin" /\ after.at \in {"idle", "record"}
      BY <1>3, <1>4, <1>6 DEF FindCheckin, Idle
    <2> QED
      BY <1>1, <1>2, <2>1, LeftAt
  <1>7. CASE Record(p) \/ UpdateIssued(p) \/ UpdateRevoked(p)
    <2>1. before.at \in {"record", "issue", "revoke"} /\ after.at = "idle"
      BY <1>3, <1>7 DEF Record, UpdateIssued, UpdateRevoked, SetCertificate, Idle
    <2> QED
      BY <1>1, <1>2, <2>1, LeftAt
  <1>8. CASE NextCertificate(p)
    <2>1. before.at = "nextCertificate"
      BY <1>8 DEF NextCertificate
    <2>2. CASE Respond(p)
      <3>1. after.at = "idle"
        BY <1>3, <2>2 DEF Idle
      <3> QED
        BY <1>1, <1>2, <2>1, <3>1, LeftAt
    <2>3. CASE ~Respond(p)
      <3>1. PICK pair \in before.todo :
               req' = [req EXCEPT ![p] =
                          IF certificates[pair[1]][pair[2]] # "NONE"
                          THEN [@ EXCEPT !.todo = before.todo \ {pair}]
                          ELSE [@ EXCEPT !.todo = before.todo \ {pair}, !.at = "readEligibility",
                                         !.registration = pair[1], !.type = pair[2]]]
        BY <1>8, <2>3 DEF NextCertificate
      <3>2. /\ after.todo = before.todo \ {pair}
            /\ after.at \in {"nextCertificate", "readEligibility"}
        BY <1>1, <2>1, <3>1 DEF TypeOK, RequestStates
      <3>3. IsFiniteSet(before.todo)
        BY TodoIsFinite
      <3>4. Cardinality(before.todo \ {pair}) = Cardinality(before.todo) - 1
        BY <3>1, <3>3, FS_RemoveElement
      <3>5. m = n - 1
        BY <3>2, <3>4
      <3>6. StatementsLeft(before) = 4 * n + 1
        BY <1>1, <2>1, LeftAt
      <3>7. StatementsLeft(after) \in {4 * m + 1, 4 * m + 4}
        BY <1>2, <3>2, LeftAt
      <3> HIDE DEF n, m
      <3> QED
        BY <1>1, <1>2, <3>5, <3>6, <3>7
    <2> QED
      BY <2>2, <2>3
  <1>9. CASE ReadEligibility(p)
    <2>1. /\ before.at = "readEligibility" /\ after.todo = before.todo
          /\ after.at \in {"nextCertificate", "countAttendance", "insertCertificate"}
      BY <1>4, <1>9 DEF ReadEligibility
    <2> QED
      BY <1>1, <1>2, <2>1, LeftAt
  <1>10. CASE CountAttendance(p)
    <2>1. /\ before.at = "countAttendance" /\ after.todo = before.todo
          /\ after.at \in {"nextCertificate", "insertCertificate"}
      BY <1>4, <1>10 DEF CountAttendance
    <2> QED
      BY <1>1, <1>2, <2>1, LeftAt
  <1>11. CASE InsertCertificate(p)
    <2>1. /\ before.at = "insertCertificate"
          /\ after.at = "idle" \/ (after.at = "nextCertificate" /\ after.todo = before.todo)
      BY <1>3, <1>4, <1>11 DEF InsertCertificate, Idle
    <2> QED
      BY <1>1, <1>2, <2>1, LeftAt
  <1> QED
    BY <1>5, <1>6, <1>7, <1>8, <1>9, <1>10, <1>11 DEF Continue

LEMMA NothingIsAdded ==
  ASSUME IsFiniteSet(Pairs), TypeOK, TypeOK', [Next]_vars, NEW p \in Requests, req[p] # Idle
  PROVE  StatementsLeft(req'[p]) <= StatementsLeft(req[p])
  <1> DEFINE n == Cardinality(req[p].todo)
  <1>1. n \in Nat /\ req[p] \in RequestStates
    BY TodoIsFinite DEF TypeOK
  <1>2. StatementsLeft(req[p]) \in Nat
    BY <1>1, LeftAt
  <1>3. CASE UNCHANGED req[p]
    BY <1>2, <1>3
  <1>4. CASE ~UNCHANGED req[p]
    <2>1. PICK q \in Requests : Begin(q) \/ Continue(q) \/ Abort(q)
      BY <1>4 DEF Next, vars, Confirm, Refund, SetStatus
    <2>2. q = p
      BY <1>4, <2>1 DEF Begin, Continue, Abort, Scan, Generate, Issue, Revoke, Lock, FindCheckin,
                  Record, NextCertificate, ReadEligibility, CountAttendance, InsertCertificate,
                  UpdateIssued, UpdateRevoked, SetCertificate, Goto, Respond, TypeOK
    <2>3. ~Begin(p)
      BY DEF Begin, Scan, Generate, Issue, Revoke
    <2>4. CASE Abort(p)
      <3>1. req'[p] = Idle
        BY <2>4 DEF Abort, Respond, TypeOK
      <3>2. StatementsLeft(Idle) = 0
        BY DEF StatementsLeft, Idle
      <3> QED
        BY <1>2, <3>1, <3>2
    <2>5. CASE Continue(p)
      <3>1. StatementsLeft(req'[p]) < StatementsLeft(req[p])
        BY <2>5, ContinueIsProgress
      <3>2. Cardinality(req'[p].todo) \in Nat /\ req'[p] \in RequestStates
        <4>1. req'[p] \in RequestStates
          BY DEF TypeOK
        <4> QED
          BY <4>1, FS_Subset, FS_CardinalityType DEF RequestStates
      <3>3. StatementsLeft(req'[p]) \in Nat
        BY <3>2, LeftAt
      <3> QED
        BY <1>2, <3>1, <3>3
    <2> QED
      BY <2>1, <2>2, <2>3, <2>4, <2>5
  <1> QED
    BY <1>3, <1>4

(* Each statement of a request brings it nearer to its answer, and what    *)
(* others do never puts it further away, whatever the number of            *)
(* registrations and types, as long as they can be counted.                *)
THEOREM EveryStatementIsProgress ==
  ASSUME IsFiniteSet(Pairs)
  PROVE  Spec => StatementsAreProgress
  <1> DEFINE A == \A p \in Requests :
                     /\ Continue(p) => StatementsLeft(req'[p]) < StatementsLeft(req[p])
                     /\ req[p] # Idle => StatementsLeft(req'[p]) <= StatementsLeft(req[p])
  <1>1. IInv /\ IInv' /\ [Next]_vars => [A]_vars
    BY ContinueIsProgress, NothingIsAdded DEF IInv
  <1>2. [][A]_vars => StatementsAreProgress
    BY PTL DEF StatementsAreProgress
  <1> QED
    BY <1>1, <1>2, Invariance, PTL DEF Spec
=============================================================================
