-------------------------- MODULE Registrations_proofs --------------------------
(***************************************************************************)
(* Proofs about Registrations, for any conferences, types, capacities,     *)
(* users and any finite number of requests and import jobs.                *)
(***************************************************************************)
EXTENDS Registrations, FiniteSetTheorems, TLAPS

-----------------------------------------------------------------------------
(* Typing: the ways in which a step changes the processes ...              *)

LEMMA IdleType == Idle \in ProcessStates
  <1>1. 0 \in 0 .. MaxAttempts - 1
    BY RegistrationsAssumption, SMT
  <1> QED
    BY <1>1 DEF Idle, ProcessStates, Steps

LEMMA RespondType ==
  ASSUME TypeOK, NEW p \in Processes, Respond(p)
  PROVE  proc' \in [Processes -> ProcessStates]
  BY IdleType DEF TypeOK, Respond

LEMMA GotoType ==
  ASSUME TypeOK, NEW p \in Processes, NEW step \in Steps, Goto(p, step)
  PROVE  proc' \in [Processes -> ProcessStates]
  BY DEF TypeOK, Goto, ProcessStates

LEMMA ArriveType ==
  ASSUME TypeOK, NEW p \in Processes, NEW step \in Steps, NEW u \in Users, NEW t \in Types,
         Arrive(p, step, u, t)
  PROVE  proc' \in [Processes -> ProcessStates]
  <1>1. [Idle EXCEPT !.at = step, !.user = u, !.type = t] \in ProcessStates
    BY IdleType DEF Idle, ProcessStates
  <1> QED
    BY <1>1 DEF TypeOK, Arrive

(* ... and the rows.                                                       *)

LEMMA RowType ==
  ASSUME TypeOK, NEW row \in Rows
  PROVE  /\ registrations \cup {row} \subseteq Rows
         /\ IsFiniteSet(registrations \cup {row})
         /\ \A old : (registrations \ {old}) \cup {row} \subseteq Rows
         /\ \A old : IsFiniteSet((registrations \ {old}) \cup {row})
  <1>1. IsFiniteSet(registrations \cup {row})
    BY FS_AddElement DEF TypeOK
  <1>2. ASSUME NEW old PROVE IsFiniteSet((registrations \ {old}) \cup {row})
    <2>1. IsFiniteSet(registrations \ {old})
      BY FS_RemoveElement DEF TypeOK
    <2> QED
      BY <2>1, FS_AddElement
  <1> QED
    BY <1>1, <1>2 DEF TypeOK

(* Who is about to insert is somebody, who registers for something.        *)
Inserting == {"insert", "importInsert"}
UnderWay ==
    \A p \in Processes :
        proc[p].at # "idle" => proc[p].user \in Users /\ proc[p].type \in Types

LEMMA NewRowType ==
  ASSUME TypeOK, UnderWay, NEW p \in Processes, proc[p].at # "idle"
  PROVE  NewRow(p) \in Rows
  BY DEF TypeOK, UnderWay, ProcessStates, NewRow, Rows

(* What every step of a process does to the processes: it moves only its   *)
(* own, and once that is under way it keeps its user and its type.         *)
LEMMA MovesOnlyItself ==
  ASSUME TypeOK, NEW p \in Processes, Step(p)
  PROVE  /\ \A other \in Processes : other # p => proc'[other] = proc[other]
         /\ \/ proc'[p] = Idle
            \/ /\ proc[p].at # "idle"
               /\ proc'[p].user = proc[p].user
               /\ proc'[p].type = proc[p].type
            \/ \E u \in Users, t \in Types, step \in Steps :
                   proc'[p] = [Idle EXCEPT !.at = step, !.user = u, !.type = t]
  <1> USE DEF TypeOK
  <1>1. ASSUME Respond(p)
        PROVE  /\ \A other \in Processes : other # p => proc'[other] = proc[other]
               /\ proc'[p] = Idle
    BY <1>1 DEF Respond
  <1>2. ASSUME NEW step \in Steps, Goto(p, step)
        PROVE  /\ \A other \in Processes : other # p => proc'[other] = proc[other]
               /\ proc'[p].user = proc[p].user
               /\ proc'[p].type = proc[p].type
    BY <1>2 DEF Goto, ProcessStates
  <1>3. ASSUME NEW u \in Users, NEW t \in Types, NEW step \in Steps, Arrive(p, step, u, t)
        PROVE  /\ \A other \in Processes : other # p => proc'[other] = proc[other]
               /\ proc'[p] = [Idle EXCEPT !.at = step, !.user = u, !.type = t]
    BY <1>3 DEF Arrive
  <1>4. ASSUME NEW u \in Users, NEW t \in Types, Register(p, u, t) \/ ImportRow(p, u, t)
        PROVE  \E step \in Steps : Arrive(p, step, u, t)
    BY <1>4 DEF Register, ImportRow, Steps
  <1>5. CASE \E u \in Users, t \in Types : Register(p, u, t) \/ ImportRow(p, u, t)
    <2>1. PICK u \in Users, t \in Types : Register(p, u, t) \/ ImportRow(p, u, t)
      BY <1>5
    <2>2. PICK step \in Steps : Arrive(p, step, u, t)
      BY <1>4, <2>1
    <2>3. /\ \A other \in Processes : other # p => proc'[other] = proc[other]
          /\ proc'[p] = [Idle EXCEPT !.at = step, !.user = u, !.type = t]
      BY <1>3, <2>2
    <2> QED
      BY <2>3
  <1>6. CASE Recheck(p)
    BY <1>1, <1>2, <1>6 DEF Recheck, Steps
  <1>7. CASE CountActive(p) \/ ImportActive(p)
    BY <1>1, <1>2, <1>7 DEF CountActive, ImportActive, Steps
  <1>8. CASE CountAll(p) \/ ImportCount(p)
    <2>1. PICK step, n : proc' = [proc EXCEPT ![p].at = step, ![p].sequence = n]
      BY <1>8 DEF CountAll, ImportCount
    <2>2. proc[p].at # "idle"
      BY <1>8 DEF CountAll, ImportCount
    <2> QED
      BY <2>1, <2>2 DEF ProcessStates
  <1>9. CASE Insert(p) \/ Abort(p)
    BY <1>1, <1>9 DEF Insert, Abort
  <1>10. CASE NumberConflict(p) \/ ImportConflict(p)
    <2>1. CASE proc[p].attempt + 1 < MaxAttempts
      <3>1. PICK step, n, k :
                proc' = [proc EXCEPT ![p].at = step, ![p].sequence = n, ![p].attempt = k]
        <4>1. CASE NumberConflict(p)
          <5>1. proc' = [proc EXCEPT ![p].at = "recheck", ![p].sequence = proc[p].sequence,
                                     ![p].attempt = proc[p].attempt + 1]
            BY <2>1, <4>1 DEF NumberConflict, ProcessStates
          <5> QED
            BY <5>1
        <4>2. CASE ImportConflict(p)
          <5>1. proc' = [proc EXCEPT ![p].at = "importInsert",
                                     ![p].sequence = proc[p].sequence + 1,
                                     ![p].attempt = proc[p].attempt + 1]
            BY <2>1, <4>2 DEF ImportConflict, ProcessStates
          <5> QED
            BY <5>1
        <4> QED
          BY <1>10, <4>1, <4>2
      <3>2. proc[p].at # "idle"
        BY <1>10 DEF NumberConflict, ImportConflict
      <3>3. proc'[p].user = proc[p].user /\ proc'[p].type = proc[p].type
        BY <1>1, <3>1 DEF ProcessStates
      <3>4. \A other \in Processes : other # p => proc'[other] = proc[other]
        BY <1>1, <3>1
      <3> QED
        BY <3>2, <3>3, <3>4
    <2>2. CASE ~(proc[p].attempt + 1 < MaxAttempts)
      BY <1>1, <1>10, <2>2 DEF NumberConflict, ImportConflict
    <2> QED
      BY <2>1, <2>2
  <1> QED
    BY <1>5, <1>6, <1>7, <1>8, <1>9, <1>10 DEF Step, Continue

LEMMA UnderWayStep ==
  ASSUME TypeOK, UnderWay, [Next]_vars
  PROVE  UnderWay'
  <1>1. ASSUME NEW p \in Processes, Step(p)
        PROVE  UnderWay'
    <2>1. ASSUME NEW other \in Processes, other # p
          PROVE  proc'[other].at # "idle" => /\ proc'[other].user \in Users
                                            /\ proc'[other].type \in Types
      BY <1>1, <2>1, MovesOnlyItself DEF UnderWay
    <2> DEFINE Somebody == proc'[p].at # "idle" => /\ proc'[p].user \in Users
                                                  /\ proc'[p].type \in Types
    <2>2. proc'[p] = Idle => Somebody
      BY DEF Idle
    <2>3. /\ proc[p].at # "idle"
          /\ proc'[p].user = proc[p].user
          /\ proc'[p].type = proc[p].type
          => Somebody
      BY DEF UnderWay
    <2>4. ASSUME NEW u \in Users, NEW t \in Types, NEW step \in Steps,
                 proc'[p] = [Idle EXCEPT !.at = step, !.user = u, !.type = t]
          PROVE  Somebody
      BY <2>4 DEF Idle
    <2>5. \/ proc'[p] = Idle
          \/ /\ proc[p].at # "idle"
             /\ proc'[p].user = proc[p].user
             /\ proc'[p].type = proc[p].type
          \/ \E u \in Users, t \in Types, step \in Steps :
                 proc'[p] = [Idle EXCEPT !.at = step, !.user = u, !.type = t]
      BY <1>1, MovesOnlyItself
    <2> HIDE DEF Somebody
    <2>6. Somebody
      BY <2>2, <2>3, <2>4, <2>5
    <2> QED
      BY <2>1, <2>6 DEF UnderWay, Somebody
  <1>2. ASSUME UNCHANGED proc
        PROVE  UnderWay'
    BY <1>2 DEF UnderWay
  <1> QED
    BY <1>1, <1>2 DEF Next, Refund, Readmit, SetStatus, vars

LEMMA TypeStep ==
  ASSUME TypeOK, UnderWay, [Next]_vars
  PROVE  TypeOK'
  <1>1. ASSUME NEW p \in Processes, Step(p)
        PROVE  TypeOK'
    <2>1. CASE \E u \in Users, t \in Types : Register(p, u, t) \/ ImportRow(p, u, t)
      BY <2>1, ArriveType DEF Register, ImportRow, TypeOK, Steps
    <2>2. CASE Recheck(p)
      BY <2>2, GotoType, RespondType DEF Recheck, TypeOK, Steps
    <2>3. CASE CountActive(p) \/ ImportActive(p)
      BY <2>3, GotoType, RespondType DEF CountActive, ImportActive, TypeOK, Steps
    <2>4. CASE CountAll(p) \/ ImportCount(p)
      <3>1. \A c : OfConference(c) \subseteq registrations
        BY DEF OfConference
      <3>2. \A c : Cardinality(OfConference(c)) \in Nat
        BY <3>1, FS_Subset, FS_CardinalityType DEF TypeOK
      <3>3. \A c : /\ Cardinality(OfConference(c)) + proc[p].attempt + 1 \in Nat
                   /\ Cardinality(OfConference(c)) + 1 \in Nat
        BY <3>2, RegistrationsAssumption DEF TypeOK, ProcessStates
      <3> QED
        BY <2>4, <3>3 DEF CountAll, ImportCount, TypeOK, ProcessStates, Steps
    <2>5. CASE Insert(p)
      BY <2>5, NewRowType, RowType, RespondType DEF Insert, TypeOK
    <2>6. CASE NumberConflict(p) \/ ImportConflict(p)
      <3>1. CASE proc[p].attempt + 1 < MaxAttempts
        <4>1. proc[p].attempt + 1 \in 0 .. MaxAttempts - 1 /\ proc[p].sequence + 1 \in Nat
          BY <3>1, RegistrationsAssumption DEF TypeOK, ProcessStates
        <4> QED
          BY <2>6, <3>1, <4>1 DEF NumberConflict, ImportConflict, TypeOK, ProcessStates, Steps
      <3>2. CASE ~(proc[p].attempt + 1 < MaxAttempts)
        BY <2>6, <3>2, RespondType DEF NumberConflict, ImportConflict, TypeOK
      <3> QED
        BY <3>1, <3>2
    <2>7. CASE Abort(p)
      BY <2>7, RespondType DEF Abort, TypeOK
    <2> QED
      BY <1>1, <2>1, <2>2, <2>3, <2>4, <2>5, <2>6, <2>7 DEF Step, Continue
  <1>2. ASSUME NEW row \in registrations, Refund(row) \/ Readmit(row)
        PROVE  TypeOK'
    <2>1. \A status \in {"REFUNDED", "READMITTED"} : [row EXCEPT !.status = status] \in Rows
      BY DEF TypeOK, Rows
    <2> QED
      <3>1. PICK status \in {"REFUNDED", "READMITTED"} : SetStatus(row, status)
        BY <1>2 DEF Refund, Readmit
      <3>2. [row EXCEPT !.status = status] \in Rows
        BY <2>1
      <3> QED
        BY <3>1, <3>2, RowType DEF SetStatus, TypeOK
  <1> QED
    BY <1>1, <1>2 DEF Next, vars, TypeOK

-----------------------------------------------------------------------------
(* What a step does to the table: an insertion adds one row with an unused *)
(* number, a change of status replaces a row by one of the same number.    *)

LEMMA TableStep ==
  ASSUME TypeOK, [Next]_vars
  PROVE  \/ registrations' = registrations
         \/ \E p \in Processes : Insert(p)
         \/ \E row \in registrations : \E status \in {"REFUNDED", "READMITTED"} :
                SetStatus(row, status)
  <1>1. ASSUME NEW p \in Processes, Step(p)
        PROVE  registrations' = registrations \/ Insert(p)
    BY <1>1 DEF Step, Continue, Register, ImportRow, Recheck, CountActive, CountAll,
                NumberConflict, ImportActive, ImportCount, ImportConflict, Abort
  <1>2. ASSUME NEW row \in registrations, Refund(row) \/ Readmit(row)
        PROVE  \E status \in {"REFUNDED", "READMITTED"} : SetStatus(row, status)
    BY <1>2 DEF Refund, Readmit
  <1> QED
    BY <1>1, <1>2 DEF Next, vars

LEMMA NumbersStep ==
  ASSUME TypeOK, NumbersIdentify, [Next]_vars
  PROVE  NumbersIdentify'
  <1>1. CASE registrations' = registrations
    BY <1>1 DEF NumbersIdentify
  <1>2. ASSUME NEW p \in Processes, Insert(p)
        PROVE  NumbersIdentify'
    BY <1>2 DEF NumbersIdentify, Insert, Used, NewRow
  <1>3. ASSUME NEW row \in registrations, NEW status, SetStatus(row, status)
        PROVE  NumbersIdentify'
    <2>1. [row EXCEPT !.status = status].number = row.number
      BY DEF TypeOK, Rows
    <2> QED
      BY <1>3, <2>1 DEF NumbersIdentify, SetStatus
  <1> QED
    BY <1>1, <1>2, <1>3, TableStep

-----------------------------------------------------------------------------
(* Overselling: what has been admitted and what may yet be, together.      *)

Claimed(t) == Cardinality(Admitted(t)) + Cardinality(Passed(t))

LEMMA ClaimedIsFinite ==
  ASSUME TypeOK, NEW t
  PROVE  /\ IsFiniteSet(Admitted(t)) /\ Cardinality(Admitted(t)) \in Nat
         /\ IsFiniteSet(Active(t)) /\ Cardinality(Active(t)) \in Nat
         /\ Cardinality(Admitted(t)) <= Cardinality(Active(t))
         /\ IsFiniteSet(Passed(t)) /\ Cardinality(Passed(t)) \in Nat
         /\ Cardinality(Processes) \in Nat
         /\ Cardinality(Passed(t)) <= Cardinality(Processes)
  <1>1. Active(t) \in SUBSET registrations /\ IsFiniteSet(registrations)
    BY DEF Active, TypeOK
  <1>2. IsFiniteSet(Active(t))
    BY <1>1, FS_Subset
  <1>3. Admitted(t) \in SUBSET Active(t)
    BY DEF Admitted
  <1>4. IsFiniteSet(Admitted(t)) /\ Cardinality(Admitted(t)) <= Cardinality(Active(t))
    BY <1>2, <1>3, FS_Subset
  <1>5. Passed(t) \in SUBSET Processes /\ IsFiniteSet(Processes)
    BY RegistrationsAssumption DEF Passed
  <1>6. IsFiniteSet(Passed(t)) /\ Cardinality(Passed(t)) <= Cardinality(Processes)
    BY <1>5, FS_Subset
  <1> QED
    BY <1>2, <1>4, <1>5, <1>6, FS_CardinalityType

LEMMA ClaimedShrinks ==
  ASSUME TypeOK, NEW t, Admitted(t)' \in SUBSET Admitted(t), Passed(t)' \in SUBSET Passed(t)
  PROVE  Claimed(t)' <= Claimed(t)
  <1>1. /\ IsFiniteSet(Admitted(t)') /\ Cardinality(Admitted(t)') <= Cardinality(Admitted(t))
        /\ IsFiniteSet(Passed(t)') /\ Cardinality(Passed(t)') <= Cardinality(Passed(t))
    BY ClaimedIsFinite, FS_Subset
  <1>2. Cardinality(Admitted(t)') \in Nat /\ Cardinality(Passed(t)') \in Nat
    BY <1>1, FS_CardinalityType
  <1> QED
    BY <1>1, <1>2, ClaimedIsFinite DEF Claimed

(* A process moves on without passing a count.                             *)
Past == {"countAll", "insert", "importCount", "importInsert"}

LEMMA PassedShrinks ==
  ASSUME TypeOK, NEW p \in Processes, NEW t,
         \A other \in Processes : other # p => proc'[other] = proc[other],
         \/ proc'[p].at \notin Past
         \/ proc'[p].type = proc[p].type /\ proc[p].at \in Past
         \/ proc'[p].type # t
  PROVE  Passed(t)' \in SUBSET Passed(t)
  BY DEF Passed, Past

LEMMA OversellStep ==
  ASSUME TypeOK, OversellIsBounded, TypeOK', [Next]_vars
  PROVE  OversellIsBounded'
  <1> SUFFICES ASSUME NEW t \in Types, Capacity[t] # Unlimited
               PROVE  (Claimed(t) < Capacity[t] + Cardinality(Processes))'
    BY DEF OversellIsBounded, Claimed
  <1>1. Claimed(t) < Capacity[t] + Cardinality(Processes)
    BY DEF OversellIsBounded, Claimed
  <1>2. /\ Capacity[t] \in Nat /\ Cardinality(Processes) \in Nat
        /\ Claimed(t) \in Nat /\ Claimed(t)' \in Nat
    <2>1. Cardinality(Admitted(t)') \in Nat /\ Cardinality(Passed(t)') \in Nat
      <3>1. Admitted(t)' \in SUBSET registrations' /\ IsFiniteSet(registrations')
        BY DEF Admitted, Active, TypeOK
      <3>2. Passed(t)' \in SUBSET Processes
        BY DEF Passed
      <3> QED
        BY <3>1, <3>2, RegistrationsAssumption, FS_Subset, FS_CardinalityType
    <2> QED
      BY <2>1, ClaimedIsFinite, RegistrationsAssumption DEF Claimed
  <1>3. ASSUME Admitted(t)' \in SUBSET Admitted(t), Passed(t)' \in SUBSET Passed(t)
        PROVE  (Claimed(t) < Capacity[t] + Cardinality(Processes))'
    BY <1>1, <1>2, <1>3, ClaimedShrinks
  <1>4. ASSUME UNCHANGED registrations
        PROVE  Admitted(t)' \in SUBSET Admitted(t)
    BY <1>4 DEF Admitted, Active
  <1>5. ASSUME NEW p \in Processes, CountActive(p) \/ ImportActive(p)
        PROVE  (Claimed(t) < Capacity[t] + Cardinality(Processes))'
    <2>1. CASE proc[p].type = t /\ ~Full(t)
      <3>1. Cardinality(Active(t)) < Capacity[t]
        BY <1>2, <2>1, ClaimedIsFinite DEF Full
      <3>2. Cardinality(Admitted(t)') = Cardinality(Admitted(t))
        BY <1>5 DEF CountActive, ImportActive, Admitted, Active
      <3>3. Passed(t)' \in SUBSET Processes
        BY DEF Passed
      <3>4. Cardinality(Passed(t)') \in Nat /\ Cardinality(Passed(t)') <= Cardinality(Processes)
        BY <3>3, RegistrationsAssumption, FS_Subset, FS_CardinalityType
      <3> QED
        BY <1>2, <3>1, <3>2, <3>4, ClaimedIsFinite DEF Claimed
    <2>2. CASE ~(proc[p].type = t /\ ~Full(t))
      <3>1. Passed(t)' \in SUBSET Passed(t)
        BY <1>5, <2>2 DEF CountActive, ImportActive, Goto, Respond, Passed, TypeOK,
                          ProcessStates, Idle
      <3> QED
        BY <1>3, <1>4, <1>5, <3>1 DEF CountActive, ImportActive
    <2> QED
      BY <2>1, <2>2
  <1>6. ASSUME NEW p \in Processes, Insert(p)
        PROVE  (Claimed(t) < Capacity[t] + Cardinality(Processes))'
    <2>1. CASE proc[p].type = t
      <3>1. Admitted(t)' = Admitted(t) \cup {NewRow(p)}
        BY <1>6, <2>1 DEF Insert, Admitted, Active, NewRow
      <3>2. NewRow(p) \notin Admitted(t)
        BY <1>6 DEF Insert, Used, NewRow, Admitted, Active
      <3>3. Cardinality(Admitted(t)') = Cardinality(Admitted(t)) + 1
        BY <3>1, <3>2, ClaimedIsFinite, FS_AddElement
      <3>4. Passed(t)' = Passed(t) \ {p} /\ p \in Passed(t)
        BY <1>6, <2>1 DEF Insert, Respond, Passed, TypeOK, ProcessStates, Idle
      <3>5. Cardinality(Passed(t)') = Cardinality(Passed(t)) - 1
        BY <3>4, ClaimedIsFinite, FS_RemoveElement
      <3> QED
        BY <1>1, <1>2, <3>3, <3>5, ClaimedIsFinite DEF Claimed
    <2>2. CASE proc[p].type # t
      <3>1. Admitted(t)' \in SUBSET Admitted(t)
        BY <1>6, <2>2 DEF Insert, Admitted, Active, NewRow
      <3>2. Passed(t)' \in SUBSET Passed(t)
        BY <1>6, <2>2 DEF Insert, Respond, Passed, TypeOK, ProcessStates, Idle
      <3> QED
        BY <1>3, <3>1, <3>2
    <2> QED
      BY <2>1, <2>2
  <1>7. ASSUME NEW p \in Processes, Step(p), ~CountActive(p), ~ImportActive(p), ~Insert(p)
        PROVE  (Claimed(t) < Capacity[t] + Cardinality(Processes))'
    <2>1. UNCHANGED registrations
      BY <1>7 DEF Step, Continue, Register, ImportRow, Recheck, CountAll, NumberConflict, ImportCount,
                  ImportConflict, Abort
    <2>2. CASE Abort(p)
      BY <1>3, <1>4, <2>1, <2>2 DEF Abort, Respond, Passed, TypeOK, ProcessStates, Idle
    <2>3. CASE \E u \in Users, s \in Types : Register(p, u, s) \/ ImportRow(p, u, s)
      <3>1. PICK u \in Users, s \in Types : Register(p, u, s) \/ ImportRow(p, u, s)
        BY <2>3
      <3>2. PICK step : Arrive(p, step, u, s) /\ (step \in Past => s # t)
        BY <3>1 DEF Register, ImportRow, Past
      <3>3. Passed(t)' \in SUBSET Passed(t)
        BY <3>2 DEF Arrive, Passed, Past, TypeOK, ProcessStates, Idle
      <3> QED
        BY <1>3, <1>4, <2>1, <3>3
    <2>4. CASE Recheck(p)
      <3>1. Passed(t)' \in SUBSET Passed(t)
        BY <2>4 DEF Recheck, Goto, Respond, Passed, TypeOK, ProcessStates, Idle
      <3> QED
        BY <1>3, <1>4, <2>1, <3>1
    <2>5. CASE CountAll(p) \/ ImportCount(p)
      <3>1. PICK step, n : proc' = [proc EXCEPT ![p].at = step, ![p].sequence = n]
        BY <2>5 DEF CountAll, ImportCount
      <3>2. proc[p].at \in Past
        BY <2>5 DEF CountAll, ImportCount, Past
      <3>3. Passed(t)' \in SUBSET Passed(t)
        BY <3>1, <3>2 DEF Passed, Past, TypeOK, ProcessStates
      <3> QED
        BY <1>3, <1>4, <2>1, <3>3
    <2>6. CASE NumberConflict(p) \/ ImportConflict(p)
      <3>1. proc[p].at \in Past
        BY <2>6 DEF NumberConflict, ImportConflict, Past
      <3>2. CASE Respond(p)
        <4>1. Passed(t)' \in SUBSET Passed(t)
          BY <3>2 DEF Respond, Passed, TypeOK, ProcessStates, Idle
        <4> QED
          BY <1>3, <1>4, <2>1, <4>1
      <3>3. CASE ~Respond(p)
        <4>1. PICK row \in ProcessStates :
                 proc' = [proc EXCEPT ![p] = row] /\ row.type = proc[p].type
          <5>1. CASE NumberConflict(p)
            <6>1. proc' = [proc EXCEPT ![p].at = "recheck", ![p].attempt = @ + 1]
              BY <3>3, <5>1 DEF NumberConflict
            <6>2. proc'[p].type = proc[p].type /\ proc' = [proc EXCEPT ![p] = proc'[p]]
              BY <6>1 DEF TypeOK, ProcessStates
            <6>3. proc'[p] \in ProcessStates
              BY DEF TypeOK
            <6> QED
              BY <6>2, <6>3
          <5>2. CASE ImportConflict(p)
            <6>1. proc' = [proc EXCEPT ![p].sequence = @ + 1, ![p].attempt = @ + 1]
              BY <3>3, <5>2 DEF ImportConflict
            <6>2. proc'[p].type = proc[p].type /\ proc' = [proc EXCEPT ![p] = proc'[p]]
              BY <6>1 DEF TypeOK, ProcessStates
            <6>3. proc'[p] \in ProcessStates
              BY DEF TypeOK
            <6> QED
              BY <6>2, <6>3
          <5> QED
            BY <2>6, <5>1, <5>2
        <4>2. Passed(t)' \in SUBSET Passed(t)
          BY <3>1, <4>1 DEF Passed, Past, TypeOK
        <4> QED
          BY <1>3, <1>4, <2>1, <4>2
      <3> QED
        BY <3>2, <3>3
    <2> QED
      BY <1>7, <2>2, <2>3, <2>4, <2>5, <2>6 DEF Step, Continue
  <1>8. ASSUME NEW row \in registrations, Refund(row) \/ Readmit(row)
        PROVE  (Claimed(t) < Capacity[t] + Cardinality(Processes))'
    <2>1. Admitted(t)' \in SUBSET Admitted(t)
      BY <1>8 DEF Refund, Readmit, SetStatus, Admitted, Active, TypeOK, Rows
    <2>2. Passed(t)' \in SUBSET Passed(t)
      BY <1>8 DEF Refund, Readmit, SetStatus, Passed
    <2> QED
      BY <1>3, <2>1, <2>2
  <1>9. CASE UNCHANGED vars
    BY <1>3, <1>9 DEF vars, Admitted, Active, Passed
  <1> QED
    BY <1>5, <1>6, <1>7, <1>8, <1>9 DEF Next

-----------------------------------------------------------------------------
(* Where there is one conference, numbers stay near the number of rows.    *)

NumbersNear ==
    /\ \A row \in registrations : row.number <= Cardinality(registrations) + MaxAttempts - 1
    /\ \A p \in Processes :
          proc[p].at \in Inserting =>
              proc[p].sequence <= Cardinality(registrations) + proc[p].attempt + 1

LEMMA RowsAccumulate ==
  ASSUME TypeOK, NumbersIdentify, [Next]_vars
  PROVE  /\ Cardinality(registrations) \in Nat
         /\ Cardinality(registrations') \in Nat
         /\ Cardinality(registrations') >= Cardinality(registrations)
         /\ (\E p \in Processes : Insert(p)) =>
                Cardinality(registrations') = Cardinality(registrations) + 1
  <1>1. Cardinality(registrations) \in Nat
    BY FS_CardinalityType DEF TypeOK
  <1>2. ASSUME NEW p \in Processes, Insert(p)
        PROVE  Cardinality(registrations') = Cardinality(registrations) + 1
    <2>1. NewRow(p) \notin registrations
      BY <1>2 DEF Insert, Used, NewRow
    <2> QED
      BY <1>2, <2>1, FS_AddElement DEF Insert, TypeOK
  <1>3. ASSUME NEW row \in registrations, NEW status, SetStatus(row, status)
        PROVE  Cardinality(registrations') = Cardinality(registrations)
    <2> DEFINE new == [row EXCEPT !.status = status]
    <2>1. new \notin registrations \ {row}
      <3>1. new.number = row.number
        BY DEF TypeOK, Rows
      <3> QED
        BY <3>1 DEF NumbersIdentify
    <2>2. /\ IsFiniteSet(registrations \ {row})
          /\ Cardinality(registrations \ {row}) = Cardinality(registrations) - 1
      BY FS_RemoveElement DEF TypeOK
    <2>3. registrations' = (registrations \ {row}) \cup {new}
      BY <1>3 DEF SetStatus
    <2>4. Cardinality(registrations') = Cardinality(registrations) - 1 + 1
      BY <2>1, <2>2, <2>3, FS_AddElement
    <2> QED
      BY <1>1, <2>4
  <1> QED
    BY <1>1, <1>2, <1>3, TableStep

LEMMA NearStep ==
  ASSUME TypeOK, UnderWay, NumbersIdentify, NumbersNear, TypeOK', [Next]_vars,
         \A c \in Conferences : OfConference(c) = registrations
  PROVE  NumbersNear'
  <1> DEFINE N == Cardinality(registrations)
             n == Cardinality(registrations')
  <1>1. N \in Nat /\ n \in Nat /\ n >= N
    BY RowsAccumulate
  <1>2. MaxAttempts \in Nat \ {0}
    BY RegistrationsAssumption
  <1>3. \A row \in registrations : row.number \in Nat
    BY DEF TypeOK, Rows
  <1>4. \A p \in Processes : /\ proc[p].attempt \in 0 .. MaxAttempts - 1
                             /\ proc[p].sequence \in Nat
    BY DEF TypeOK, ProcessStates
  <1> HIDE DEF N, n
  <1>5. \A row \in registrations' : row.number <= n + MaxAttempts - 1
    <2>1. \A row \in registrations : row.number <= n + MaxAttempts - 1
      BY <1>1, <1>2, <1>3 DEF NumbersNear, N
    <2>2. ASSUME NEW p \in Processes, Insert(p)
          PROVE  NewRow(p).number <= n + MaxAttempts - 1
      <3>1. n = N + 1
        BY <2>2, RowsAccumulate DEF n, N
      <3>2. proc[p].sequence <= N + proc[p].attempt + 1
        BY <2>2 DEF NumbersNear, Insert, Inserting, N
      <3> QED
        BY <1>1, <1>2, <1>4, <3>1, <3>2 DEF NewRow
    <2>3. ASSUME NEW row \in registrations, NEW status
          PROVE  [row EXCEPT !.status = status].number = row.number
      BY DEF TypeOK, Rows
    <2>4. CASE \E p \in Processes : Insert(p)
      BY <2>1, <2>2, <2>4 DEF Insert
    <2>5. ASSUME NEW row \in registrations, NEW status, SetStatus(row, status)
          PROVE  \A other \in registrations' : other.number <= n + MaxAttempts - 1
      BY <2>1, <2>3, <2>5 DEF SetStatus
    <2> QED
      BY <2>1, <2>4, <2>5, TableStep
  <1>6. ASSUME NEW p \in Processes, proc'[p].at \in Inserting
        PROVE  proc'[p].sequence <= n + proc'[p].attempt + 1
    <2>1. CASE proc'[p] = proc[p]
      BY <1>1, <1>4, <1>6, <2>1 DEF NumbersNear, N
    <2>2. CASE proc'[p] # proc[p]
      <3>1. Step(p)
        <4>1. ASSUME NEW other \in Processes, Step(other)
              PROVE  other = p
          BY <2>2, <4>1, MovesOnlyItself
        <4>2. ~UNCHANGED proc
          BY <2>2
        <4> QED
          BY <4>1, <4>2 DEF Next, Refund, Readmit, SetStatus, vars
      <3>2. CASE CountAll(p) \/ ImportCount(p)
        <4>1. PICK c \in Conferences : c = ConferenceOfType(proc[p].type)
          BY <3>2, RegistrationsAssumption DEF CountAll, ImportCount, UnderWay, ConferenceOfType
        <4> QED
          BY <1>1, <1>4, <3>2, <4>1 DEF CountAll, ImportCount, TypeOK, ProcessStates, N
      <3>3. CASE NumberConflict(p)
        BY <1>6, <3>3 DEF NumberConflict, Respond, Idle, Inserting, TypeOK, ProcessStates
      <3>4. CASE ImportConflict(p)
        <4>1. proc[p].sequence <= N + proc[p].attempt + 1
          BY <3>4 DEF NumbersNear, ImportConflict, Inserting, N
        <4>2. CASE proc[p].attempt + 1 < MaxAttempts
          <5>1. /\ proc'[p].sequence = proc[p].sequence + 1
                /\ proc'[p].attempt = proc[p].attempt + 1
            BY <3>4, <4>2 DEF ImportConflict, TypeOK, ProcessStates
          <5> QED
            BY <1>1, <1>4, <4>1, <5>1
        <4>3. CASE ~(proc[p].attempt + 1 < MaxAttempts)
          BY <1>6, <3>4, <4>3 DEF ImportConflict, Respond, Idle, Inserting, TypeOK
        <4> QED
          BY <4>2, <4>3
      <3>5. CASE ~(CountAll(p) \/ ImportCount(p) \/ NumberConflict(p) \/ ImportConflict(p))
        <4>1. CASE Insert(p) \/ Abort(p) \/ Recheck(p) \/ CountActive(p) \/ ImportActive(p)
          BY <1>6, <4>1 DEF Insert, Abort, Recheck, CountActive, ImportActive, Goto, Respond,
                            Idle, Inserting, TypeOK, ProcessStates
        <4>2. CASE \E u \in Users, t \in Types : Register(p, u, t) \/ ImportRow(p, u, t)
          <5>1. PICK u \in Users, t \in Types : Register(p, u, t) \/ ImportRow(p, u, t)
            BY <4>2
          <5>2. PICK step \in {"recheck", "importCount", "importActive"} : Arrive(p, step, u, t)
            BY <5>1 DEF Register, ImportRow
          <5>3. proc'[p].at = step
            BY <5>2 DEF Arrive, Idle, TypeOK
          <5> QED
            BY <1>6, <5>3 DEF Inserting
        <4> QED
          BY <3>1, <3>5, <4>1, <4>2 DEF Step, Continue
      <3> QED
        BY <3>2, <3>3, <3>4, <3>5
    <2> QED
      BY <2>1, <2>2
  <1> QED
    BY <1>5, <1>6 DEF NumbersNear, n

-----------------------------------------------------------------------------
IInv == TypeOK /\ UnderWay /\ NumbersIdentify /\ OversellIsBounded

LEMMA Initial == Init => IInv
  <1> SUFFICES ASSUME Init PROVE IInv
    OBVIOUS
  <1>1. TypeOK
    BY IdleType, FS_EmptySet DEF Init, TypeOK
  <1>2. UnderWay /\ NumbersIdentify
    BY DEF Init, Idle, UnderWay, NumbersIdentify
  <1>3. ASSUME NEW t \in Types, Capacity[t] # Unlimited
        PROVE  Claimed(t) < Capacity[t] + Cardinality(Processes)
    <2>1. Admitted(t) = {} /\ Passed(t) = {}
      BY DEF Init, Idle, Admitted, Active, Passed
    <2>2. Cardinality(Admitted(t)) = 0 /\ Cardinality(Passed(t)) = 0
      BY <2>1, FS_EmptySet
    <2>3. Cardinality(Processes) \in Nat /\ Cardinality(Processes) # 0
      BY RegistrationsAssumption, FS_EmptySet, FS_CardinalityType
    <2>4. Capacity[t] \in Nat
      BY <1>3, RegistrationsAssumption
    <2> QED
      BY <2>2, <2>3, <2>4 DEF Claimed
  <1> QED
    BY <1>1, <1>2, <1>3 DEF IInv, OversellIsBounded, Claimed

LEMMA Inductive == IInv /\ [Next]_vars => IInv'
  BY UnderWayStep, TypeStep, NumbersStep, OversellStep DEF IInv

(* The inductive invariant of the registrations table.                     *)
THEOREM Invariance == Spec => []IInv
  BY Initial, Inductive, PTL DEF Spec

(* The table and the processes keep their types.                           *)
THEOREM TypeCorrect == Spec => []TypeOK
  <1>1. IInv => TypeOK
    BY DEF IInv
  <1> QED
    BY <1>1, Invariance, PTL

(* A registration number means one registration, whoever assigned it.      *)
THEOREM NumbersAreUnique == Spec => []NumbersIdentify
  <1>1. IInv => NumbersIdentify
    BY DEF IInv
  <1> QED
    BY <1>1, Invariance, PTL

(* A limited type is oversold by less than the number of processes that    *)
(* register at a time, readmitted registrations apart.                     *)
THEOREM OversellingIsBounded == Spec => []OversellIsBounded
  <1>1. IInv => OversellIsBounded
    BY DEF IInv
  <1> QED
    BY <1>1, Invariance, PTL

(* Where there is one conference, a registration that was refused a number *)
(* gets one when it is retried alone.                                      *)
THEOREM RetriesCanSucceed ==
  ASSUME \A c, d \in Conferences : c = d
  PROVE  Spec => []RetryCanSucceed
  <1> DEFINE Near == IInv /\ NumbersNear
  <1>1. TypeOK => \A c \in Conferences : OfConference(c) = registrations
    BY RegistrationsAssumption DEF TypeOK, Rows, OfConference, ConferenceOfType
  <1>2. Init => Near
    BY Initial DEF Init, Idle, Inserting, NumbersNear
  <1>3. Near /\ [Next]_vars => Near'
    BY <1>1, Inductive, NearStep DEF IInv
  <1>4. Near => RetryCanSucceed
    <2> SUFFICES ASSUME Near, NEW c \in Conferences
                 PROVE  \E attempt \in 0 .. MaxAttempts - 1 :
                            ~Used(Cardinality(OfConference(c)) + attempt + 1)
      BY DEF RetryCanSucceed
    <2>1. MaxAttempts - 1 \in 0 .. MaxAttempts - 1
      BY RegistrationsAssumption
    <2>2. Cardinality(registrations) \in Nat
      BY FS_CardinalityType DEF IInv, TypeOK
    <2>3. \A row \in registrations :
             row.number \in Nat /\ row.number <= Cardinality(registrations) + MaxAttempts - 1
      BY DEF IInv, TypeOK, Rows, NumbersNear
    <2>4. ~Used(Cardinality(registrations) + (MaxAttempts - 1) + 1)
      BY <2>2, <2>3, RegistrationsAssumption DEF Used
    <2> QED
      BY <1>1, <2>1, <2>4 DEF IInv
  <1> QED
    BY <1>2, <1>3, <1>4, PTL DEF Spec

-----------------------------------------------------------------------------
(* Where nothing is imported, duplicates: registrations of a user in a     *)
(* category and requests that are about to add one, together.              *)
Counting == {"countActive", "countAll", "insert"}

NobodyImports == \A p \in Processes : proc[p].at \in Counting \cup {"idle", "recheck"}

Duplicates(u, k) == Cardinality(AdmittedOf(u, k)) + Cardinality(Rechecked(u, k))

LEMMA NobodyImportsStep ==
  ASSUME Workers = {}, TypeOK, NobodyImports, [Next]_vars
  PROVE  NobodyImports'
  <1>1. ASSUME NEW p \in Processes, Step(p)
        PROVE  proc'[p].at \in Counting \cup {"idle", "recheck"}
    <2>1. CASE \E u \in Users, t \in Types : Register(p, u, t) \/ ImportRow(p, u, t)
      BY <2>1 DEF Register, ImportRow, Arrive, TypeOK, Idle
    <2>2. CASE Recheck(p) \/ CountActive(p) \/ CountAll(p) \/ Insert(p) \/ NumberConflict(p)
               \/ Abort(p)
      BY <2>2 DEF Recheck, CountActive, CountAll, Insert, NumberConflict, Abort, Goto, Respond,
                  Idle, TypeOK, ProcessStates, Counting
    <2>3. ~(ImportActive(p) \/ ImportCount(p) \/ ImportConflict(p))
      BY DEF NobodyImports, Counting, ImportActive, ImportCount, ImportConflict
    <2> QED
      BY <1>1, <2>1, <2>2, <2>3 DEF Step, Continue
  <1>2. ASSUME NEW p \in Processes, Step(p)
        PROVE  NobodyImports'
    BY <1>1, <1>2, MovesOnlyItself DEF NobodyImports
  <1> QED
    BY <1>2 DEF Next, Refund, Readmit, SetStatus, vars, NobodyImports

LEMMA DuplicatesAreFinite ==
  ASSUME TypeOK, NEW u, NEW k
  PROVE  /\ IsFiniteSet(AdmittedOf(u, k)) /\ Cardinality(AdmittedOf(u, k)) \in Nat
         /\ IsFiniteSet(Rechecked(u, k)) /\ Cardinality(Rechecked(u, k)) \in Nat
         /\ Cardinality(Processes) \in Nat
         /\ Cardinality(Rechecked(u, k)) <= Cardinality(Processes)
  <1>1. AdmittedOf(u, k) \in SUBSET registrations /\ IsFiniteSet(registrations)
    BY DEF AdmittedOf, ActiveOf, TypeOK
  <1>2. Rechecked(u, k) \in SUBSET Processes /\ IsFiniteSet(Processes)
    BY RegistrationsAssumption DEF Rechecked
  <1> QED
    BY <1>1, <1>2, FS_Subset, FS_CardinalityType

LEMMA DuplicatesShrink ==
  ASSUME TypeOK, NEW u, NEW k, AdmittedOf(u, k)' \in SUBSET AdmittedOf(u, k),
         Rechecked(u, k)' \in SUBSET Rechecked(u, k)
  PROVE  Duplicates(u, k)' <= Duplicates(u, k)
  <1>1. /\ IsFiniteSet(AdmittedOf(u, k)') /\ IsFiniteSet(Rechecked(u, k)')
        /\ Cardinality(AdmittedOf(u, k)') <= Cardinality(AdmittedOf(u, k))
        /\ Cardinality(Rechecked(u, k)') <= Cardinality(Rechecked(u, k))
    BY DuplicatesAreFinite, FS_Subset
  <1>2. Cardinality(AdmittedOf(u, k)') \in Nat /\ Cardinality(Rechecked(u, k)') \in Nat
    BY <1>1, FS_CardinalityType
  <1> QED
    BY <1>1, <1>2, DuplicatesAreFinite DEF Duplicates

(* A request goes on without having looked for an existing registration.   *)
LEMMA RecheckedShrinks ==
  ASSUME TypeOK, NEW p \in Processes, NEW u, NEW k,
         \A other \in Processes : other # p => proc'[other] = proc[other],
         \/ proc'[p].at \notin Counting
         \/ /\ proc[p].at \in Counting
            /\ proc'[p].user = proc[p].user /\ proc'[p].type = proc[p].type
         \/ ~(proc'[p].user = u /\ CategoryOf[proc'[p].type] = k)
  PROVE  Rechecked(u, k)' \in SUBSET Rechecked(u, k)
  BY DEF Rechecked, Counting

(* The insertion: a request becomes a registration.                        *)
LEMMA InsertOfOne ==
  ASSUME TypeOK, NEW u, NEW k, NEW p \in Processes, Insert(p), proc[p].at = "insert",
         proc[p].user = u, CategoryOf[proc[p].type] = k
  PROVE  Duplicates(u, k)' <= Duplicates(u, k)
  <1>1. AdmittedOf(u, k)' \in SUBSET (AdmittedOf(u, k) \cup {NewRow(p)})
    BY DEF Insert, AdmittedOf, ActiveOf
  <1>2. p \in Rechecked(u, k)
    BY DEF Rechecked
  <1>3. Rechecked(u, k)' \in SUBSET (Rechecked(u, k) \ {p})
    BY DEF Insert, Respond, Idle, Rechecked, TypeOK
  <1>4. /\ IsFiniteSet(AdmittedOf(u, k) \cup {NewRow(p)})
        /\ Cardinality(AdmittedOf(u, k) \cup {NewRow(p)}) <= Cardinality(AdmittedOf(u, k)) + 1
    <2> DEFINE new == AdmittedOf(u, k) \cup {NewRow(p)}
    <2>1. IsFiniteSet(AdmittedOf(u, k)) /\ Cardinality(AdmittedOf(u, k)) \in Nat
      BY DuplicatesAreFinite
    <2>2. /\ IsFiniteSet(new)
          /\ \/ new = AdmittedOf(u, k)
             \/ Cardinality(new) = Cardinality(AdmittedOf(u, k)) + 1
      BY <2>1, FS_AddElement
    <2> HIDE DEF new
    <2>3. IsFiniteSet(new) /\ Cardinality(new) <= Cardinality(AdmittedOf(u, k)) + 1
      BY <2>1, <2>2
    <2> QED
      BY <2>3 DEF new
  <1>5. /\ IsFiniteSet(Rechecked(u, k) \ {p})
        /\ Cardinality(Rechecked(u, k) \ {p}) = Cardinality(Rechecked(u, k)) - 1
    BY <1>2, DuplicatesAreFinite, FS_RemoveElement
  <1>6. /\ IsFiniteSet(AdmittedOf(u, k)') /\ IsFiniteSet(Rechecked(u, k)')
        /\ Cardinality(AdmittedOf(u, k)') <= Cardinality(AdmittedOf(u, k) \cup {NewRow(p)})
        /\ Cardinality(Rechecked(u, k)') <= Cardinality(Rechecked(u, k) \ {p})
    BY <1>1, <1>3, <1>4, <1>5, FS_Subset
  <1>7. /\ Cardinality(AdmittedOf(u, k)') \in Nat /\ Cardinality(Rechecked(u, k)') \in Nat
        /\ Cardinality(AdmittedOf(u, k) \cup {NewRow(p)}) \in Nat
    BY <1>4, <1>6, FS_CardinalityType
  <1> QED
    BY <1>4, <1>5, <1>6, <1>7, DuplicatesAreFinite DEF Duplicates

LEMMA DuplicatesStep ==
  ASSUME Workers = {}, TypeOK, TypeOK', NobodyImports, DuplicatesAreBounded, [Next]_vars
  PROVE  DuplicatesAreBounded'
  <1> SUFFICES ASSUME NEW u \in Users, NEW k \in Categories
               PROVE  Duplicates(u, k)' <= Cardinality(Requests)
    BY DEF DuplicatesAreBounded, Duplicates
  <1>1. Duplicates(u, k) <= Cardinality(Requests)
    BY DEF DuplicatesAreBounded, Duplicates
  <1>2. Requests = Processes
    BY DEF Processes
  <1>3. Duplicates(u, k) \in Nat /\ Duplicates(u, k)' \in Nat /\ Cardinality(Requests) \in Nat
    <2>1. /\ Cardinality(AdmittedOf(u, k)') \in Nat /\ Cardinality(Rechecked(u, k)') \in Nat
      <3>1. AdmittedOf(u, k)' \in SUBSET registrations' /\ IsFiniteSet(registrations')
        BY DEF AdmittedOf, ActiveOf, TypeOK
      <3>2. Rechecked(u, k)' \in SUBSET Processes /\ IsFiniteSet(Processes)
        BY RegistrationsAssumption DEF Rechecked
      <3> QED
        BY <3>1, <3>2, FS_Subset, FS_CardinalityType
    <2> QED
      BY <1>2, <2>1, DuplicatesAreFinite DEF Duplicates
  <1>4. ASSUME Duplicates(u, k)' <= Duplicates(u, k)
        PROVE  Duplicates(u, k)' <= Cardinality(Requests)
    BY <1>1, <1>3, <1>4
  <1>5. ASSUME UNCHANGED registrations
        PROVE  AdmittedOf(u, k)' \in SUBSET AdmittedOf(u, k)
    BY <1>5 DEF AdmittedOf, ActiveOf
  <1>6. ASSUME NEW p \in Processes, Recheck(p)
        PROVE  Duplicates(u, k)' <= Cardinality(Requests)
    <2>1. \A other \in Processes : other # p => proc'[other] = proc[other]
      BY <1>6 DEF Recheck, Goto, Respond, TypeOK
    <2>2. UNCHANGED registrations
      BY <1>6 DEF Recheck
    <2>3. CASE /\ proc[p].user = u /\ CategoryOf[proc[p].type] = k
               /\ ActiveOf(u, k) = {}
      <3>1. AdmittedOf(u, k)' = {}
        BY <2>2, <2>3 DEF AdmittedOf, ActiveOf
      <3>2. Cardinality(AdmittedOf(u, k)') = 0
        BY <3>1, FS_EmptySet
      <3>3. Rechecked(u, k)' \in SUBSET Processes /\ IsFiniteSet(Processes)
        BY RegistrationsAssumption DEF Rechecked
      <3>4. /\ Cardinality(Rechecked(u, k)') <= Cardinality(Processes)
            /\ Cardinality(Rechecked(u, k)') \in Nat
        BY <3>3, FS_Subset, FS_CardinalityType
      <3> QED
        BY <1>2, <3>2, <3>4 DEF Duplicates
    <2>4. CASE ~(/\ proc[p].user = u /\ CategoryOf[proc[p].type] = k
                 /\ ActiveOf(u, k) = {})
      <3>1. \/ proc'[p].at \notin Counting
            \/ ~(proc'[p].user = u /\ CategoryOf[proc'[p].type] = k)
        BY <1>6, <2>4 DEF Recheck, Goto, Respond, Idle, Counting, TypeOK, ProcessStates
      <3>2. Rechecked(u, k)' \in SUBSET Rechecked(u, k)
        BY <2>1, <3>1, RecheckedShrinks
      <3> QED
        BY <1>4, <1>5, <2>2, <3>2, DuplicatesShrink
    <2> QED
      BY <2>3, <2>4
  <1>7. ASSUME NEW p \in Processes, Insert(p)
        PROVE  Duplicates(u, k)' <= Cardinality(Requests)
    <2>1. proc[p].at = "insert"
      BY <1>7 DEF Insert, NobodyImports, Counting
    <2>2. CASE proc[p].user = u /\ CategoryOf[proc[p].type] = k
      BY <1>4, <1>7, <2>1, <2>2, InsertOfOne
    <2>3. CASE ~(proc[p].user = u /\ CategoryOf[proc[p].type] = k)
      <3>1. AdmittedOf(u, k)' \in SUBSET AdmittedOf(u, k)
        BY <1>7, <2>3 DEF Insert, AdmittedOf, ActiveOf, NewRow
      <3>2. Rechecked(u, k)' \in SUBSET Rechecked(u, k)
        BY <1>7 DEF Insert, Respond, Rechecked, TypeOK, Idle
      <3> QED
        BY <1>4, <3>1, <3>2, DuplicatesShrink
    <2> QED
      BY <2>2, <2>3
  <1>8. ASSUME NEW p \in Processes, Step(p), ~Recheck(p), ~Insert(p)
        PROVE  Duplicates(u, k)' <= Cardinality(Requests)
    <2>1. UNCHANGED registrations
      BY <1>8 DEF Step, Continue, Register, ImportRow, CountActive, CountAll, NumberConflict,
                  ImportActive, ImportCount, ImportConflict, Abort
    <2>2. \/ proc'[p].at \notin Counting
          \/ /\ proc[p].at \in Counting
             /\ proc'[p].user = proc[p].user /\ proc'[p].type = proc[p].type
      <3>1. CASE \E v \in Users, t \in Types : Register(p, v, t) \/ ImportRow(p, v, t)
        BY <3>1 DEF Register, ImportRow, Arrive, Idle, Counting, TypeOK
      <3>2. CASE CountActive(p) \/ CountAll(p) \/ NumberConflict(p) \/ Abort(p)
        BY <3>2 DEF CountActive, CountAll, NumberConflict, Abort, Goto, Respond, Idle, Counting,
                    TypeOK, ProcessStates
      <3>3. ~(ImportActive(p) \/ ImportCount(p) \/ ImportConflict(p))
        BY DEF NobodyImports, Counting, ImportActive, ImportCount, ImportConflict
      <3> QED
        BY <1>8, <3>1, <3>2, <3>3 DEF Step, Continue
    <2>3. Rechecked(u, k)' \in SUBSET Rechecked(u, k)
      BY <1>8, <2>2, MovesOnlyItself, RecheckedShrinks
    <2> QED
      BY <1>4, <1>5, <2>1, <2>3, DuplicatesShrink
  <1>9. ASSUME NEW row \in registrations, Refund(row) \/ Readmit(row)
        PROVE  Duplicates(u, k)' <= Cardinality(Requests)
    <2>1. AdmittedOf(u, k)' \in SUBSET AdmittedOf(u, k)
      BY <1>9 DEF Refund, Readmit, SetStatus, AdmittedOf, ActiveOf, TypeOK, Rows
    <2>2. Rechecked(u, k)' \in SUBSET Rechecked(u, k)
      BY <1>9 DEF Refund, Readmit, SetStatus, Rechecked
    <2> QED
      BY <1>4, <2>1, <2>2, DuplicatesShrink
  <1>10. CASE UNCHANGED vars
    <2>1. Rechecked(u, k)' \in SUBSET Rechecked(u, k)
      BY <1>10 DEF vars, Rechecked
    <2> QED
      BY <1>4, <1>5, <1>10, <2>1, DuplicatesShrink DEF vars
  <1> QED
    BY <1>6, <1>7, <1>8, <1>9, <1>10 DEF Next

(* Where nothing is imported, nobody who clicks several times is registered*)
(* more often in a category than requests are served at a time.            *)
THEOREM DuplicatesAreFew ==
  ASSUME Workers = {}
  PROVE  Spec => []DuplicatesAreBounded
  <1> DEFINE DInv == IInv /\ NobodyImports /\ DuplicatesAreBounded
  <1>1. Init => DInv
    <2> SUFFICES ASSUME Init PROVE NobodyImports /\ DuplicatesAreBounded
      BY Initial
    <2>1. NobodyImports
      BY DEF Init, Idle, NobodyImports
    <2>2. ASSUME NEW u, NEW k
          PROVE  Duplicates(u, k) <= Cardinality(Requests)
      <3>1. AdmittedOf(u, k) = {} /\ Rechecked(u, k) = {}
        BY DEF Init, Idle, AdmittedOf, ActiveOf, Rechecked
      <3>2. Cardinality({}) = 0
        BY FS_EmptySet
      <3>3. Cardinality(Requests) \in Nat
        BY RegistrationsAssumption, FS_CardinalityType DEF Processes
      <3> QED
        BY <3>1, <3>2, <3>3 DEF Duplicates
    <2> QED
      BY <2>1, <2>2 DEF DuplicatesAreBounded, Duplicates
  <1>2. DInv /\ [Next]_vars => DInv'
    <2> SUFFICES ASSUME DInv, [Next]_vars PROVE DInv'
      OBVIOUS
    <2>1. IInv'
      BY Inductive
    <2> QED
      BY <2>1, NobodyImportsStep, DuplicatesStep DEF IInv
  <1>3. DInv => DuplicatesAreBounded
    OBVIOUS
  <1> QED
    BY <1>1, <1>2, <1>3, PTL DEF Spec

-----------------------------------------------------------------------------
(* Every statement is progress.                                            *)
LEMMA LeftAt ==
  ASSUME NEW q \in ProcessStates
  PROVE  /\ StatementsLeft(q) \in Nat
         /\ q.at = "idle" => StatementsLeft(q) = 0
         /\ q.at # "idle" => StatementsLeft(q) > 0
  <1>1. q.at \in Steps /\ q.attempt \in 0 .. MaxAttempts - 1 /\ MaxAttempts \in Nat \ {0}
    BY RegistrationsAssumption DEF ProcessStates
  <1> QED
    BY <1>1 DEF StatementsLeft, Steps

LEMMA ContinueIsProgress ==
  ASSUME TypeOK, TypeOK', NEW p \in Processes, Continue(p)
  PROVE  StatementsLeft(proc'[p]) < StatementsLeft(proc[p])
  <1>1. PICK q \in ProcessStates : q = proc[p]
    BY DEF TypeOK
  <1>2. PICK o \in ProcessStates : o = proc'[p]
    BY DEF TypeOK
  <1>3. /\ q.attempt \in 0 .. MaxAttempts - 1 /\ o.attempt \in 0 .. MaxAttempts - 1
        /\ MaxAttempts \in Nat \ {0}
    BY RegistrationsAssumption DEF ProcessStates
  <1>4. CASE Respond(p)
    <2>1. o.at = "idle" /\ q.at # "idle"
      BY <1>1, <1>2, <1>4 DEF Respond, Idle, TypeOK, Continue, Recheck, CountActive, CountAll, Insert,
            NumberConflict, ImportActive, ImportCount, ImportConflict
    <2> QED
      BY <1>1, <1>2, <2>1, LeftAt
  <1>5. CASE ~Respond(p)
    <2>1. Recheck(p) => q.at = "recheck" /\ o.at \in {"countAll", "countActive"}
                        /\ o.attempt = q.attempt
      BY <1>1, <1>2, <1>5 DEF Recheck, Goto, TypeOK, ProcessStates
    <2>2. CountActive(p) => q.at = "countActive" /\ o.at = "countAll" /\ o.attempt = q.attempt
      BY <1>1, <1>2, <1>5 DEF CountActive, Goto, TypeOK, ProcessStates
    <2>3. CountAll(p) => q.at = "countAll" /\ o.at = "insert" /\ o.attempt = q.attempt
      BY <1>1, <1>2 DEF CountAll, TypeOK, ProcessStates
    <2>4. ~Insert(p)
      BY <1>5 DEF Insert
    <2>5. NumberConflict(p) => q.at = "insert" /\ o.at = "recheck" /\ o.attempt = q.attempt + 1
      BY <1>1, <1>2, <1>5 DEF NumberConflict, TypeOK, ProcessStates
    <2>6. ImportActive(p) => q.at = "importActive" /\ o.at = "importCount"
      BY <1>1, <1>2, <1>5 DEF ImportActive, Goto, TypeOK, ProcessStates
    <2>7. ImportCount(p) => q.at = "importCount" /\ o.at = "importInsert"
      BY <1>1, <1>2 DEF ImportCount, TypeOK, ProcessStates
    <2>8. ImportConflict(p) => /\ q.at = "importInsert" /\ o.at = "importInsert"
                               /\ o.attempt = q.attempt + 1
      BY <1>1, <1>2, <1>5 DEF ImportConflict, TypeOK, ProcessStates
    <2>9. Recheck(p) \/ CountActive(p) \/ CountAll(p) \/ NumberConflict(p)
            => StatementsLeft(o) < StatementsLeft(q)
      BY <1>3, <2>1, <2>2, <2>3, <2>5 DEF StatementsLeft
    <2>10. ImportActive(p) \/ ImportCount(p) \/ ImportConflict(p)
            => StatementsLeft(o) < StatementsLeft(q)
      BY <1>3, <2>6, <2>7, <2>8 DEF StatementsLeft
    <2> QED
      BY <1>1, <1>2, <2>4, <2>9, <2>10 DEF Continue
  <1> QED
    BY <1>4, <1>5

(* What anybody else does leaves a process as it is, or it ends.           *)
LEMMA NothingIsAdded ==
  ASSUME TypeOK, TypeOK', [Next]_vars, NEW p \in Processes, proc[p] # Idle
  PROVE  StatementsLeft(proc'[p]) <= StatementsLeft(proc[p])
  <1>1. PICK q \in ProcessStates : q = proc[p]
    BY DEF TypeOK
  <1>2. PICK o \in ProcessStates : o = proc'[p]
    BY DEF TypeOK
  <1>3. CASE Continue(p)
    <2>1. StatementsLeft(o) < StatementsLeft(q)
      BY <1>1, <1>2, <1>3, ContinueIsProgress
    <2> QED
      BY <1>1, <1>2, <2>1, LeftAt
  <1>4. CASE ~Continue(p)
    <2>1. o = q \/ o.at = "idle"
      <3>1. ASSUME Step(p)
            PROVE  o.at = "idle"
        <4>1. Abort(p)
          BY <1>4, <3>1 DEF Step, Register, ImportRow, Arrive
        <4> QED
          BY <1>2, <4>1 DEF Abort, Respond, Idle, TypeOK
      <3>2. ASSUME NEW other \in Processes, Step(other), other # p
            PROVE  o = q
        BY <1>1, <1>2, <3>2, MovesOnlyItself
      <3>3. ASSUME UNCHANGED proc
            PROVE  o = q
        BY <1>1, <1>2, <3>3
      <3> QED
        BY <3>1, <3>2, <3>3 DEF Next, Refund, Readmit, SetStatus, vars
    <2> QED
      BY <1>1, <1>2, <2>1, LeftAt
  <1> QED
    BY <1>3, <1>4

(* Each statement brings its process nearer to its answer, the retries of a*)
(* number that is taken included, and nothing that others do puts it       *)
(* further away.                                                           *)
THEOREM EveryStatementIsProgress == Spec => StatementsAreProgress
  <1> DEFINE A == \A p \in Processes :
                     /\ Continue(p) => StatementsLeft(proc'[p]) < StatementsLeft(proc[p])
                     /\ proc[p] # Idle => StatementsLeft(proc'[p]) <= StatementsLeft(proc[p])
  <1>1. IInv /\ IInv' /\ [Next]_vars => [A]_vars
    BY ContinueIsProgress, NothingIsAdded DEF IInv
  <1>2. [][A]_vars => StatementsAreProgress
    BY PTL DEF StatementsAreProgress
  <1> QED
    BY <1>1, <1>2, Invariance, PTL DEF Spec
=============================================================================
