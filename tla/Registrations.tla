----------------------------- MODULE Registrations -----------------------------
(***************************************************************************)
(* How registration rows come into being: RegistrationsService.register in *)
(* the API and processRegistrationRow in the import worker, side by side   *)
(* over one registrations table.                                           *)
(*                                                                         *)
(* register works in a transaction, but at PostgreSQL's default isolation  *)
(* (READ COMMITTED) each of its statements sees whatever is committed when *)
(* it runs; the import opens no transaction at all.  Either way a process  *)
(* is a sequence of statements between which others commit.  The insert is *)
(* the last statement of the transaction, so insert and commit are one     *)
(* step: until then nobody sees the row, and who needs its number waits.   *)
(***************************************************************************)
EXTENDS FiniteSets, Naturals

CONSTANTS
    Conferences,
    Categories,
    Types,            \* pricing windows of the categories
    Users,
    ConferenceOf,     \* the conference of each category
    CategoryOf,       \* the category of each type
    Capacity,         \* of each type: a number, or Unlimited (null)
    Unlimited,
    Requests,         \* register requests the API serves at a time
    Workers,          \* import jobs that run at a time
    MaxAttempts,      \* MAX_NUMBER_ATTEMPTS, MAX_REGISTRATION_NUMBER_ATTEMPTS
    MaxRegistrations, \* a bound on the rows that are ever created
    NoUser, NoType

Processes == Requests \cup Workers

ASSUME RegistrationsAssumption ==
    /\ ConferenceOf \in [Categories -> Conferences]
    /\ CategoryOf \in [Types -> Categories]
    /\ Unlimited \notin Nat
    /\ Capacity \in [Types -> Nat \cup {Unlimited}]
    /\ IsFiniteSet(Processes) /\ Processes # {}
    /\ MaxAttempts \in Nat \ {0}
    /\ MaxRegistrations \in Nat

VARIABLES
    registrations, \* the registrations table
    proc           \* the requests and import rows in flight

vars == <<registrations, proc>>

(* PENDING, CONFIRMED and CHECKED_IN are all active here: Checkout tells   *)
(* them apart.  An active registration that has been refunded before is    *)
(* READMITTED, which is told apart for OversellIsBounded alone.            *)
Rows == [number : Nat, user : Users, type : Types,
         status : {"ACTIVE", "REFUNDED", "READMITTED"}]

Steps == {"idle", "recheck", "countActive", "countAll", "insert",
          "importActive", "importCount", "importInsert"}

Idle == [at |-> "idle", user |-> NoUser, type |-> NoType, attempt |-> 0, sequence |-> 0]

ProcessStates == [at       : Steps,
                  user     : Users \cup {NoUser},
                  type     : Types \cup {NoType},
                  attempt  : 0 .. MaxAttempts - 1,
                  sequence : Nat]    \* the number to be tried

TypeOK ==
    /\ registrations \subseteq Rows
    /\ IsFiniteSet(registrations)
    /\ proc \in [Processes -> ProcessStates]

Init ==
    /\ registrations = {}
    /\ proc = [p \in Processes |-> Idle]

-----------------------------------------------------------------------------
ConferenceOfType(t) == ConferenceOf[CategoryOf[t]]

Active(t) == {row \in registrations : row.type = t /\ row.status # "REFUNDED"}
ActiveOf(u, category) ==
    {row \in registrations : /\ row.user = u
                             /\ CategoryOf[row.type] = category
                             /\ row.status # "REFUNDED"}

(* Mutant: refunded registrations are left out of the count.               *)
OfConferenceActive(c) ==
    {row \in registrations : ConferenceOfType(row.type) = c /\ row.status # "REFUNDED"}

(* What the next number is counted from.                                   *)
OfConference(c) == {row \in registrations : ConferenceOfType(row.type) = c}

Used(n) == \E row \in registrations : row.number = n

Full(t) == Capacity[t] # Unlimited /\ Cardinality(Active(t)) >= Capacity[t]

Goto(p, step) == proc' = [proc EXCEPT ![p].at = step]
Respond(p) == proc' = [proc EXCEPT ![p] = Idle]
Arrive(p, step, u, t) ==
    /\ proc[p] = Idle
    /\ proc' = [proc EXCEPT ![p] = [Idle EXCEPT !.at = step, !.user = u, !.type = t]]

(* The model's bound on rows: every process in flight may insert one.      *)
HasRoom == Cardinality(registrations) + Cardinality({p \in Processes : proc[p] # Idle})
           < MaxRegistrations

-----------------------------------------------------------------------------
(* RegistrationsService.register.  The category's effective pricing window *)
(* is the type t: any of the category's, as the clock has it.  An existing *)
(* registration is returned at once.                                       *)
Register(p, u, t) ==
    /\ p \in Requests
    /\ HasRoom
    /\ ActiveOf(u, CategoryOf[t]) = {}
    /\ Arrive(p, "recheck", u, t)
    /\ UNCHANGED registrations

Recheck(p) ==
    LET t == proc[p].type IN
    /\ proc[p].at = "recheck"
    /\ \/ /\ ActiveOf(proc[p].user, CategoryOf[t]) # {}
          /\ Respond(p)
       \/ /\ ActiveOf(proc[p].user, CategoryOf[t]) = {}
          /\ Goto(p, IF Capacity[t] = Unlimited THEN "countAll" ELSE "countActive")
    /\ UNCHANGED registrations

(* Mutant: the last place is given away twice.                             *)
CountActiveOffByOne(p) ==
    LET t == proc[p].type IN
    /\ proc[p].at = "countActive"
    /\ IF Capacity[t] # Unlimited /\ Cardinality(Active(t)) > Capacity[t]
       THEN Respond(p) ELSE Goto(p, "countAll")
    /\ UNCHANGED registrations

CountActive(p) ==
    /\ proc[p].at = "countActive"
    /\ IF Full(proc[p].type) THEN Respond(p) ELSE Goto(p, "countAll")
    /\ UNCHANGED registrations

(* A retry counts again, and adds the number of attempts as well.          *)
CountAll(p) ==
    LET existing == Cardinality(OfConference(ConferenceOfType(proc[p].type))) IN
    /\ proc[p].at = "countAll"
    /\ proc' = [proc EXCEPT ![p].at = "insert",
                            ![p].sequence = existing + proc[p].attempt + 1]
    /\ UNCHANGED registrations

NewRow(p) == [number |-> proc[p].sequence, user |-> proc[p].user,
              type |-> proc[p].type, status |-> "ACTIVE"]

(* registrationNumber is unique over all conferences.                      *)
Insert(p) ==
    /\ proc[p].at \in {"insert", "importInsert"}
    /\ ~Used(proc[p].sequence)
    /\ registrations' = registrations \cup {NewRow(p)}
    /\ Respond(p)

(* Mutant: one attempt too many.                                           *)
NumberConflictOffByOne(p) ==
    /\ proc[p].at = "insert"
    /\ Used(proc[p].sequence)
    /\ IF proc[p].attempt < MaxAttempts
       THEN proc' = [proc EXCEPT ![p].at = "recheck", ![p].attempt = @ + 1]
       ELSE Respond(p)
    /\ UNCHANGED registrations

(* The transaction is rolled back and tried again from its first statement;*)
(* "Could not assign a unique registration number" after the last attempt. *)
NumberConflict(p) ==
    /\ proc[p].at = "insert"
    /\ Used(proc[p].sequence)
    /\ IF proc[p].attempt + 1 < MaxAttempts
       THEN proc' = [proc EXCEPT ![p].at = "recheck", ![p].attempt = @ + 1]
       ELSE Respond(p)
    /\ UNCHANGED registrations

-----------------------------------------------------------------------------
(* The import worker's processRegistrationRow, for a row of a CSV file.    *)
(* It does not look for an existing registration, so a row that is read    *)
(* twice, as after a restart of the job, is registered twice.              *)
ImportRow(p, u, t) ==
    /\ p \in Workers
    /\ HasRoom
    /\ Arrive(p, IF Capacity[t] = Unlimited THEN "importCount" ELSE "importActive", u, t)
    /\ UNCHANGED registrations

ImportActive(p) ==
    /\ proc[p].at = "importActive"
    /\ IF Full(proc[p].type) THEN Respond(p) ELSE Goto(p, "importCount")
    /\ UNCHANGED registrations

ImportCount(p) ==
    LET existing == Cardinality(OfConference(ConferenceOfType(proc[p].type))) IN
    /\ proc[p].at = "importCount"
    /\ proc' = [proc EXCEPT ![p].at = "importInsert", ![p].sequence = existing + 1]
    /\ UNCHANGED registrations

(* Here a retry goes on to the next number without looking again.          *)
ImportConflict(p) ==
    /\ proc[p].at = "importInsert"
    /\ Used(proc[p].sequence)
    /\ IF proc[p].attempt + 1 < MaxAttempts
       THEN proc' = [proc EXCEPT ![p].sequence = @ + 1, ![p].attempt = @ + 1]
       ELSE Respond(p)
    /\ UNCHANGED registrations

-----------------------------------------------------------------------------
SetStatus(row, status) ==
    /\ registrations' = (registrations \ {row}) \cup {[row EXCEPT !.status = status]}
    /\ UNCHANGED proc

(* PaymentsService.refund frees the place.                                 *)
Refund(row) == row.status # "REFUNDED" /\ SetStatus(row, "REFUNDED")

(* A payment that arrives after the refund confirms the registration, and a*)
(* check-in that read its status before the refund checks it in: neither   *)
(* looks at the capacity.                                                  *)
Readmit(row) == row.status = "REFUNDED" /\ SetStatus(row, "READMITTED")

(* An exception, the timeout of the transaction or a restart.              *)
Abort(p) ==
    /\ proc[p] # Idle
    /\ Respond(p)
    /\ UNCHANGED registrations

Continue(p) ==
    \/ Recheck(p) \/ CountActive(p) \/ CountAll(p) \/ Insert(p) \/ NumberConflict(p)
    \/ ImportActive(p) \/ ImportCount(p) \/ ImportConflict(p)

Step(p) ==
    \/ \E u \in Users, t \in Types : Register(p, u, t) \/ ImportRow(p, u, t)
    \/ Continue(p)
    \/ Abort(p)

Next == \/ \E p \in Processes : Step(p)
        \/ \E row \in registrations : Refund(row) \/ Readmit(row)

Spec == Init /\ [][Next]_vars

-----------------------------------------------------------------------------
(* Properties.                                                             *)

Admitted(t) == {row \in Active(t) : row.status # "READMITTED"}

(* Processes that have found a free place of t and are about to take it.   *)
Passed(t) == {p \in Processes :
                 /\ proc[p].type = t
                 /\ proc[p].at \in {"countAll", "insert", "importCount", "importInsert"}}

(* How far concurrent registrations and imports oversell a type: by less   *)
(* than the number of processes, however many numbers conflict and however *)
(* many places are refunded and taken again meanwhile, and beyond that only*)
(* by readmissions.                                                        *)
OversellIsBounded ==
    \A t \in Types :
        Capacity[t] # Unlimited =>
            Cardinality(Admitted(t)) + Cardinality(Passed(t))
                < Capacity[t] + Cardinality(Processes)

(* A registration number, which the desk may check somebody in by, means   *)
(* one registration, whichever of the two code paths assigned it.          *)
NumbersIdentify ==
    \A a, b \in registrations : a.number = b.number => a = b

(* Numbers run ahead of the count that the next one is taken from, since a *)
(* retry counts again and adds its attempts as well, but never so far that *)
(* somebody who registers while nobody else does finds none in the attempts*)
(* that register makes: "Could not assign a unique registration number;    *)
(* please retry" is good advice.                                           *)
RetryCanSucceed ==
    \A c \in Conferences :
        \E attempt \in 0 .. MaxAttempts - 1 :
            ~Used(Cardinality(OfConference(c)) + attempt + 1)

(* How often somebody who clicks several times is registered in a category:*)
(* the look for an existing registration does not exclude another that is  *)
(* just being inserted, so as often as requests are served at a time, but  *)
(* no more, however many numbers conflict and whatever is refunded between.*)
(* The import does not look at all, and registers a row that is read twice *)
(* twice; a readmission does not look either.                              *)
AdmittedOf(u, category) == {row \in ActiveOf(u, category) : row.status # "READMITTED"}

Rechecked(u, category) ==
    {p \in Processes : /\ proc[p].at \in {"countActive", "countAll", "insert"}
                       /\ proc[p].user = u /\ CategoryOf[proc[p].type] = category}

DuplicatesAreBounded ==
    \A u \in Users, category \in Categories :
        Cardinality(AdmittedOf(u, category)) + Cardinality(Rechecked(u, category))
            <= Cardinality(Requests)

(* How many statements at most a request or an import row still has to run:*)
(* each attempt of register has four, one of the import is an insertion.   *)
StatementsLeft(q) ==
    CASE q.at = "idle" -> 0
      [] q.at = "recheck" -> 4 * (MaxAttempts - q.attempt)
      [] q.at = "countActive" -> 4 * (MaxAttempts - q.attempt) - 1
      [] q.at = "countAll" -> 4 * (MaxAttempts - q.attempt) - 2
      [] q.at = "insert" -> 4 * (MaxAttempts - q.attempt) - 3
      [] q.at = "importActive" -> MaxAttempts + 2
      [] q.at = "importCount" -> MaxAttempts + 1
      [] q.at = "importInsert" -> MaxAttempts - q.attempt

(* Every statement, that of a transaction that is tried again included,    *)
(* brings its process nearer to its answer, and nothing that others do puts*)
(* it further away.                                                        *)
StatementsAreProgress ==
    [][\A p \in Processes :
          /\ Continue(p) => StatementsLeft(proc'[p]) < StatementsLeft(proc[p])
          /\ proc[p] # Idle => StatementsLeft(proc'[p]) <= StatementsLeft(proc[p])]_vars

(* "RegistrationType.capacity is enforced [...] to avoid overselling under *)
(* concurrent checkouts" (docs/plans/04, REG-003).                         *)
CapacityIsKept == \A t \in Types : Capacity[t] # Unlimited
                                       => Cardinality(Active(t)) <= Capacity[t]
=============================================================================
