-------------------------------- MODULE Reviewing --------------------------------
(***************************************************************************)
(* Reviewers, the assignment of abstracts to them, by hand and             *)
(* automatically, and their reviews: ReviewersService,                     *)
(* ReviewAssignmentsService, ConflictOfInterestService and ReviewsService. *)
(*                                                                         *)
(* No unique index keeps a reviewer from being assigned an abstract twice, *)
(* and autoAssign works on the assignments it has read at first.           *)
(* markOverdue has no caller in the program and is left out.               *)
(***************************************************************************)
EXTENDS EditorialTables

(* IN_PROGRESS and OVERDUE are in the schema, and nothing sets them but    *)
(* markOverdue.                                                            *)
AssignmentStatuses == {"PENDING", "COMPLETED", "DECLINED", "CANCELLED"}

(* from is reassignedFromId, and reviewed says whether a Review row points *)
(* at the assignment.  auto, which the code does not store, remembers that *)
(* autoAssign has created it.                                              *)
Assignments ==
    [abstract : Abstracts, reviewer : Reviewers, status : AssignmentStatuses,
     conflict : BOOLEAN, from : Nat, reviewed : BOOLEAN, auto : BOOLEAN]

AutoSteps == {"readAbstracts", "readAssignments", "nextAbstract", "checkCandidate",
              "selectReviewers", "createAuto"}
ReviewingSteps == {"idle", "checkAssign", "create", "checkReassign", "cancelOld",
                   "createSuccessor", "insertReview", "complete"} \cup AutoSteps

(* Of autoAssign: todo are the abstracts it has not come to, pool the      *)
(* active reviewers, pairs the assignments it knows of, load its Map of    *)
(* workloads, unchecked and candidates the reviewers for the present       *)
(* abstract, chosen the selected ones, fair whether a reviewer was ever    *)
(* left out or the work was uneven from the start.                         *)
IdleReviewing == [at |-> "idle", abstract |-> 0, reviewer |-> 0, id |-> 0, todo |-> {},
                  pool |-> {}, pairs |-> {}, load |-> [r \in Reviewers |-> 0],
                  unchecked |-> {}, candidates |-> {}, chosen |-> {}, fair |-> TRUE]

ReviewingStates ==
    [at : ReviewingSteps, abstract : Abstracts \cup {0}, reviewer : Reviewers \cup {0},
     id : Nat, todo : SUBSET Abstracts, pool : SUBSET Reviewers,
     pairs : SUBSET (Abstracts \X Reviewers), load : [Reviewers -> Nat],
     unchecked : SUBSET Reviewers, candidates : SUBSET Reviewers,
     chosen : SUBSET Reviewers, fair : BOOLEAN]

ReviewingTypeOK ==
    /\ active \subseteq Reviewers
    /\ institution \in [Reviewers -> Institutions \cup {NoInstitution}]
    /\ assignments \in Seq(Assignments)
    /\ reviewing \in [Requests -> ReviewingStates]

ReviewingInit ==
    /\ active = scenario.reviewers
    /\ institution = [r \in Reviewers |-> NoInstitution]
    /\ assignments = <<>>
    /\ reviewing = [p \in Requests |-> IdleReviewing]

-----------------------------------------------------------------------------
ElsewhereFromReviewing == UNCHANGED <<scenario, submissionVars, programmeVars>>
RespondReviewing(p) == reviewing' = [reviewing EXCEPT ![p] = IdleReviewing]
GotoReviewing(p, step) == reviewing' = [reviewing EXCEPT ![p].at = step]

NewAssignment(a, r, from, auto) ==
    [abstract |-> a, reviewer |-> r, status |-> "PENDING", conflict |-> FALSE,
     from |-> from, reviewed |-> FALSE, auto |-> auto]

Insert(row) == assignments' = Append(assignments, row)
Update(i, value) == assignments' = [assignments EXCEPT ![i].status = value]
Ids == DOMAIN assignments

(* The bound: there is a row left for whatever is under way may create.    *)
Reserved(p) ==
    CASE reviewing[p].at \in AutoSteps -> scenario.perAbstract * scenario.abstracts
      [] reviewing[p].at \in {"idle", "insertReview", "complete"} -> 0
      [] OTHER -> 1

HasRoomFor(n) ==
    LET taken[S \in SUBSET Requests] ==
            IF S = {} THEN 0
            ELSE LET p == CHOOSE q \in S : TRUE IN Reserved(p) + taken[S \ {p}]
    IN  Len(assignments) + taken[Requests] + n <= scenario.maxAssignments

(* ConflictOfInterestService.check: the reviewer is an author of the       *)
(* abstract, or of the institution of one.                                 *)
HasConflict(r, a) ==
    \E x \in authors[a] :
        \/ x = Account[r]
        \/ institution[r] # NoInstitution /\ Affiliation[x] = institution[r]

-----------------------------------------------------------------------------
(* addReviewer and updateProfile.                                          *)
AddReviewer(r) ==
    /\ Called("addReviewer")
    /\ r \notin active
    /\ active' = active \cup {r}
    /\ UNCHANGED <<institution, assignments, reviewing>>
    /\ ElsewhereFromReviewing

UpdateProfile(r, i) ==
    /\ Called("updateProfile")
    /\ r \in active
    /\ institution' = [institution EXCEPT ![r] = i]
    /\ UNCHANGED <<active, assignments, reviewing>>
    /\ ElsewhereFromReviewing

BeginReviewing(p, call, request) ==
    /\ Called(call)
    /\ reviewing[p] = IdleReviewing
    /\ reviewing' = [reviewing EXCEPT ![p] = request]
    /\ UNCHANGED <<active, institution, assignments>>
    /\ ElsewhereFromReviewing

Assign(p, a, r) ==
    /\ status[a] # "NONE" /\ r \in active /\ HasRoomFor(1)
    /\ BeginReviewing(p, "assign", [IdleReviewing EXCEPT !.at = "checkAssign", !.abstract = a,
                                                         !.reviewer = r])

(* The check of assign and of reassign.                                    *)
Check(p, from, to) ==
    /\ reviewing[p].at = from
    /\ IF HasConflict(reviewing[p].reviewer, reviewing[p].abstract)
       THEN RespondReviewing(p) ELSE GotoReviewing(p, to)
    /\ UNCHANGED <<active, institution, assignments>>
    /\ ElsewhereFromReviewing

CheckAssign(p) == Check(p, "checkAssign", "create")

CreateAssignment(p) ==
    /\ reviewing[p].at = "create"
    /\ Insert(NewAssignment(reviewing[p].abstract, reviewing[p].reviewer, 0, FALSE))
    /\ RespondReviewing(p)
    /\ UNCHANGED <<active, institution>>
    /\ ElsewhereFromReviewing

-----------------------------------------------------------------------------
(* autoAssign: the active reviewers, the eligible abstracts and the        *)
(* assignments that count are read one after the other.                    *)
AutoAssign(p) ==
    /\ active # {}
    /\ HasRoomFor(scenario.perAbstract * scenario.abstracts)
    /\ BeginReviewing(p, "autoAssign",
                      [IdleReviewing EXCEPT !.at = "readAbstracts", !.pool = active])

ReadAbstracts(p) ==
    LET eligible == {a \in Abstracts : status[a] \notin {"NONE", "DRAFT", "WITHDRAWN"}} IN
    /\ reviewing[p].at = "readAbstracts"
    /\ IF eligible = {} THEN RespondReviewing(p)
       ELSE reviewing' = [reviewing EXCEPT ![p].at = "readAssignments", ![p].todo = eligible]
    /\ UNCHANGED <<active, institution, assignments>>
    /\ ElsewhereFromReviewing

Counted == {i \in Ids : assignments[i].status \notin {"CANCELLED", "DECLINED"}}

ReadAssignments(p) ==
    /\ reviewing[p].at = "readAssignments"
    /\ reviewing' = [reviewing EXCEPT
           ![p].at = "nextAbstract",
           ![p].pairs = {<<assignments[i].abstract, assignments[i].reviewer>> : i \in Counted},
           ![p].load = [r \in Reviewers |->
                           Cardinality({i \in Counted : assignments[i].reviewer = r})],
           ![p].fair = Counted = {}]
    /\ UNCHANGED <<active, institution, assignments>>
    /\ ElsewhereFromReviewing

(* Mutant: the reviewers that an abstract has do not count.                *)
AssignedToNobody(p, a) == {}

(* currentReviewerIds.                                                     *)
AssignedTo(p, a) == {r \in Reviewers : <<a, r>> \in reviewing[p].pairs}

(* The loop over the abstracts, in the order of their creation.            *)
NextAbstract(p) ==
    LET a == Least(reviewing[p].todo) IN
    /\ reviewing[p].at = "nextAbstract"
    /\ \/ reviewing[p].todo = {} /\ RespondReviewing(p)
       \/ /\ reviewing[p].todo # {}
          /\ Cardinality(AssignedTo(p, a)) >= scenario.perAbstract
          /\ reviewing' = [reviewing EXCEPT ![p].todo = @ \ {a}]
       \/ /\ reviewing[p].todo # {}
          /\ Cardinality(AssignedTo(p, a)) < scenario.perAbstract
          /\ reviewing' = [reviewing EXCEPT
                 ![p].at = "checkCandidate", ![p].todo = @ \ {a}, ![p].abstract = a,
                 ![p].unchecked = {r \in reviewing[p].pool : <<a, r>> \notin reviewing[p].pairs},
                 ![p].candidates = {}]
    /\ UNCHANGED <<active, institution, assignments>>
    /\ ElsewhereFromReviewing

CheckCandidate(p) ==
    LET r == Least(reviewing[p].unchecked)
        conflict == HasConflict(r, reviewing[p].abstract)
    IN
    /\ reviewing[p].at = "checkCandidate"
    /\ IF reviewing[p].unchecked = {} THEN GotoReviewing(p, "selectReviewers")
       ELSE reviewing' = [reviewing EXCEPT
                ![p].unchecked = @ \ {r},
                ![p].candidates = IF conflict THEN @ ELSE @ \cup {r},
                ![p].fair = @ /\ ~conflict]
    /\ UNCHANGED <<active, institution, assignments>>
    /\ ElsewhereFromReviewing

(* Mutant: the workload is not looked at.                                  *)
BeforeById(load, q, r) == q < r

(* candidates.sort: the lowest workload first, then the lowest id.         *)
Before(load, q, r) == load[q] < load[r] \/ (load[q] = load[r] /\ q < r)

SelectReviewers(p) ==
    LET load == reviewing[p].load
        candidates == reviewing[p].candidates
        slots == scenario.perAbstract - Cardinality(AssignedTo(p, reviewing[p].abstract))
        chosen == {r \in candidates :
                      Cardinality({q \in candidates : Before(load, q, r)}) < slots}
    IN
    /\ reviewing[p].at = "selectReviewers"
    /\ reviewing' = [reviewing EXCEPT
           ![p].chosen = chosen,
           ![p].at = IF chosen = {} THEN "nextAbstract" ELSE "createAuto"]
    /\ UNCHANGED <<active, institution, assignments>>
    /\ ElsewhereFromReviewing

CreateAuto(p) ==
    LET a == reviewing[p].abstract
        r == CHOOSE c \in reviewing[p].chosen :
                 \A q \in reviewing[p].chosen \ {c} : Before(reviewing[p].load, c, q)
    IN
    /\ reviewing[p].at = "createAuto"
    /\ Insert(NewAssignment(a, r, 0, TRUE))
    /\ reviewing' = [reviewing EXCEPT
           ![p].pairs = @ \cup {<<a, r>>},
           ![p].load[r] = @ + 1,
           ![p].chosen = @ \ {r},
           ![p].at = IF reviewing[p].chosen = {r} THEN "nextAbstract" ELSE "createAuto"]
    /\ UNCHANGED <<active, institution>>
    /\ ElsewhereFromReviewing

-----------------------------------------------------------------------------
(* reassign cancels the assignment it has read, whatever it is by now, and *)
(* then inserts its successor.                                             *)
Reassign(p, i, r) ==
    /\ i \in Ids /\ r \in active /\ HasRoomFor(1)
    /\ BeginReviewing(p, "reassign",
           [IdleReviewing EXCEPT !.at = "checkReassign", !.id = i, !.reviewer = r,
                                 !.abstract = assignments[i].abstract])

CheckReassign(p) == Check(p, "checkReassign", "cancelOld")

(* Mutant: the old assignment is left as it is.                            *)
CancelNothing(p) ==
    /\ reviewing[p].at = "cancelOld"
    /\ GotoReviewing(p, "createSuccessor")
    /\ UNCHANGED <<active, institution, assignments>>
    /\ ElsewhereFromReviewing

CancelOld(p) ==
    /\ reviewing[p].at = "cancelOld"
    /\ Update(reviewing[p].id, "CANCELLED")
    /\ GotoReviewing(p, "createSuccessor")
    /\ UNCHANGED <<active, institution>>
    /\ ElsewhereFromReviewing

CreateSuccessor(p) ==
    /\ reviewing[p].at = "createSuccessor"
    /\ Insert(NewAssignment(reviewing[p].abstract, reviewing[p].reviewer, reviewing[p].id, FALSE))
    /\ RespondReviewing(p)
    /\ UNCHANGED <<active, institution>>
    /\ ElsewhereFromReviewing

-----------------------------------------------------------------------------
(* decline and declareConflict, by reviewer or by user: one updateMany.    *)
Decline(i) ==
    /\ Called("decline") /\ i \in Ids
    /\ Update(i, "DECLINED")
    /\ UNCHANGED <<active, institution, reviewing>>
    /\ ElsewhereFromReviewing

DeclareConflict(i) ==
    /\ Called("declareConflict") /\ i \in Ids
    /\ assignments' = [assignments EXCEPT ![i].status = "CANCELLED", ![i].conflict = TRUE]
    /\ UNCHANGED <<active, institution, reviewing>>
    /\ ElsewhereFromReviewing

(* submitReview and submitReviewByUserId.                                  *)
SubmitReview(p, i) ==
    /\ i \in Ids
    /\ assignments[i].status # "DECLINED" /\ ~assignments[i].reviewed
    /\ BeginReviewing(p, "submitReview",
                      [IdleReviewing EXCEPT !.at = "insertReview", !.id = i])

(* Mutant: the assignment is completed first and the review inserted after.*)
InsertReviewLast(p) ==
    /\ reviewing[p].at = "insertReview"
    /\ Update(reviewing[p].id, "COMPLETED")
    /\ GotoReviewing(p, "complete")
    /\ UNCHANGED <<active, institution>>
    /\ ElsewhereFromReviewing

(* Review.assignmentId is unique.                                          *)
InsertReview(p) ==
    LET i == reviewing[p].id IN
    /\ reviewing[p].at = "insertReview"
    /\ \/ /\ ~assignments[i].reviewed
          /\ assignments' = [assignments EXCEPT ![i].reviewed = TRUE]
          /\ GotoReviewing(p, "complete")
       \/ assignments[i].reviewed /\ RespondReviewing(p) /\ UNCHANGED assignments
    /\ UNCHANGED <<active, institution>>
    /\ ElsewhereFromReviewing

(* Mutant: a status of abstracts.                                          *)
CompleteAsSubmitted(p) ==
    /\ reviewing[p].at = "complete"
    /\ Update(reviewing[p].id, "SUBMITTED")
    /\ RespondReviewing(p)
    /\ UNCHANGED <<active, institution>>
    /\ ElsewhereFromReviewing

Complete(p) ==
    /\ reviewing[p].at = "complete"
    /\ Update(reviewing[p].id, "COMPLETED")
    /\ RespondReviewing(p)
    /\ UNCHANGED <<active, institution>>
    /\ ElsewhereFromReviewing

-----------------------------------------------------------------------------
AbortReviewing(p) ==
    /\ Called("abort")
    /\ reviewing[p] # IdleReviewing
    /\ RespondReviewing(p)
    /\ UNCHANGED <<active, institution, assignments>>
    /\ ElsewhereFromReviewing

BeginReview(p) ==
    \/ \E a \in Abstracts, r \in Reviewers : Assign(p, a, r)
    \/ AutoAssign(p)
    \/ \E i \in Ids, r \in Reviewers : Reassign(p, i, r)
    \/ \E i \in Ids : SubmitReview(p, i)

ContinueReviewing(p) ==
    \/ CheckAssign(p) \/ CreateAssignment(p)
    \/ ReadAbstracts(p) \/ ReadAssignments(p) \/ NextAbstract(p)
    \/ CheckCandidate(p) \/ SelectReviewers(p) \/ CreateAuto(p)
    \/ CheckReassign(p) \/ CancelOld(p) \/ CreateSuccessor(p)
    \/ InsertReview(p) \/ Complete(p)

ReviewingNext ==
    \/ \E p \in Requests : BeginReview(p) \/ ContinueReviewing(p) \/ AbortReviewing(p)
    \/ \E i \in Ids : Decline(i) \/ DeclareConflict(i)
    \/ \E r \in Reviewers : AddReviewer(r)
    \/ \E r \in Reviewers, i \in Institutions : UpdateProfile(r, i)

-----------------------------------------------------------------------------
(* Properties.                                                             *)

(* An assignment that counts as completed on the dashboard has a review,   *)
(* although review and status are written by two statements and a          *)
(* reassignment or a second click may come between them.                   *)
CompletedHasReview ==
    \A i \in Ids : assignments[i].status = "COMPLETED" => assignments[i].reviewed

(* What has been reassigned is not open beside its successor: no           *)
(* interleaving of declining, reviewing and reassigning brings the         *)
(* cancelled assignment back into the reviewer's list of open work.        *)
ReassignedIsNotOpen ==
    \A i, j \in Ids : assignments[j].from = i => assignments[i].status # "PENDING"

(* "Automatically distributes eligible abstracts as evenly as possible     *)
(* across active reviewers": from an even start, and where no conflict     *)
(* excludes anybody, no reviewer gets two abstracts more than another.     *)
AutoAssignmentIsEven ==
    \A p \in Requests :
        reviewing[p].at \in AutoSteps /\ reviewing[p].fair =>
            \A q, r \in reviewing[p].pool : reviewing[p].load[q] <= reviewing[p].load[r] + 1

(* Automatic assignment gives an abstract reviewersPerAbstract open        *)
(* reviewers; runs at the same time, which work on snapshots that do not   *)
(* show each other, multiply that by their number and no more, however     *)
(* many runs, refusals and reassignments follow each other.                *)
AutoReviewers(a) ==
    {assignments[i].reviewer : i \in {j \in Ids : /\ assignments[j].abstract = a
                                                  /\ assignments[j].auto
                                                  /\ assignments[j].status = "PENDING"}}

OpenReviewersBounded ==
    \A a \in Abstracts :
        Cardinality(AutoReviewers(a)) <= scenario.perAbstract * Cardinality(Requests)

(* How many statements at most a request still has to run: of autoAssign,  *)
(* those for the present abstract and for each that it has not come to,    *)
(* whose reviewers are all to be checked and may all be assigned.          *)
StatementsPerAbstract == 2 * Cardinality(Reviewers) + 3

ReviewingLeft(q) ==
    LET later == StatementsPerAbstract * Cardinality(q.todo) IN
    CASE q.at = "idle" -> 0
      [] q.at \in {"create", "createSuccessor", "complete"} -> 1
      [] q.at \in {"checkAssign", "cancelOld", "insertReview"} -> 2
      [] q.at = "checkReassign" -> 3
      [] q.at = "nextAbstract" -> later + 1
      [] q.at = "createAuto" -> later + 1 + Cardinality(q.chosen)
      [] q.at = "selectReviewers" -> later + 2 + Cardinality(Reviewers)
      [] q.at = "checkCandidate" -> later + 3 + Cardinality(Reviewers) + Cardinality(q.unchecked)
      [] q.at = "readAssignments" -> later + 2
      [] q.at = "readAbstracts" -> StatementsPerAbstract * Cardinality(Abstracts) + 3
=============================================================================
