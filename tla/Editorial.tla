-------------------------------- MODULE Editorial --------------------------------
(***************************************************************************)
(* From the call for abstracts to the programme: submissions, reviews and  *)
(* scheduling over the same tables.  Reviewing reads the authors and the   *)
(* status of abstracts, Programme their status and the settings; none      *)
(* waits for another, so whatever the others do may come between any two   *)
(* of its statements.                                                      *)
(***************************************************************************)
EXTENDS Submissions, Reviewing, Programme

Init ==
    /\ scenario \in Scenarios
    /\ SubmissionsInit
    /\ ReviewingInit
    /\ ProgrammeInit

Next == SubmissionsNext \/ ReviewingNext \/ ProgrammeNext

Spec == Init /\ [][Next]_vars

(* Node's event loop resumes a request whose statement has been answered,  *)
(* and none of these statements waits for another request.                 *)
FairSpec ==
    /\ Spec
    /\ \A p \in Requests : /\ WF_vars(ContinueWriting(p))
                           /\ WF_vars(ContinueReviewing(p))
                           /\ WF_vars(ContinueScheduling(p))

TypeOK == SubmissionsTypeOK /\ ReviewingTypeOK /\ ProgrammeTypeOK

(* Every request is answered: the search for a submission number ends, and *)
(* so does the automatic assignment, whatever others write meanwhile.      *)
EditorialRequestsEnd ==
    \A p \in Requests : /\ []<>(writing[p] = IdleWriting)
                        /\ []<>(reviewing[p] = IdleReviewing)
                        /\ []<>(scheduling[p] = IdleScheduling)

(* Every statement brings its request nearer to its answer, the search for *)
(* a submission number and the loops of the automatic assignment included, *)
(* and nothing that others do puts it further away.                        *)
StatementsAreProgress ==
    [][\A p \in Requests :
          /\ ContinueWriting(p) => WritingLeft(writing'[p]) < WritingLeft(writing[p])
          /\ ContinueReviewing(p) => ReviewingLeft(reviewing'[p]) < ReviewingLeft(reviewing[p])
          /\ ContinueScheduling(p) => SchedulingLeft(scheduling'[p]) < SchedulingLeft(scheduling[p])
          /\ writing[p] # IdleWriting => WritingLeft(writing'[p]) <= WritingLeft(writing[p])
          /\ reviewing[p] # IdleReviewing =>
                 ReviewingLeft(reviewing'[p]) <= ReviewingLeft(reviewing[p])
          /\ scheduling[p] # IdleScheduling =>
                 SchedulingLeft(scheduling'[p]) <= SchedulingLeft(scheduling[p])]_vars
=============================================================================
