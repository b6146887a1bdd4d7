--------------------------------- MODULE Platform ---------------------------------
(***************************************************************************)
(* Accounts, jobs, reminders and tracks over one set of tables.            *)
(***************************************************************************)
EXTENDS Accounts, Jobs, Reminders, Tracks

Init ==
    /\ scenario \in Scenarios
    /\ AccountsInit
    /\ JobsInit
    /\ RemindersInit
    /\ TracksInit

Next == AccountsNext \/ JobsNext \/ RemindersNext \/ TracksNext

Spec == Init /\ [][Next]_vars

(* BullMQ delivers what waits and takes back the job of a worker that is   *)
(* gone; Node resumes a processor whose statement has been answered; a page*)
(* polls, and its fetch is answered or fails.  Nobody has to create a job, *)
(* and nothing keeps fetches from failing.                                 *)
FairSpec ==
    /\ Spec
    /\ \A w \in Workers : WF_vars(ContinueRun(w))
    /\ \A j \in Jobs : /\ WF_vars(\E w \in Workers : TakeJob(w, j))
                       /\ WF_vars(HolderIsGone(j) /\ Stall(j))
    /\ WF_vars(Fetch)
    /\ WF_vars(Poll \/ FetchFails)

TypeOK == AccountsTypeOK /\ JobsTypeOK /\ RemindersTypeOK /\ TracksTypeOK

(* A job that is in the queue is DONE or FAILED some day, although a       *)
(* worker died on it; but for an import that could not store the report on *)
(* its failure, and for a second death, after which BullMQ gives up.  And  *)
(* whatever becomes of the job, the page that polls it stops, unless its   *)
(* fetches fail again and again: only answers are counted.  ("Never poll   *)
(* forever", the hook says, and the limit on attempts is for that; a page  *)
(* whose fetches all fail does poll for ever.)                             *)
EnqueuedJobsEnd ==
    /\ \A j \in Jobs :
          queue[j].at = "waiting" ~>
              \/ jobs[j].status \in TerminalStatuses
              \/ JobType[j] # "EXPORT" /\ Called("storageFails")
              \/ crashes > 1
    /\ \/ poll.at = "fetching" ~> poll.at \in {"ended", "gaveUp"}
       \/ []<><<FetchFails>>_vars
=============================================================================
