----------------------------------- MODULE Jobs -----------------------------------
(***************************************************************************)
(* Export and import jobs: the row that the API inserts and enqueues, the  *)
(* worker that runs it, and the page that polls it.                        *)
(*                                                                         *)
(* BullMQ hands a job to a worker and takes it back when the worker has    *)
(* not renewed its lock in time, because it has died or because it was     *)
(* busy; then the job runs again, once more at most, and in the second     *)
(* case beside the first.  A job whose processor throws is not retried.    *)
(***************************************************************************)
EXTENDS PlatformTables

Statuses == {"NONE", "QUEUED", "RUNNING", "DONE", "FAILED"}
TerminalStatuses == {"DONE", "FAILED"}
RunSteps == {"idle", "run", "download", "row", "create", "upload", "finish",
             "failReport", "fail"}

IdleRun == [at |-> "idle", job |-> 0, row |-> 0, processed |-> 0, failed |-> 0,
            file |-> FALSE]

(* A job's file is its result, or the report on its errors.                *)
NoJob == [status |-> "NONE", file |-> FALSE, processed |-> 0, failed |-> 0]
NotQueued == [at |-> "none", worker |-> Nobody, stalls |-> 0]
PollOff == [job |-> 0, attempts |-> 0, at |-> "off"]

JobsTypeOK ==
    /\ jobs \in [Jobs -> [status : Statuses, file : BOOLEAN, processed : Nat, failed : Nat]]
    /\ queue \in [Jobs -> [at : {"none", "waiting", "active", "finished"},
                           worker : Workers \cup {Nobody}, stalls : 0 .. 1]]
    /\ runs \in [Workers -> [at : RunSteps, job : Jobs \cup {0}, row : Nat,
                             processed : Nat, failed : Nat, file : BOOLEAN]]
    /\ authorRows \in [Emails -> Nat]
    /\ reviewerRows \in SUBSET Emails
    /\ poll \in [job : Jobs \cup {0}, attempts : 0 .. MaxAttempts,
                 at : {"off", "fetching", "waiting", "ended", "gaveUp"}]
    /\ crashes \in 0 .. MaxCrashes

JobsInit ==
    /\ jobs = [j \in Jobs |-> NoJob]
    /\ queue = [j \in Jobs |-> NotQueued]
    /\ runs = [w \in Workers |-> IdleRun]
    /\ authorRows = [e \in Emails |-> 0]
    /\ reviewerRows = {}
    /\ poll = PollOff
    /\ crashes = 0

-----------------------------------------------------------------------------
ElsewhereFromJobs == UNCHANGED <<scenario, accountVars, reminderVars, trackVars>>

(* create inserts the row and then enqueues it; when Redis does not take   *)
(* it, the row stays.                                                      *)
CreateJob(j) ==
    /\ j \in scenario.jobs
    /\ jobs[j].status = "NONE"
    /\ \A i \in scenario.jobs : i < j => jobs[i].status # "NONE"
    /\ jobs' = [jobs EXCEPT ![j].status = "QUEUED"]
    /\ UNCHANGED <<queue, runs, importTables, poll, crashes>>
    /\ ElsewhereFromJobs

Enqueue(j) ==
    /\ jobs[j].status = "QUEUED" /\ queue[j] = NotQueued
    /\ queue' = [queue EXCEPT ![j].at = "waiting"]
    /\ UNCHANGED <<jobs, runs, importTables, poll, crashes>>
    /\ ElsewhereFromJobs

-----------------------------------------------------------------------------
(* The workers' processors.                                                *)
ElsewhereFromRuns == UNCHANGED <<poll, crashes>> /\ ElsewhereFromJobs

Step(w, to) == runs' = [runs EXCEPT ![w].at = to]

TakeJob(w, j) ==
    /\ w \in scenario.workers
    /\ runs[w] = IdleRun
    /\ queue[j].at = "waiting"
    /\ queue' = [queue EXCEPT ![j].at = "active", ![j].worker = w]
    /\ runs' = [runs EXCEPT ![w] = [IdleRun EXCEPT !.at = "run", !.job = j]]
    /\ UNCHANGED <<jobs, importTables>>
    /\ ElsewhereFromRuns

(* Only the holder of the lock finishes the job.                           *)
Finish(w) ==
    LET j == runs[w].job IN
    /\ runs' = [runs EXCEPT ![w] = IdleRun]
    /\ queue' = IF queue[j].at = "active" /\ queue[j].worker = w
                THEN [queue EXCEPT ![j].at = "finished"] ELSE queue

SetRunning(w) ==
    /\ runs[w].at = "run"
    /\ jobs' = [jobs EXCEPT ![runs[w].job].status = "RUNNING"]
    /\ Step(w, IF JobType[runs[w].job] = "EXPORT" THEN "upload" ELSE "download")
    /\ UNCHANGED <<queue, importTables>>
    /\ ElsewhereFromRuns

Rows(w) == JobRows[runs[w].job]

(* An import reads its source file, or cannot.                             *)
Download(w) ==
    /\ runs[w].at = "download"
    /\ \/ Step(w, "row")
       \/ Called("storageFails") /\ Step(w, "failReport")
    /\ UNCHANGED <<jobs, queue, importTables>>
    /\ ElsewhereFromRuns

NextRow(w, good) ==
    runs' = [runs EXCEPT ![w].at = "row", ![w].row = @ + 1,
                         ![w].processed = IF good THEN @ + 1 ELSE @,
                         ![w].failed = IF good THEN @ ELSE @ + 1]

(* Mutant: a row of the import always creates an author.                   *)
FindAuthorNever(w) ==
    /\ runs[w].at = "row" /\ runs[w].row < Len(Rows(w))
    /\ Step(w, "create")
    /\ UNCHANGED <<jobs, queue, importTables>>
    /\ ElsewhereFromRuns

(* processAuthorRow and processReviewerRow look for a row of theirs; an    *)
(* author that is there is updated, a reviewer left as it is.  A row that  *)
(* is not valid, or a reviewer's who is no user, goes into the report.     *)
FindRow(w) ==
    LET row == runs[w].row + 1
        found == IF JobType[runs[w].job] = "AUTHORS" THEN authorRows[Rows(w)[row]] > 0
                 ELSE Rows(w)[row] \in reviewerRows
    IN
    /\ runs[w].at = "row" /\ row <= Len(Rows(w))
    /\ \/ IF found THEN NextRow(w, TRUE) ELSE Step(w, "create")
       \/ Called("invalidRow") /\ NextRow(w, FALSE)
    /\ UNCHANGED <<jobs, queue, importTables>>
    /\ ElsewhereFromRuns

(* Reviewer has a unique index, Author has none.                           *)
CreateRow(w) ==
    LET e == Rows(w)[runs[w].row + 1]
        author == JobType[runs[w].job] = "AUTHORS"
    IN
    /\ runs[w].at = "create"
    /\ authorRows' = IF author THEN [authorRows EXCEPT ![e] = @ + 1] ELSE authorRows
    /\ reviewerRows' = IF author THEN reviewerRows ELSE reviewerRows \cup {e}
    /\ NextRow(w, author \/ e \notin reviewerRows)
    /\ UNCHANGED <<jobs, queue>>
    /\ ElsewhereFromRuns

EndRows(w) ==
    /\ runs[w].at = "row" /\ runs[w].row = Len(Rows(w))
    /\ Step(w, IF runs[w].failed > 0 THEN "upload" ELSE "finish")
    /\ UNCHANGED <<jobs, queue, importTables>>
    /\ ElsewhereFromRuns

(* An export's file or an import's report: the object, then its File row.  *)
(* An error sends the export to its FAILED, the import to a last report.   *)
Upload(w) ==
    /\ runs[w].at = "upload"
    /\ \/ runs' = [runs EXCEPT ![w].at = "finish", ![w].file = TRUE]
       \/ /\ Called("storageFails")
          /\ Step(w, IF JobType[runs[w].job] = "EXPORT" THEN "fail" ELSE "failReport")
    /\ UNCHANGED <<jobs, queue, importTables>>
    /\ ElsewhereFromRuns

(* Mutant: the report of an earlier attempt is left in the row.            *)
FinishDoneKeepsReport(w) ==
    /\ runs[w].at = "finish"
    /\ jobs' = [jobs EXCEPT ![runs[w].job] =
                   [status |-> "DONE", file |-> @.file \/ runs[w].file,
                    processed |-> runs[w].processed, failed |-> runs[w].failed]]
    /\ Finish(w)
    /\ UNCHANGED importTables
    /\ ElsewhereFromRuns

FinishDone(w) ==
    /\ runs[w].at = "finish"
    /\ jobs' = [jobs EXCEPT ![runs[w].job] =
                   [status |-> "DONE", file |-> runs[w].file,
                    processed |-> runs[w].processed, failed |-> runs[w].failed]]
    /\ Finish(w)
    /\ UNCHANGED importTables
    /\ ElsewhereFromRuns

(* The import reports its own failure in a file; when that fails too, the  *)
(* row is left as it is.                                                   *)
FailReport(w) ==
    /\ runs[w].at = "failReport"
    /\ \/ runs' = [runs EXCEPT ![w].at = "fail", ![w].file = TRUE] /\ UNCHANGED queue
       \/ Called("storageFails") /\ Finish(w)
    /\ UNCHANGED <<jobs, importTables>>
    /\ ElsewhereFromRuns

(* Mutant: the error is logged, and nothing is written.                    *)
FinishFailedSilently(w) ==
    /\ runs[w].at = "fail"
    /\ Finish(w)
    /\ UNCHANGED <<jobs, importTables>>
    /\ ElsewhereFromRuns

FinishFailed(w) ==
    /\ runs[w].at = "fail"
    /\ jobs' = [jobs EXCEPT ![runs[w].job].status = "FAILED",
                            ![runs[w].job].file = @ \/ runs[w].file]
    /\ Finish(w)
    /\ UNCHANGED importTables
    /\ ElsewhereFromRuns

-----------------------------------------------------------------------------
(* What BullMQ and the operating system do to workers.  Neither lock nor   *)
(* queue is code of this repository.                                       *)
HolderIsGone(j) == queue[j].at = "active" /\ runs[queue[j].worker].job # j

Stall(j) ==
    /\ queue[j].at = "active"
    /\ ~HolderIsGone(j) => Called("stall")
    /\ queue' = IF queue[j].stalls = 0
                THEN [queue EXCEPT ![j] = [at |-> "waiting", worker |-> Nobody, stalls |-> 1]]
                ELSE [queue EXCEPT ![j].at = "finished"]
    /\ UNCHANGED <<jobs, runs, importTables>>
    /\ ElsewhereFromRuns

Crash(w) ==
    /\ crashes < MaxCrashes /\ Called("crash")
    /\ runs[w] # IdleRun
    /\ crashes' = crashes + 1
    /\ runs' = [runs EXCEPT ![w] = IdleRun]
    /\ UNCHANGED <<jobs, queue, importTables, poll>>
    /\ ElsewhereFromJobs

-----------------------------------------------------------------------------
(* useJobPolling: a page fetches the job, and again after each interval,   *)
(* until it has ended or has been seen MaxAttempts times.                  *)
StartPolling(j) ==
    /\ Called("poll") /\ poll = PollOff /\ jobs[j].status # "NONE"
    /\ poll' = [job |-> j, attempts |-> 0, at |-> "fetching"]
    /\ UNCHANGED <<jobs, queue, runs, importTables, crashes>>
    /\ ElsewhereFromJobs

(* Mutant: one attempt too many.                                           *)
PollOnceMore ==
    /\ poll.at = "fetching"
    /\ poll' = [poll EXCEPT !.attempts = @ + 1,
                            !.at = IF jobs[poll.job].status \in TerminalStatuses THEN "ended"
                                   ELSE IF poll.attempts >= MaxAttempts THEN "gaveUp"
                                   ELSE "waiting"]
    /\ UNCHANGED <<jobs, queue, runs, importTables, crashes>>
    /\ ElsewhereFromJobs

(* A fetch that is answered is counted.                                    *)
Poll ==
    /\ poll.at = "fetching"
    /\ poll' = [poll EXCEPT !.attempts = @ + 1,
                            !.at = IF jobs[poll.job].status \in TerminalStatuses THEN "ended"
                                   ELSE IF poll.attempts + 1 >= MaxAttempts THEN "gaveUp"
                                   ELSE "waiting"]
    /\ UNCHANGED <<jobs, queue, runs, importTables, crashes>>
    /\ ElsewhereFromJobs

PollGoto(from, to) ==
    /\ poll.at = from
    /\ poll' = [poll EXCEPT !.at = to]
    /\ UNCHANGED <<jobs, queue, runs, importTables, crashes>>
    /\ ElsewhereFromJobs

Fetch == PollGoto("waiting", "fetching")

(* One that fails, its retries included, leaves what the query knows, if it*)
(* knows anything, as it was: it is not counted, and the interval goes on. *)
FetchFails == Called("fetchFails") /\ PollGoto("fetching", "waiting")

ContinueRun(w) ==
    \/ SetRunning(w) \/ Download(w) \/ FindRow(w) \/ CreateRow(w) \/ EndRows(w)
    \/ Upload(w) \/ FinishDone(w) \/ FailReport(w) \/ FinishFailed(w)

Deliver == \E w \in Workers, j \in Jobs : TakeJob(w, j)

JobsNext ==
    \/ \E j \in Jobs : CreateJob(j) \/ Enqueue(j) \/ Stall(j) \/ StartPolling(j)
    \/ Deliver
    \/ \E w \in Workers : ContinueRun(w) \/ Crash(w)
    \/ Fetch \/ Poll \/ FetchFails

-----------------------------------------------------------------------------
(* Properties.                                                             *)

(* What a job says when it is DONE is true of one attempt at it, although  *)
(* an earlier one may have been cut off, or have failed, or still be       *)
(* running: an export has its file, an import has accounted for each of    *)
(* its rows and has a report just when one of them failed.                 *)
DoneAccountsForRows ==
    \A j \in Jobs : jobs[j].status = "DONE" =>
        IF JobType[j] = "EXPORT" THEN jobs[j].file
        ELSE /\ jobs[j].processed + jobs[j].failed = Len(JobRows[j])
             /\ jobs[j].file <=> jobs[j].failed > 0

(* A job that runs again repeats nothing: however often a file is imported,*)
(* and in how many files or rows an email stands, it gets one author, but  *)
(* for workers that look for it at the same time.  (A row without an email *)
(* has nothing to be found by, and is not among JobRows.)                  *)
ImportRepeatsNothing ==
    \A e \in Emails : authorRows[e] <= Cardinality(scenario.workers)

(* A job that BullMQ has finished with and no worker runs any more has     *)
(* ended: its row is DONE or FAILED, although its run was taken back and   *)
(* went on beside another one.  What can leave it QUEUED or RUNNING for    *)
(* ever is a storage that does not take an import's last report, the death *)
(* of two workers, or of one on a job that was taken from another before.  *)
NoJobIsLost ==
    \A j \in Jobs :
        queue[j].at = "finished" /\ (\A w \in Workers : runs[w].job # j) =>
            \/ jobs[j].status \in TerminalStatuses
            \/ JobType[j] # "EXPORT" /\ Called("storageFails")
            \/ crashes > 1
            \/ crashes > 0 /\ Called("stall")

(* How often BullMQ can still do something with a job, and how many        *)
(* statements a run has still before it, whatever fails in it.             *)
QueueLeft(q) ==
    CASE q.at = "none" -> 5
      [] q.at = "waiting" -> 4 - 2 * q.stalls
      [] q.at = "active" -> 3 - 2 * q.stalls
      [] q.at = "finished" -> 0

RunLeft(r) ==
    LET rows == Len(JobRows[r.job]) - r.row IN
    CASE r.at = "run" -> 6 + 2 * rows
      [] r.at = "download" -> 5 + 2 * rows
      [] r.at = "row" -> 4 + 2 * rows
      [] r.at = "create" -> 3 + 2 * rows
      [] r.at = "upload" -> 3
      [] r.at = "failReport" -> 2
      [] r.at \in {"finish", "fail"} -> 1
      [] r.at = "idle" -> 0

(* Jobs cannot go round in circles: whatever the queue or a worker does,   *)
(* deaths and locks that are lost included, no job has more before it in   *)
(* the queue, and either one has less, or one run has, and no other has    *)
(* changed.                                                                *)
JobsProgress ==
    /\ \A j \in Jobs : QueueLeft(queue'[j]) <= QueueLeft(queue[j])
    /\ \/ \E j \in Jobs : QueueLeft(queue'[j]) < QueueLeft(queue[j])
       \/ \E w \in Workers : /\ RunLeft(runs'[w]) < RunLeft(runs[w])
                             /\ \A v \in Workers \ {w} : runs'[v] = runs[v]

JobsAreProgress == [][JobsProgress]_<<queue, runs>>
=============================================================================
