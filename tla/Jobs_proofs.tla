------------------------------ MODULE Jobs_proofs ------------------------------
(***************************************************************************)
(* What a step of one service leaves alone, which the proofs about every   *)
(* service cite; then the proofs about export and import jobs, for any     *)
(* jobs, files and workers.                                                *)
(***************************************************************************)
EXTENDS Platform, TLAPS, FiniteSetTheorems

(* The steps of the users' services and of the web server.                 *)
LEMMA UsersOrWeb ==
  ASSUME AccountsNext
  PROVE  ElsewhereFromUsers \/ ElsewhereFromWeb
  <1>1. ASSUME NEW p \in Requests, BeginAccounting(p)
        PROVE  ElsewhereFromUsers
    BY <1>1 DEF BeginAccounting, InviteMember, CreateOrganization, Register,
                RequestPasswordReset, ConfirmPasswordReset, BeginAccount
  <1>2. ASSUME NEW p \in Requests, ContinueAccount(p)
        PROVE  ElsewhereFromUsers
    BY <1>2 DEF ContinueAccount, CreateUser, CreateToken, FindMembership, CreateMembership,
                CommitOrganization, CreateAccount, CreateReset, SetPassword,
                AcceptInvitations, MarkUsed, RevokeAll
  <1>3. ASSUME NEW p \in Requests, AbortAccount(p)
        PROVE  ElsewhereFromUsers
    BY <1>3 DEF AbortAccount
  <1>4. ASSUME NEW o \in Organizations, NEW u \in Users, NEW new \in {"ACTIVE", "DEACTIVATED"},
               UpdateMembershipStatus(o, u, new)
        PROVE  ElsewhereFromUsers
    BY <1>4 DEF UpdateMembershipStatus
  <1>5. ASSUME NEW s \in DOMAIN sessionRows, NEW call, NEW why, EndSession(s, call, why)
        PROVE  ElsewhereFromUsers
    BY <1>5 DEF EndSession
  <1>6. ASSUME NEW u \in Users, NEW token \in resetTokens[u], TokenExpires(u, token)
        PROVE  ElsewhereFromUsers
    BY <1>6 DEF TokenExpires
  <1>7. ASSUME NEW w \in WebRequests,
               \/ \E u \in Users : Login(w, u)
               \/ CallProxy(w) \/ CallRefresh(w) \/ CallLogout(w)
        PROVE  ElsewhereFromWeb
    BY <1>7 DEF Login, CallProxy, CallRefresh, CallLogout, BeginWeb
  <1>8. ASSUME NEW w \in WebRequests, ContinueWeb(w) \/ AbortWeb(w)
        PROVE  ElsewhereFromWeb
    BY <1>8 DEF ContinueWeb, Forward, FindSession, RevokeUsed, IssueSession, Respond,
                Logout, ClearCookies, AbortWeb
  <1> QED
    BY <1>1, <1>2, <1>3, <1>4, <1>5, <1>6, <1>7, <1>8 DEF AccountsNext

LEMMA AccountsElsewhere ==
  ASSUME AccountsNext
  PROVE  UNCHANGED <<scenario, jobVars, reminderVars, trackVars>>
  BY UsersOrWeb DEF ElsewhereFromUsers, ElsewhereFromWeb

(* The steps of jobs, workers and the page.                                *)
LEMMA JobsElsewhere ==
  ASSUME JobsNext
  PROVE  UNCHANGED <<scenario, accountVars, reminderVars, trackVars>>
  <1>1. ASSUME NEW j \in Jobs, CreateJob(j) \/ Enqueue(j) \/ Stall(j) \/ StartPolling(j)
        PROVE  ElsewhereFromJobs
    BY <1>1 DEF CreateJob, Enqueue, Stall, StartPolling, ElsewhereFromRuns
  <1>2. ASSUME Deliver
        PROVE  ElsewhereFromJobs
    BY <1>2 DEF Deliver, TakeJob, ElsewhereFromRuns
  <1>3. ASSUME NEW w \in Workers, ContinueRun(w)
        PROVE  ElsewhereFromJobs
    BY <1>3 DEF ContinueRun, SetRunning, Download, FindRow, CreateRow, EndRows, Upload,
                FinishDone, FailReport, FinishFailed, ElsewhereFromRuns
  <1>4. ASSUME NEW w \in Workers, Crash(w)
        PROVE  ElsewhereFromJobs
    BY <1>4 DEF Crash
  <1>5. ASSUME Fetch \/ Poll \/ FetchFails
        PROVE  ElsewhereFromJobs
    BY <1>5 DEF Fetch, Poll, FetchFails, PollGoto
  <1> QED
    BY <1>1, <1>2, <1>3, <1>4, <1>5 DEF JobsNext, ElsewhereFromJobs

(* The steps of the scheduler, the listener and the email worker.          *)
LEMMA RemindersElsewhere ==
  ASSUME RemindersNext
  PROVE  UNCHANGED <<scenario, accountVars, jobVars, trackVars>>
  <1>1. ElsewhereFromReminders
    BY DEF RemindersNext, StartCron, ContinueCron, FindNotification, EndCron, ContinueHandler,
           ResolveTemplate, EnqueueMail, Notify, ClearMine, FailHandler, FailCron,
           AbortReminders, ContinueMail, TakeMail, SendMail, RedeliverMail, MailGoes
  <1> QED
    BY <1>1 DEF ElsewhereFromReminders

(* The steps of the service of tracks.                                     *)
LEMMA TracksElsewhere ==
  ASSUME TracksNext
  PROVE  UNCHANGED <<scenario, accountVars, jobVars, reminderVars>>
  <1>1. ElsewhereFromTracks
    BY DEF TracksNext, BeginTracks, CountTracks, ReorderTracks, BeginOrdering,
           ContinueOrdering, CreateTrack, FindTracks, WritePlace, FailPlace, Settles,
           AbortOrdering
  <1> QED
    BY <1>1 DEF ElsewhereFromTracks

(* What is known of a scenario.                                            *)
ScenarioOK == scenario \in Scenarios

LEMMA ScenarioType ==
  ASSUME ScenarioOK
  PROVE  /\ scenario.workers \in SUBSET Workers
         /\ scenario.registered \in SUBSET Users
         /\ scenario.organizations \in SUBSET Organizations
  BY PlatformAssumption DEF ScenarioOK

LEMMA ScenarioStays ==
  ASSUME [Next]_vars
  PROVE  UNCHANGED scenario
  BY AccountsElsewhere, JobsElsewhere, RemindersElsewhere, TracksElsewhere DEF Next, vars

(* A service's tables change in its own steps only.                        *)
LEMMA StepsOfAccounts ==
  ASSUME [Next]_vars
  PROVE  AccountsNext \/ UNCHANGED accountVars
  BY JobsElsewhere, RemindersElsewhere, TracksElsewhere DEF Next, vars

LEMMA StepsOfJobs ==
  ASSUME [Next]_vars
  PROVE  JobsNext \/ UNCHANGED jobVars
  BY AccountsElsewhere, RemindersElsewhere, TracksElsewhere DEF Next, vars

LEMMA StepsOfReminders ==
  ASSUME [Next]_vars
  PROVE  RemindersNext \/ UNCHANGED reminderVars
  BY AccountsElsewhere, JobsElsewhere, TracksElsewhere DEF Next, vars

LEMMA StepsOfTracks ==
  ASSUME [Next]_vars
  PROVE  TracksNext \/ UNCHANGED trackVars
  BY AccountsElsewhere, JobsElsewhere, RemindersElsewhere DEF Next, vars

-----------------------------------------------------------------------------

(* What a worker knows at each step of its run.                            *)
RunOK(w) ==
    LET r == runs[w]
        import == JobType[r.job] # "EXPORT"
        rows == Len(JobRows[r.job])
    IN
    /\ r.at # "idle" => r.job \in Jobs /\ w \in scenario.workers
    /\ r.at \in {"run", "download"} => r.row = 0 /\ r.processed = 0 /\ r.failed = 0 /\ ~r.file
    /\ r.at = "download" => import
    /\ r.at \in {"row", "create"} =>
          /\ import /\ ~r.file
          /\ r.processed + r.failed = r.row /\ r.row <= rows
    /\ r.at = "create" => r.row < rows
    /\ r.at = "upload" =>
          /\ ~r.file
          /\ import => r.processed + r.failed = rows /\ r.failed > 0
    /\ r.at = "finish" =>
          IF import THEN r.processed + r.failed = rows /\ (r.file <=> r.failed > 0)
          ELSE r.file

RunsOK == \A w \in Workers : RunOK(w)

PollOK == poll.at \in {"fetching", "waiting"} => poll.attempts < MaxAttempts

(* The workers that have found no author with this email and will create   *)
(* one.                                                                    *)
CreatesAuthor(w, e) ==
    /\ runs[w].at = "create" /\ JobType[runs[w].job] = "AUTHORS"
    /\ JobRows[runs[w].job][runs[w].row + 1] = e

Creating(e) == {w \in scenario.workers : CreatesAuthor(w, e)}

AuthorsCounted ==
    \A e \in Emails :
        authorRows[e] + Cardinality(Creating(e)) <= Cardinality(scenario.workers)

JobsInv ==
    ScenarioOK /\ JobsTypeOK /\ RunsOK /\ PollOK /\ DoneAccountsForRows /\ AuthorsCounted

-----------------------------------------------------------------------------
(* A worker's step.                                                        *)

RunType == [at : RunSteps, job : Jobs \cup {0}, row : Nat,
            processed : Nat, failed : Nat, file : BOOLEAN]

LEMMA RunTyped ==
  ASSUME JobsTypeOK, NEW w \in Workers
  PROVE  runs[w] \in RunType
  BY DEF JobsTypeOK, RunType

LEMMA IdleRunType == IdleRun \in RunType /\ IdleRun.at = "idle"
  BY DEF IdleRun, RunType, RunSteps

(* One worker's record changes, and keeps what it knows.                   *)
LEMMA OneRun ==
  ASSUME JobsTypeOK, RunsOK, UNCHANGED scenario,
         NEW w \in Workers, NEW r \in RunType, runs' = [runs EXCEPT ![w] = r],
         r.at # "idle" => RunOK(w)'
  PROVE  runs' \in [Workers -> RunType] /\ RunsOK'
  <1>1. runs' \in [Workers -> RunType] /\ runs'[w] = r
    BY DEF JobsTypeOK, RunType
  <1>2. ASSUME NEW v \in Workers
        PROVE  RunOK(v)'
    <2>1. CASE v # w
      <3>1. runs'[v] = runs[v]
        BY <2>1 DEF JobsTypeOK
      <3> QED
        BY <3>1 DEF RunsOK, RunOK
    <2>2. CASE v = w /\ r.at = "idle"
      BY <1>1, <2>2 DEF RunOK
    <2>3. CASE v = w /\ r.at # "idle"
      BY <2>3
    <2> QED
      BY <2>1, <2>2, <2>3
  <1> QED
    BY <1>1, <1>2 DEF RunsOK

LEMMA RowsType ==
  ASSUME NEW j \in Jobs
  PROVE  /\ Len(JobRows[j]) \in Nat
         /\ JobType[j] \in {"EXPORT", "AUTHORS", "REVIEWERS"}
         /\ \A i \in Nat : i < Len(JobRows[j]) => JobRows[j][i + 1] \in Emails
  BY PlatformAssumption

(* One lemma for each step of a worker: it keeps the types, and what it    *)
(* writes into the job's row is so.                                        *)
RunResult ==
    /\ runs' \in [Workers -> RunType] /\ RunsOK'
    /\ jobs' \in [Jobs -> [status : Statuses, file : BOOLEAN, processed : Nat, failed : Nat]]
    /\ DoneAccountsForRows'

LEMMA JobsUntouched ==
  ASSUME JobsInv, UNCHANGED jobs
  PROVE  /\ jobs' \in [Jobs -> [status : Statuses, file : BOOLEAN, processed : Nat, failed : Nat]]
         /\ DoneAccountsForRows'
  BY DEF JobsInv, JobsTypeOK, DoneAccountsForRows

(* A row that becomes something other than DONE claims nothing.            *)
LEMMA OneJob ==
  ASSUME JobsInv, NEW j \in Jobs,
         NEW row \in [status : Statuses, file : BOOLEAN, processed : Nat, failed : Nat],
         jobs' = [jobs EXCEPT ![j] = row],
         row.status = "DONE" =>
            IF JobType[j] = "EXPORT" THEN row.file
            ELSE /\ row.processed + row.failed = Len(JobRows[j])
                 /\ row.file <=> row.failed > 0
  PROVE  /\ jobs' \in [Jobs -> [status : Statuses, file : BOOLEAN, processed : Nat, failed : Nat]]
         /\ DoneAccountsForRows'
  BY DEF JobsInv, JobsTypeOK, DoneAccountsForRows

LEMMA SetRunningStep ==
  ASSUME JobsInv, NEW w \in Workers, SetRunning(w)
  PROVE  RunResult
  <1> DEFINE r == runs[w]
             new == [r EXCEPT !.at = IF JobType[r.job] = "EXPORT" THEN "upload" ELSE "download"]
             row == [jobs[r.job] EXCEPT !.status = "RUNNING"]
  <1>1. r \in RunType /\ r.at = "run" /\ RunOK(w) /\ UNCHANGED scenario
    BY RunTyped DEF JobsInv, RunsOK, SetRunning, ElsewhereFromRuns, ElsewhereFromJobs
  <1>2. runs' = [runs EXCEPT ![w] = new] /\ jobs' = [jobs EXCEPT ![r.job] = row]
    BY DEF SetRunning, Step
  <1>3. r.job \in Jobs /\ row \in [status : Statuses, file : BOOLEAN, processed : Nat, failed : Nat]
        /\ row.status = "RUNNING"
    BY <1>1 DEF RunOK, JobsInv, JobsTypeOK, Statuses
  <1>4. new \in RunType
    BY <1>1 DEF RunType, RunSteps
  <1>5. RunOK(w)'
    BY <1>1, <1>2, <1>4 DEF RunOK, RunType, JobsInv, JobsTypeOK
  <1> HIDE DEF new, row
  <1>6. runs' \in [Workers -> RunType] /\ RunsOK'
    BY <1>1, <1>2, <1>4, <1>5, OneRun DEF JobsInv
  <1> QED
    BY <1>2, <1>3, <1>6, OneJob DEF RunResult

LEMMA DownloadStep ==
  ASSUME JobsInv, NEW w \in Workers, Download(w)
  PROVE  RunResult
  <1> DEFINE r == runs[w]
  <1>1. r \in RunType /\ r.at = "download" /\ RunOK(w) /\ UNCHANGED <<scenario, jobs>>
    BY RunTyped DEF JobsInv, RunsOK, Download, ElsewhereFromRuns, ElsewhereFromJobs
  <1>2. PICK at \in {"row", "failReport"} : runs' = [runs EXCEPT ![w] = [r EXCEPT !.at = at]]
    BY DEF Download, Step
  <1>3. [r EXCEPT !.at = at] \in RunType
    BY <1>1 DEF RunType, RunSteps
  <1>4. RunOK(w)'
    BY <1>1, <1>2, <1>3, RowsType DEF RunOK, RunType, JobsInv, JobsTypeOK
  <1>5. runs' \in [Workers -> RunType] /\ RunsOK'
    BY <1>1, <1>2, <1>3, <1>4, OneRun DEF JobsInv
  <1> QED
    BY <1>1, <1>5, JobsUntouched DEF RunResult

LEMMA RowDone ==
  ASSUME NEW r \in RunType, NEW row \in Nat, NEW processed \in Nat, NEW failed \in Nat
  PROVE  [r EXCEPT !.at = "row", !.row = row, !.processed = processed, !.failed = failed]
            \in RunType
  BY DEF RunType, RunSteps

LEMMA NextRowStep ==
  ASSUME JobsInv, UNCHANGED scenario, NEW w \in Workers, NEW good \in BOOLEAN,
         runs[w].at \in {"row", "create"}, runs[w].row < Len(Rows(w)), NextRow(w, good)
  PROVE  runs' \in [Workers -> RunType] /\ RunsOK'
  <1> DEFINE r == runs[w]
             processed == IF good THEN r.processed + 1 ELSE r.processed
             failed == IF good THEN r.failed ELSE r.failed + 1
             new == [r EXCEPT !.at = "row", !.row = r.row + 1, !.processed = processed,
                              !.failed = failed]
  <1>1. r \in RunType /\ RunOK(w)
    BY RunTyped DEF JobsInv, RunsOK
  <1>2. processed \in Nat /\ failed \in Nat /\ processed + failed = r.processed + r.failed + 1
    BY <1>1 DEF RunType
  <1>3. runs' = [runs EXCEPT ![w] = new]
    BY DEF NextRow
  <1> HIDE DEF processed, failed
  <1>4. new \in RunType
    <2>1. r.row + 1 \in Nat
      BY <1>1 DEF RunType
    <2> QED
      BY <1>1, <1>2, <2>1, RowDone
  <1>5. runs'[w] = new
    BY <1>3 DEF JobsInv, JobsTypeOK
  <1>6. RunOK(w)'
    BY <1>1, <1>2, <1>5, RowsType DEF RunOK, RunType, Rows
  <1> HIDE DEF new
  <1> QED
    BY <1>3, <1>4, <1>6, OneRun DEF JobsInv

LEMMA FindRowStep ==
  ASSUME JobsInv, NEW w \in Workers, FindRow(w)
  PROVE  RunResult
  <1> DEFINE r == runs[w]
             new == [r EXCEPT !.at = "create"]
  <1>1. /\ r \in RunType /\ r.at = "row" /\ RunOK(w) /\ UNCHANGED <<scenario, jobs>>
        /\ r.row + 1 <= Len(JobRows[r.job])
    BY RunTyped DEF JobsInv, RunsOK, FindRow, ElsewhereFromRuns, ElsewhereFromJobs, Rows
  <1>2. r.job \in Jobs /\ r.row < Len(Rows(w))
    BY <1>1, RowsType DEF RunOK, RunType, Rows
  <1>3. NextRow(w, TRUE) \/ NextRow(w, FALSE) \/ Step(w, "create")
    BY DEF FindRow
  <1>4. CASE NextRow(w, TRUE) \/ NextRow(w, FALSE)
    BY <1>1, <1>2, <1>4, NextRowStep, JobsUntouched DEF RunResult
  <1>5. CASE Step(w, "create")
    <2>1. runs' = [runs EXCEPT ![w] = new]
      BY <1>5 DEF Step
    <2>2. new \in RunType
      BY <1>1 DEF RunType, RunSteps
    <2>3. RunOK(w)'
      BY <1>1, <1>2, <2>1, <2>2, RowsType DEF RunOK, RunType, JobsInv, JobsTypeOK, Rows
    <2> HIDE DEF new
    <2> QED
      BY <1>1, <2>1, <2>2, <2>3, OneRun, JobsUntouched DEF JobsInv, RunResult
  <1> QED
    BY <1>3, <1>4, <1>5

LEMMA CreateRowStep ==
  ASSUME JobsInv, NEW w \in Workers, CreateRow(w)
  PROVE  RunResult
  <1>1. /\ runs[w].at = "create" /\ RunOK(w) /\ UNCHANGED <<scenario, jobs>>
        /\ \E good \in BOOLEAN : NextRow(w, good)
    BY DEF JobsInv, RunsOK, CreateRow, ElsewhereFromRuns, ElsewhereFromJobs
  <1>2. runs[w].row < Len(Rows(w))
    BY <1>1 DEF RunOK, Rows
  <1> QED
    BY <1>1, <1>2, NextRowStep, JobsUntouched DEF RunResult

LEMMA EndRowsStep ==
  ASSUME JobsInv, NEW w \in Workers, EndRows(w)
  PROVE  RunResult
  <1> DEFINE r == runs[w]
             new == [r EXCEPT !.at = IF r.failed > 0 THEN "upload" ELSE "finish"]
  <1>1. /\ r \in RunType /\ r.at = "row" /\ RunOK(w) /\ UNCHANGED <<scenario, jobs>>
        /\ r.row = Len(JobRows[r.job]) /\ runs' = [runs EXCEPT ![w] = new]
    BY RunTyped DEF JobsInv, RunsOK, EndRows, Rows, Step, ElsewhereFromRuns, ElsewhereFromJobs
  <1>2. new \in RunType
    BY <1>1 DEF RunType, RunSteps
  <1>3. RunOK(w)'
    BY <1>1, <1>2, RowsType DEF RunOK, RunType, JobsInv, JobsTypeOK
  <1> HIDE DEF new
  <1>4. runs' \in [Workers -> RunType] /\ RunsOK'
    BY <1>1, <1>2, <1>3, OneRun DEF JobsInv
  <1> QED
    BY <1>1, <1>4, JobsUntouched DEF RunResult

LEMMA UploadStep ==
  ASSUME JobsInv, NEW w \in Workers, Upload(w)
  PROVE  RunResult
  <1> DEFINE r == runs[w]
  <1>1. r \in RunType /\ r.at = "upload" /\ RunOK(w) /\ UNCHANGED <<scenario, jobs>>
    BY RunTyped DEF JobsInv, RunsOK, Upload, ElsewhereFromRuns, ElsewhereFromJobs
  <1>2. PICK new : /\ runs' = [runs EXCEPT ![w] = new]
                   /\ \/ new = [r EXCEPT !.at = "finish", !.file = TRUE]
                      \/ new = [r EXCEPT !.at = "fail"]
                      \/ new = [r EXCEPT !.at = "failReport"]
    BY DEF Upload, Step
  <1>3. new \in RunType
    BY <1>1, <1>2 DEF RunType, RunSteps
  <1>4. RunOK(w)'
    <2>1. runs'[w] = new /\ r.job \in Jobs
      BY <1>1, <1>2 DEF JobsInv, JobsTypeOK, RunOK
    <2>2. CASE new = [r EXCEPT !.at = "finish", !.file = TRUE]
      BY <1>1, <2>1, <2>2, RowsType DEF RunOK, RunType
    <2>3. CASE new = [r EXCEPT !.at = "fail"] \/ new = [r EXCEPT !.at = "failReport"]
      BY <1>1, <2>1, <2>3 DEF RunOK, RunType
    <2> QED
      BY <1>2, <2>2, <2>3
  <1>5. runs' \in [Workers -> RunType] /\ RunsOK'
    BY <1>1, <1>2, <1>3, <1>4, OneRun DEF JobsInv
  <1> QED
    BY <1>1, <1>5, JobsUntouched DEF RunResult

LEMMA FinishDoneStep ==
  ASSUME JobsInv, NEW w \in Workers, FinishDone(w)
  PROVE  RunResult
  <1> DEFINE r == runs[w]
             row == [status |-> "DONE", file |-> r.file, processed |-> r.processed,
                     failed |-> r.failed]
  <1>1. /\ r \in RunType /\ r.at = "finish" /\ RunOK(w) /\ UNCHANGED scenario
        /\ runs' = [runs EXCEPT ![w] = IdleRun]
        /\ jobs' = [jobs EXCEPT ![r.job] = row]
    BY RunTyped
       DEF JobsInv, RunsOK, FinishDone, Finish, ElsewhereFromRuns, ElsewhereFromJobs
  <1>2. /\ row \in [status : Statuses, file : BOOLEAN, processed : Nat, failed : Nat]
        /\ r.job \in Jobs
        /\ IF JobType[r.job] = "EXPORT" THEN row.file
           ELSE /\ row.processed + row.failed = Len(JobRows[r.job])
                /\ row.file <=> row.failed > 0
    BY <1>1 DEF RunOK, RunType, Statuses
  <1>3. runs' \in [Workers -> RunType] /\ RunsOK'
    BY <1>1, IdleRunType, OneRun DEF JobsInv
  <1> HIDE DEF row
  <1> QED
    BY <1>1, <1>2, <1>3, OneJob DEF RunResult

LEMMA FailReportStep ==
  ASSUME JobsInv, NEW w \in Workers, FailReport(w)
  PROVE  RunResult
  <1> DEFINE r == runs[w]
  <1>1. r \in RunType /\ r.at = "failReport" /\ RunOK(w) /\ UNCHANGED <<scenario, jobs>>
    BY RunTyped DEF JobsInv, RunsOK, FailReport, ElsewhereFromRuns, ElsewhereFromJobs
  <1>2. PICK new \in {[r EXCEPT !.at = "fail", !.file = TRUE], IdleRun} :
            runs' = [runs EXCEPT ![w] = new]
    BY DEF FailReport, Finish
  <1>3. new \in RunType
    BY <1>1, <1>2, IdleRunType DEF RunType, RunSteps
  <1>4. new.at # "idle" => RunOK(w)'
    BY <1>1, <1>2, <1>3, IdleRunType DEF RunOK, RunType, JobsInv, JobsTypeOK
  <1>5. runs' \in [Workers -> RunType] /\ RunsOK'
    BY <1>1, <1>2, <1>3, <1>4, OneRun DEF JobsInv
  <1> QED
    BY <1>1, <1>5, JobsUntouched DEF RunResult

LEMMA FinishFailedStep ==
  ASSUME JobsInv, NEW w \in Workers, FinishFailed(w)
  PROVE  RunResult
  <1> DEFINE r == runs[w]
             old == jobs[r.job]
             row == [old EXCEPT !.status = "FAILED", !.file = @ \/ r.file]
  <1>1. /\ r \in RunType /\ r.at = "fail" /\ RunOK(w) /\ UNCHANGED scenario
        /\ runs' = [runs EXCEPT ![w] = IdleRun]
        /\ jobs' = [jobs EXCEPT ![r.job] = row]
    BY RunTyped
       DEF JobsInv, RunsOK, FinishFailed, Finish, ElsewhereFromRuns, ElsewhereFromJobs
  <1>2. /\ row \in [status : Statuses, file : BOOLEAN, processed : Nat, failed : Nat]
        /\ row.status = "FAILED" /\ r.job \in Jobs
    <2>1. r.job \in Jobs /\ old \in [status : Statuses, file : BOOLEAN, processed : Nat, failed : Nat]
      BY <1>1 DEF RunOK, JobsInv, JobsTypeOK
    <2>2. (old.file \/ r.file) \in BOOLEAN
      OBVIOUS
    <2> QED
      BY <2>1, <2>2 DEF Statuses
  <1>3. runs' \in [Workers -> RunType] /\ RunsOK'
    BY <1>1, IdleRunType, OneRun DEF JobsInv
  <1> HIDE DEF row
  <1> QED
    BY <1>1, <1>2, <1>3, OneJob DEF RunResult

LEMMA ContinueRunStep ==
  ASSUME JobsInv, NEW w \in Workers, ContinueRun(w)
  PROVE  RunResult
  BY SetRunningStep, DownloadStep, FindRowStep, CreateRowStep, EndRowsStep, UploadStep,
     FinishDoneStep, FailReportStep, FinishFailedStep DEF ContinueRun

-----------------------------------------------------------------------------
(* The authors.                                                            *)

LEMMA WorkersFinite ==
  ASSUME ScenarioOK
  PROVE  IsFiniteSet(scenario.workers) /\ Cardinality(scenario.workers) \in Nat
  BY ScenarioType, PlatformAssumption, FS_Subset, FS_CardinalityType

LEMMA PartOfWorkers ==
  ASSUME ScenarioOK, NEW S \in SUBSET scenario.workers
  PROVE  /\ IsFiniteSet(S) /\ Cardinality(S) \in Nat
         /\ Cardinality(S) <= Cardinality(scenario.workers)
         /\ \A T \in SUBSET S : Cardinality(T) \in Nat /\ Cardinality(T) <= Cardinality(S)
  <1>1. IsFiniteSet(scenario.workers)
    BY WorkersFinite
  <1>2. IsFiniteSet(S) /\ Cardinality(S) <= Cardinality(scenario.workers)
    BY <1>1, FS_Subset
  <1>3. \A T \in SUBSET S : IsFiniteSet(T) /\ Cardinality(T) <= Cardinality(S)
    BY <1>2, FS_Subset
  <1> QED
    BY <1>2, <1>3, FS_CardinalityType

AuthorCounted(e) ==
    authorRows[e] + Cardinality(Creating(e)) <= Cardinality(scenario.workers)

(* A step after which no worker more is about to create an author, and     *)
(* which creates none.                                                     *)
LEMMA NoAuthorMore ==
  ASSUME JobsInv, UNCHANGED authorRows, UNCHANGED scenario,
         NEW e \in Emails, Creating(e)' \subseteq Creating(e)
  PROVE  AuthorCounted(e)'
  <1>1. Creating(e) \in SUBSET scenario.workers
    BY DEF Creating
  <1>2. /\ Cardinality(Creating(e)) \in Nat /\ Cardinality(Creating(e)') \in Nat
        /\ Cardinality(Creating(e)') <= Cardinality(Creating(e))
    BY <1>1, PartOfWorkers DEF JobsInv
  <1>3. /\ authorRows[e] \in Nat /\ Cardinality(scenario.workers) \in Nat
        /\ authorRows[e] + Cardinality(Creating(e)) <= Cardinality(scenario.workers)
    BY WorkersFinite DEF JobsInv, JobsTypeOK, AuthorsCounted
  <1> QED
    BY <1>2, <1>3 DEF AuthorCounted

(* A worker that goes anywhere but to "create".                            *)
LEMMA LeavesCreating ==
  ASSUME JobsInv, UNCHANGED scenario, NEW w \in Workers, NEW r, runs' = [runs EXCEPT ![w] = r],
         r.at # "create", NEW e \in Emails
  PROVE  Creating(e)' = Creating(e) \ {w}
  <1>1. \A v \in Workers : runs'[v] = IF v = w THEN r ELSE runs[v]
    BY DEF JobsInv, JobsTypeOK
  <1>2. scenario.workers \subseteq Workers
    BY ScenarioType DEF JobsInv
  <1> QED
    BY <1>1, <1>2 DEF Creating, CreatesAuthor

LEMMA OneRunAuthors ==
  ASSUME JobsInv, UNCHANGED scenario, UNCHANGED authorRows,
         NEW w \in Workers, NEW r, runs' = [runs EXCEPT ![w] = r], r.at # "create"
  PROVE  AuthorsCounted'
  <1>1. \A e \in Emails : Creating(e)' \subseteq Creating(e)
    BY LeavesCreating
  <1>2. \A e \in Emails : AuthorCounted(e)'
    BY <1>1, NoAuthorMore
  <1> QED
    BY <1>2 DEF AuthorsCounted, AuthorCounted

LEMMA FindRowAuthors ==
  ASSUME JobsInv, NEW w \in Workers, FindRow(w)
  PROVE  AuthorsCounted'
  <1> DEFINE r == runs[w]
             email == JobRows[r.job][r.row + 1]
  <1>1. r \in RunType /\ r.at = "row" /\ UNCHANGED scenario /\ UNCHANGED authorRows
    BY RunTyped
       DEF JobsInv, RunsOK, FindRow, ElsewhereFromRuns, ElsewhereFromJobs, importTables
  <1>2. CASE NextRow(w, TRUE) \/ NextRow(w, FALSE)
    <2>1. PICK new : runs' = [runs EXCEPT ![w] = new] /\ new.at = "row"
      BY <1>1, <1>2 DEF NextRow, RunType
    <2> QED
      BY <1>1, <2>1, OneRunAuthors
  <1>3. CASE /\ Step(w, "create")
             /\ JobType[r.job] = "AUTHORS" => ~(authorRows[email] > 0)
    <2> SUFFICES ASSUME NEW e \in Emails
                 PROVE  AuthorCounted(e)'
      BY DEF AuthorsCounted, AuthorCounted
    <2>1. runs' = [runs EXCEPT ![w] = [r EXCEPT !.at = "create"]]
      BY <1>3 DEF Step
    <2>2. authorRows[e] \in Nat
      BY DEF JobsInv, JobsTypeOK
    <2>3. CASE JobType[r.job] = "AUTHORS" /\ e = email
      <3>1. authorRows'[e] = 0
        BY <1>1, <1>3, <2>2, <2>3
      <3>2. Creating(e)' \in SUBSET scenario.workers
        BY <1>1 DEF Creating
      <3>3. /\ Cardinality(Creating(e)') \in Nat
            /\ Cardinality(Creating(e)') <= Cardinality(scenario.workers)
        BY <3>2, PartOfWorkers DEF JobsInv
      <3> QED
        BY <1>1, <3>1, <3>3 DEF AuthorCounted
    <2>4. CASE ~(JobType[r.job] = "AUTHORS" /\ e = email)
      <3>1. Creating(e)' \subseteq Creating(e)
        <4>1. scenario.workers \subseteq Workers
          BY ScenarioType DEF JobsInv
        <4>2. \A v \in Workers : v # w => runs'[v] = runs[v]
          BY <2>1 DEF JobsInv, JobsTypeOK
        <4>3. runs'[w] = [r EXCEPT !.at = "create"]
          BY <2>1 DEF JobsInv, JobsTypeOK
        <4>4. ~CreatesAuthor(w, e)'
          BY <1>1, <2>4, <4>3 DEF CreatesAuthor, RunType
        <4> QED
          BY <1>1, <4>1, <4>2, <4>4 DEF Creating, CreatesAuthor
      <3> QED
        BY <1>1, <3>1, NoAuthorMore
    <2> QED
      BY <2>3, <2>4
  <1> QED
    BY <1>2, <1>3 DEF FindRow, Rows

LEMMA CreateRowAuthors ==
  ASSUME JobsInv, NEW w \in Workers, CreateRow(w)
  PROVE  AuthorsCounted' /\ authorRows' \in [Emails -> Nat] /\ reviewerRows' \in SUBSET Emails
  <1> DEFINE r == runs[w]
             email == JobRows[r.job][r.row + 1]
             author == JobType[r.job] = "AUTHORS"
  <1>1. r \in RunType /\ r.at = "create" /\ RunOK(w) /\ UNCHANGED scenario
    BY RunTyped DEF JobsInv, RunsOK, CreateRow, ElsewhereFromRuns, ElsewhereFromJobs
  <1>2. PICK new : runs' = [runs EXCEPT ![w] = new] /\ new.at = "row"
    <2>1. NextRow(w, TRUE) \/ NextRow(w, FALSE)
      BY DEF CreateRow
    <2> DEFINE new(good) == [r EXCEPT !.at = "row", !.row = @ + 1,
                                      !.processed = IF good THEN @ + 1 ELSE @,
                                      !.failed = IF good THEN @ ELSE @ + 1]
    <2>2. /\ runs' = [runs EXCEPT ![w] = new(TRUE)] \/ runs' = [runs EXCEPT ![w] = new(FALSE)]
          /\ new(TRUE).at = "row" /\ new(FALSE).at = "row"
      BY <1>1, <2>1 DEF NextRow, RunType
    <2> HIDE DEF new
    <2> QED
      BY <2>2
  <1>3. email \in Emails /\ w \in scenario.workers
    BY <1>1, RowsType DEF RunOK, RunType
  <1>4. /\ authorRows' = IF author THEN [authorRows EXCEPT ![email] = @ + 1] ELSE authorRows
        /\ reviewerRows' = IF author THEN reviewerRows ELSE reviewerRows \cup {email}
    BY DEF CreateRow, Rows
  <1>5. authorRows \in [Emails -> Nat] /\ reviewerRows \in SUBSET Emails
    BY DEF JobsInv, JobsTypeOK
  <1>6. authorRows' \in [Emails -> Nat] /\ reviewerRows' \in SUBSET Emails
    BY <1>3, <1>4, <1>5
  <1>7. CASE UNCHANGED authorRows
    BY <1>1, <1>2, <1>6, <1>7, OneRunAuthors
  <1>8. CASE author
    <2> SUFFICES ASSUME NEW e \in Emails
                 PROVE  AuthorCounted(e)'
      BY <1>6 DEF AuthorsCounted, AuthorCounted
    <2>1. Creating(e)' = Creating(e) \ {w}
      BY <1>1, <1>2, LeavesCreating
    <2>2. Creating(e) \in SUBSET scenario.workers
      BY DEF Creating
    <2>3. /\ IsFiniteSet(Creating(e)) /\ Cardinality(Creating(e)) \in Nat
          /\ Cardinality(scenario.workers) \in Nat
      BY <2>2, PartOfWorkers, WorkersFinite DEF JobsInv
    <2>4. authorRows[e] + Cardinality(Creating(e)) <= Cardinality(scenario.workers)
      BY DEF JobsInv, AuthorsCounted
    <2>5. CASE e = email
      <3>1. w \in Creating(e)
        BY <1>1, <1>3, <1>8, <2>5 DEF Creating, CreatesAuthor
      <3>2. Cardinality(Creating(e)') = Cardinality(Creating(e)) - 1
        BY <2>1, <2>3, <3>1, FS_RemoveElement
      <3>3. authorRows'[e] = authorRows[e] + 1
        BY <1>4, <1>5, <1>8, <2>5
      <3> QED
        BY <1>1, <1>5, <2>3, <2>4, <3>2, <3>3 DEF AuthorCounted
    <2>6. CASE e # email
      <3>1. authorRows'[e] = authorRows[e]
        BY <1>4, <1>5, <1>8, <2>6
      <3>2. w \notin Creating(e)
        BY <2>6 DEF Creating, CreatesAuthor
      <3>3. Creating(e)' = Creating(e)
        BY <2>1, <3>2
      <3> QED
        BY <1>1, <2>4, <3>1, <3>3 DEF AuthorCounted
    <2> QED
      BY <2>5, <2>6
  <1> QED
    BY <1>4, <1>6, <1>7, <1>8

LEMMA Goes ==
  ASSUME NEW w \in Workers, runs[w] \in RunType, NEW at, at # "create", Step(w, at)
  PROVE  \E new : runs' = [runs EXCEPT ![w] = new] /\ new.at # "create"
  <1>1. runs' = [runs EXCEPT ![w] = [runs[w] EXCEPT !.at = at]]
    BY DEF Step
  <1>2. [runs[w] EXCEPT !.at = at].at = at
    BY DEF RunType
  <1> QED
    BY <1>1, <1>2

(* The other steps of a worker go on to something that creates nothing.    *)
LEMMA ContinueRunAuthors ==
  ASSUME JobsInv, NEW w \in Workers, ContinueRun(w)
  PROVE  AuthorsCounted' /\ authorRows' \in [Emails -> Nat] /\ reviewerRows' \in SUBSET Emails
  <1> DEFINE r == runs[w]
  <1>1. r \in RunType /\ IdleRun.at = "idle"
    BY RunTyped, IdleRunType DEF JobsInv
  <1>2. CASE FindRow(w)
    <2>1. UNCHANGED importTables
      BY <1>2 DEF FindRow
    <2> QED
      BY <1>2, <2>1, FindRowAuthors DEF importTables, JobsInv, JobsTypeOK
  <1>3. CASE CreateRow(w)
    BY <1>3, CreateRowAuthors
  <1>4. CASE SetRunning(w) \/ Download(w) \/ EndRows(w) \/ Upload(w) \/ FailReport(w)
             \/ FinishDone(w) \/ FinishFailed(w)
    <2>1. UNCHANGED importTables /\ UNCHANGED scenario
      BY <1>4 DEF SetRunning, Download, EndRows, Upload, FailReport, FinishDone, FinishFailed,
                  ElsewhereFromRuns, ElsewhereFromJobs
    <2>2. PICK new : runs' = [runs EXCEPT ![w] = new] /\ new.at # "create"
      <3>1. CASE SetRunning(w)
        <4>1. PICK at \in {"upload", "download"} : Step(w, at)
          BY <3>1 DEF SetRunning
        <4> QED
          BY <1>1, <4>1, Goes
      <3>2. CASE Download(w)
        BY <1>1, <3>2 DEF Download, Step, RunType
      <3>3. CASE EndRows(w)
        <4>1. PICK at \in {"upload", "finish"} : Step(w, at)
          BY <3>3 DEF EndRows
        <4> QED
          BY <1>1, <4>1, Goes
      <3>4. CASE Upload(w)
        BY <1>1, <3>4 DEF Upload, Step, RunType
      <3>5. CASE FailReport(w)
        BY <1>1, <3>5 DEF FailReport, Finish, RunType
      <3>6. CASE FinishDone(w) \/ FinishFailed(w)
        BY <1>1, <3>6 DEF FinishDone, FinishFailed, Finish
      <3> QED
        BY <1>4, <3>1, <3>2, <3>3, <3>4, <3>5, <3>6
    <2>3. AuthorsCounted'
      BY <2>1, <2>2, OneRunAuthors DEF importTables
    <2> QED
      BY <2>1, <2>3 DEF importTables, JobsInv, JobsTypeOK
  <1> QED
    BY <1>2, <1>3, <1>4 DEF ContinueRun

-----------------------------------------------------------------------------
(* The queue.                                                              *)

QueueType == [at : {"none", "waiting", "active", "finished"},
              worker : Workers \cup {Nobody}, stalls : 0 .. 1]

LEMMA ContinueRunQueue ==
  ASSUME JobsInv, NEW w \in Workers, ContinueRun(w)
  PROVE  queue' \in [Jobs -> QueueType] /\ UNCHANGED <<poll, crashes, scenario>>
  <1>1. UNCHANGED queue \/ Finish(w)
    BY DEF ContinueRun, SetRunning, Download, FindRow, CreateRow, EndRows, Upload,
           FinishDone, FailReport, FinishFailed
  <1>2. UNCHANGED <<poll, crashes, scenario>>
    BY DEF ContinueRun, SetRunning, Download, FindRow, CreateRow, EndRows, Upload,
           FinishDone, FailReport, FinishFailed, ElsewhereFromRuns, ElsewhereFromJobs
  <1>3. queue \in [Jobs -> QueueType]
    BY DEF JobsInv, JobsTypeOK, QueueType
  <1> QED
    BY <1>1, <1>2, <1>3 DEF Finish, QueueType

-----------------------------------------------------------------------------
(* All steps.                                                              *)

LEMMA JobsInitial == Init => JobsInv
  <1> SUFFICES ASSUME Init PROVE JobsInv
    OBVIOUS
  <1> USE DEF Init, JobsInit
  <1>1. ScenarioOK
    BY DEF ScenarioOK
  <1>2. JobsTypeOK
    <2>1. runs \in [Workers -> RunType]
      BY IdleRunType
    <2>2. NoJob \in [status : Statuses, file : BOOLEAN, processed : Nat, failed : Nat]
      BY DEF NoJob, Statuses
    <2>3. NotQueued \in [at : {"none", "waiting", "active", "finished"},
                         worker : Workers \cup {Nobody}, stalls : 0 .. 1]
      BY DEF NotQueued
    <2>4. poll \in [job : Jobs \cup {0}, attempts : 0 .. MaxAttempts,
                    at : {"off", "fetching", "waiting", "ended", "gaveUp"}]
      BY PlatformAssumption DEF PollOff
    <2> QED
      BY <2>1, <2>2, <2>3, <2>4, PlatformAssumption DEF JobsTypeOK, RunType
  <1>3. RunsOK /\ PollOK /\ DoneAccountsForRows
    BY DEF RunsOK, RunOK, IdleRun, PollOK, PollOff, DoneAccountsForRows, NoJob
  <1>4. AuthorsCounted
    <2> SUFFICES ASSUME NEW e \in Emails
                 PROVE  authorRows[e] + Cardinality(Creating(e)) <= Cardinality(scenario.workers)
      BY DEF AuthorsCounted
    <2>1. Creating(e) \in SUBSET scenario.workers
      BY DEF Creating
    <2> QED
      BY <1>1, <2>1, PartOfWorkers
  <1> QED
    BY <1>1, <1>2, <1>3, <1>4 DEF JobsInv

LEMMA ContinueRunInv ==
  ASSUME JobsInv, NEW w \in Workers, ContinueRun(w)
  PROVE  JobsInv'
  <1>1. /\ RunResult /\ UNCHANGED <<poll, crashes, scenario>>
        /\ AuthorsCounted' /\ authorRows' \in [Emails -> Nat] /\ reviewerRows' \in SUBSET Emails
        /\ queue' \in [Jobs -> QueueType]
    BY ContinueRunStep, ContinueRunAuthors, ContinueRunQueue
  <1>2. JobsTypeOK' /\ RunsOK' /\ DoneAccountsForRows'
    BY <1>1 DEF RunResult, RunType, QueueType, JobsInv, JobsTypeOK
  <1>3. ScenarioOK' /\ PollOK'
    BY <1>1 DEF JobsInv, ScenarioOK, PollOK
  <1> QED
    BY <1>1, <1>2, <1>3 DEF JobsInv

(* A step that changes no worker's run and creates no author.              *)
LEMMA RunsUntouched ==
  ASSUME JobsInv, UNCHANGED <<runs, importTables, scenario>>
  PROVE  ScenarioOK' /\ RunsOK' /\ AuthorsCounted'
  <1>1. ScenarioOK' /\ RunsOK'
    BY DEF JobsInv, ScenarioOK, RunsOK, RunOK
  <1>2. \A e \in Emails : Creating(e)' = Creating(e)
    BY DEF Creating, CreatesAuthor
  <1> QED
    BY <1>1, <1>2 DEF JobsInv, AuthorsCounted, importTables

LEMMA CreateJobInv ==
  ASSUME JobsInv, NEW j \in Jobs, CreateJob(j)
  PROVE  JobsInv'
  <1> DEFINE row == [jobs[j] EXCEPT !.status = "QUEUED"]
  <1>1. /\ row \in [status : Statuses, file : BOOLEAN, processed : Nat, failed : Nat]
        /\ row.status = "QUEUED" /\ jobs' = [jobs EXCEPT ![j] = row]
    BY DEF CreateJob, JobsInv, JobsTypeOK, Statuses
  <1> HIDE DEF row
  <1>2. /\ jobs' \in [Jobs -> [status : Statuses, file : BOOLEAN, processed : Nat, failed : Nat]]
        /\ DoneAccountsForRows'
    BY <1>1, OneJob
  <1>3. UNCHANGED <<queue, runs, importTables, poll, crashes, scenario>>
    BY DEF CreateJob, ElsewhereFromJobs
  <1>4. JobsTypeOK' /\ PollOK'
    BY <1>2, <1>3 DEF JobsInv, JobsTypeOK, importTables, PollOK
  <1> QED
    BY <1>2, <1>3, <1>4, RunsUntouched DEF JobsInv

LEMMA QueueInv ==
  ASSUME JobsInv, NEW j \in Jobs, Enqueue(j) \/ Stall(j)
  PROVE  JobsInv'
  <1>1. UNCHANGED <<jobs, runs, importTables, poll, crashes, scenario>>
    BY DEF Enqueue, Stall, ElsewhereFromRuns, ElsewhereFromJobs
  <1>2. queue' \in [Jobs -> QueueType]
    <2> DEFINE waiting == [queue[j] EXCEPT !.at = "waiting"]
               finished == [queue[j] EXCEPT !.at = "finished"]
               stalled == [at |-> "waiting", worker |-> Nobody, stalls |-> 1]
    <2>1. queue \in [Jobs -> QueueType]
      BY DEF JobsInv, JobsTypeOK, QueueType
    <2>2. waiting \in QueueType /\ finished \in QueueType
      BY <2>1 DEF QueueType
    <2>3. stalled \in QueueType
      BY DEF QueueType
    <2>4. PICK row \in {waiting, finished, stalled} : queue' = [queue EXCEPT ![j] = row]
      <3>1. CASE Enqueue(j)
        BY <3>1 DEF Enqueue
      <3>2. CASE Stall(j) /\ queue[j].stalls = 0
        BY <3>2 DEF Stall
      <3>3. CASE Stall(j) /\ queue[j].stalls # 0
        BY <3>3 DEF Stall
      <3> QED
        BY <3>1, <3>2, <3>3
    <2> HIDE DEF waiting, finished, stalled
    <2> QED
      BY <2>1, <2>2, <2>3, <2>4
  <1>3. JobsTypeOK' /\ PollOK' /\ DoneAccountsForRows'
    BY <1>1, <1>2 DEF JobsInv, JobsTypeOK, importTables, PollOK, QueueType, DoneAccountsForRows
  <1> QED
    BY <1>1, <1>3, RunsUntouched DEF JobsInv

PollType == [job : Jobs \cup {0}, attempts : 0 .. MaxAttempts,
             at : {"off", "fetching", "waiting", "ended", "gaveUp"}]

LEMMA PollInv ==
  ASSUME JobsInv, Fetch \/ Poll \/ FetchFails \/ \E j \in Jobs : StartPolling(j)
  PROVE  JobsInv'
  <1>1. UNCHANGED <<jobs, runs, importTables, queue, crashes, scenario>>
    BY DEF Fetch, Poll, FetchFails, PollGoto, StartPolling, ElsewhereFromJobs
  <1>2. poll' \in PollType /\ PollOK'
    <2>0. poll \in PollType
      BY DEF JobsInv, JobsTypeOK, PollType
    <2>1. CASE Poll
      <3> DEFINE at == IF jobs[poll.job].status \in TerminalStatuses THEN "ended"
                       ELSE IF poll.attempts + 1 >= MaxAttempts THEN "gaveUp" ELSE "waiting"
      <3>1. poll' = [poll EXCEPT !.attempts = @ + 1, !.at = at] /\ poll.at = "fetching"
        BY <2>1 DEF Poll
      <3>2. /\ poll.attempts < MaxAttempts
            /\ at \in {"ended", "gaveUp", "waiting"}
            /\ at = "waiting" => poll.attempts + 1 < MaxAttempts
        BY <2>0, <3>1, PlatformAssumption DEF JobsInv, PollType, PollOK
      <3> HIDE DEF at
      <3>3. poll.attempts + 1 \in 0 .. MaxAttempts
        BY <2>0, <3>2, PlatformAssumption DEF PollType
      <3>4. poll'.attempts = poll.attempts + 1 /\ poll'.at = at
        BY <2>0, <3>1 DEF PollType
      <3>5. poll' \in PollType
        BY <2>0, <3>1, <3>2, <3>3 DEF PollType
      <3> QED
        BY <3>2, <3>4, <3>5 DEF PollOK
    <2>2. ASSUME NEW j \in Jobs, StartPolling(j)
          PROVE  poll' \in PollType /\ PollOK'
      BY <2>2, PlatformAssumption DEF StartPolling, PollOK, PollType
    <2>3. CASE Fetch \/ FetchFails
      <3>1. PICK at \in {"fetching", "waiting"} :
               poll' = [poll EXCEPT !.at = at] /\ poll.at \in {"fetching", "waiting"}
        BY <2>3 DEF Fetch, FetchFails, PollGoto
      <3>2. poll.attempts < MaxAttempts
        BY <3>1 DEF JobsInv, PollOK
      <3>3. poll' \in PollType /\ poll'.attempts = poll.attempts
        BY <2>0, <3>1 DEF PollType
      <3> QED
        BY <3>2, <3>3 DEF PollOK
    <2> QED
      BY <2>1, <2>2, <2>3
  <1>3. JobsTypeOK' /\ DoneAccountsForRows'
    BY <1>1, <1>2 DEF JobsInv, JobsTypeOK, importTables, DoneAccountsForRows, PollType
  <1> QED
    BY <1>1, <1>2, <1>3, RunsUntouched DEF JobsInv

LEMMA TakeJobInv ==
  ASSUME JobsInv, NEW w \in Workers, NEW j \in Jobs, TakeJob(w, j)
  PROVE  JobsInv'
  <1> DEFINE new == [IdleRun EXCEPT !.at = "run", !.job = j]
  <1>1. /\ UNCHANGED <<jobs, importTables, poll, crashes, scenario>>
        /\ runs' = [runs EXCEPT ![w] = new] /\ w \in scenario.workers
    BY DEF TakeJob, ElsewhereFromRuns, ElsewhereFromJobs
  <1>2. queue' \in [Jobs -> QueueType]
    <2>1. queue' = [queue EXCEPT ![j] = [queue[j] EXCEPT !.at = "active", !.worker = w]]
      BY DEF TakeJob
    <2>2. queue \in [Jobs -> QueueType]
      BY DEF JobsInv, JobsTypeOK, QueueType
    <2>3. [queue[j] EXCEPT !.at = "active", !.worker = w] \in QueueType
      BY <2>2 DEF QueueType
    <2> QED
      BY <2>1, <2>2, <2>3
  <1>3. new \in RunType /\ new.at = "run"
    BY DEF IdleRun, RunType, RunSteps
  <1>4. runs'[w] = new
    BY <1>1 DEF JobsInv, JobsTypeOK
  <1>5. RunOK(w)'
    <2>1. /\ new.at = "run" /\ new.job = j /\ new.row = 0 /\ new.processed = 0
          /\ new.failed = 0 /\ new.file = FALSE
      BY DEF IdleRun
    <2> HIDE DEF new
    <2> QED
      BY <1>1, <1>4, <2>1 DEF RunOK
  <1> HIDE DEF new
  <1>6. runs' \in [Workers -> RunType] /\ RunsOK'
    BY <1>1, <1>3, <1>5, OneRun DEF JobsInv
  <1>7. AuthorsCounted'
    BY <1>1, <1>3, OneRunAuthors DEF importTables
  <1>8. JobsTypeOK' /\ PollOK' /\ DoneAccountsForRows' /\ ScenarioOK'
    BY <1>1, <1>2, <1>6
       DEF JobsInv, JobsTypeOK, importTables, QueueType, RunType, PollOK, DoneAccountsForRows,
           ScenarioOK
  <1> QED
    BY <1>6, <1>7, <1>8 DEF JobsInv

LEMMA CrashInv ==
  ASSUME JobsInv, NEW w \in Workers, Crash(w)
  PROVE  JobsInv'
  <1>1. /\ UNCHANGED <<jobs, queue, importTables, poll, scenario>>
        /\ runs' = [runs EXCEPT ![w] = IdleRun]
    BY DEF Crash, ElsewhereFromJobs
  <1>2. crashes' \in 0 .. MaxCrashes
    BY PlatformAssumption DEF Crash, JobsInv, JobsTypeOK
  <1>3. runs' \in [Workers -> RunType] /\ RunsOK' /\ AuthorsCounted'
    BY <1>1, IdleRunType, OneRun, OneRunAuthors DEF JobsInv, importTables
  <1>4. JobsTypeOK' /\ PollOK' /\ DoneAccountsForRows' /\ ScenarioOK'
    BY <1>1, <1>2, <1>3
       DEF JobsInv, JobsTypeOK, importTables, RunType, PollOK, DoneAccountsForRows, ScenarioOK
  <1> QED
    BY <1>3, <1>4 DEF JobsInv

LEMMA JobsUnchanged ==
  ASSUME JobsInv, UNCHANGED <<scenario, jobVars>>
  PROVE  JobsInv'
  <1>1. UNCHANGED <<runs, importTables, scenario>>
    BY DEF jobVars
  <1>2. JobsTypeOK' /\ PollOK' /\ DoneAccountsForRows'
    BY DEF JobsInv, JobsTypeOK, PollOK, DoneAccountsForRows, jobVars, importTables
  <1> QED
    BY <1>1, <1>2, RunsUntouched DEF JobsInv

LEMMA JobsStep == JobsInv /\ [Next]_vars => JobsInv'
  <1> SUFFICES ASSUME JobsInv, [Next]_vars
               PROVE  JobsInv'
    OBVIOUS
  <1>1. CASE JobsNext
    <2>1. ASSUME NEW j \in Jobs, CreateJob(j) \/ Enqueue(j) \/ Stall(j) \/ StartPolling(j)
          PROVE  JobsInv'
      BY <2>1, CreateJobInv, QueueInv, PollInv
    <2>2. ASSUME NEW w \in Workers, ContinueRun(w) \/ Crash(w)
          PROVE  JobsInv'
      BY <2>2, ContinueRunInv, CrashInv, PlatformAssumption
    <2>3. ASSUME Deliver \/ Fetch \/ Poll \/ FetchFails
          PROVE  JobsInv'
      BY <2>3, TakeJobInv, PollInv DEF Deliver
    <2> QED
      BY <1>1, <2>1, <2>2, <2>3 DEF JobsNext
  <1>2. CASE UNCHANGED jobVars
    BY <1>2, ScenarioStays, JobsUnchanged
  <1> QED
    BY <1>1, <1>2, StepsOfJobs

(* What workers know and have written, of whatever jobs, in every state.   *)
THEOREM JobsInvariance == Spec => []JobsInv
  BY JobsInitial, JobsStep, PTL DEF Spec

(* Whatever dies, stalls or runs twice, a job that is DONE has accounted   *)
(* for its rows.                                                           *)
THEOREM DoneJobsAccountForRows == Spec => []DoneAccountsForRows
  <1>1. JobsInv => DoneAccountsForRows
    BY DEF JobsInv
  <1> QED
    BY <1>1, JobsInvariance, PTL

(* An email gets no more authors than there are workers, however often     *)
(* its file is imported.                                                   *)
THEOREM ImportsRepeatNothing == Spec => []ImportRepeatsNothing
  <1>1. JobsInv => ImportRepeatsNothing
    <2> SUFFICES ASSUME JobsInv, NEW e \in Emails
                 PROVE  authorRows[e] <= Cardinality(scenario.workers)
      BY DEF ImportRepeatsNothing
    <2>1. Creating(e) \in SUBSET scenario.workers
      BY DEF Creating
    <2>2. Cardinality(Creating(e)) \in Nat /\ Cardinality(scenario.workers) \in Nat
      BY <2>1, PartOfWorkers, WorkersFinite DEF JobsInv
    <2>3. /\ authorRows[e] \in Nat
          /\ authorRows[e] + Cardinality(Creating(e)) <= Cardinality(scenario.workers)
      BY DEF JobsInv, JobsTypeOK, AuthorsCounted
    <2> QED
      BY <2>2, <2>3
  <1> QED
    BY <1>1, JobsInvariance, PTL
-----------------------------------------------------------------------------
(* No job is lost.  A worker holds the lock of the job that it runs, unless*)
(* the call "stall" is made in the scenario; a holder that is gone has     *)
(* died, and a job is taken back without such a call for a death only.     *)

RunsKnown ==
    \A w \in Workers :
        /\ runs[w].at = "idle" => runs[w] = IdleRun
        /\ runs[w].at = "failReport" => JobType[runs[w].job] # "EXPORT"

LocksAreHeld ==
    ~Called("stall") =>
        \A w \in Workers : runs[w].at # "idle" =>
            queue[runs[w].job].at = "active" /\ queue[runs[w].job].worker = w

DeathsAreCounted ==
    \A j \in Jobs :
        /\ queue[j].at = "active" => queue[j].worker \in Workers
        /\ HolderIsGone(j) => crashes > 0
        /\ ~Called("stall") =>
              /\ queue[j].stalls > 0 => crashes > 0
              /\ queue[j].stalls > 0 /\ HolderIsGone(j) => crashes > 1

HandsInv == RunsKnown /\ LocksAreHeld /\ DeathsAreCounted /\ NoJobIsLost

(* A worker goes on with its job, or leaves it with something written; it  *)
(* touches no other job's row.                                             *)
GoesOn(w) ==
    /\ UNCHANGED queue
    /\ \E r \in RunType :
          /\ runs' = [runs EXCEPT ![w] = r]
          /\ r.at # "idle" /\ r.job = runs[w].job
          /\ r.at = "failReport" => JobType[r.job] # "EXPORT"

Leaves(w) ==
    /\ Finish(w)
    /\ \/ jobs'[runs[w].job].status \in TerminalStatuses
       \/ JobType[runs[w].job] # "EXPORT" /\ Called("storageFails")

LEMMA GoesOnOrLeaves ==
  ASSUME JobsInv, RunsKnown, NEW w \in Workers, ContinueRun(w)
  PROVE  /\ runs[w].at # "idle" /\ runs[w].job \in Jobs
         /\ GoesOn(w) \/ Leaves(w)
         /\ \A j \in Jobs : j # runs[w].job => jobs'[j] = jobs[j]
  <1> DEFINE r == runs[w]
  <1>1. r.at # "idle"
    BY DEF ContinueRun, SetRunning, Download, FindRow, CreateRow, EndRows, Upload,
           FinishDone, FailReport, FinishFailed
  <1>2. r \in RunType /\ RunOK(w) /\ r.job \in Jobs
    BY <1>1, RunTyped DEF JobsInv, RunsOK, RunOK
  <1>3. \A j \in Jobs : j # r.job => jobs'[j] = jobs[j]
    BY <1>2 DEF ContinueRun, SetRunning, Download, FindRow, CreateRow, EndRows, Upload,
           FinishDone, FailReport, FinishFailed, JobsInv, JobsTypeOK
  <1> SUFFICES GoesOn(w) \/ Leaves(w)
    BY <1>1, <1>2, <1>3
  <1>4. ASSUME NEW at \in RunSteps, Step(w, at), UNCHANGED queue, at # "idle",
               at = "failReport" => JobType[r.job] # "EXPORT"
        PROVE  GoesOn(w)
    <2>1. /\ [r EXCEPT !.at = at] \in RunType /\ [r EXCEPT !.at = at].at = at
          /\ [r EXCEPT !.at = at].job = r.job
      BY <1>2 DEF RunType
    <2>2. runs' = [runs EXCEPT ![w] = [r EXCEPT !.at = at]]
      BY <1>4 DEF Step
    <2> QED
      BY <1>4, <2>1, <2>2 DEF GoesOn
  <1>5. ASSUME NEW good \in BOOLEAN, NextRow(w, good), UNCHANGED queue
        PROVE  GoesOn(w)
    <2> DEFINE processed == IF good THEN r.processed + 1 ELSE r.processed
               failed == IF good THEN r.failed ELSE r.failed + 1
               new == [r EXCEPT !.at = "row", !.row = r.row + 1, !.processed = processed,
                                !.failed = failed]
    <2>1. processed \in Nat /\ failed \in Nat /\ r.row + 1 \in Nat
      BY <1>2 DEF RunType
    <2>2. runs' = [runs EXCEPT ![w] = new]
      BY <1>5 DEF NextRow
    <2> HIDE DEF processed, failed
    <2>3. new \in RunType /\ new.at = "row" /\ new.job = r.job
      BY <1>2, <2>1, RowDone DEF RunType
    <2> HIDE DEF new
    <2> QED
      BY <1>5, <2>2, <2>3 DEF GoesOn
  <1>6. CASE SetRunning(w)
    <2>1. PICK at \in {"upload", "download"} : Step(w, at)
      BY <1>6 DEF SetRunning
    <2> QED
      BY <1>2, <1>4, <1>6, <2>1 DEF SetRunning, RunSteps
  <1>7. CASE Download(w)
    <2>1. JobType[r.job] # "EXPORT" /\ UNCHANGED queue
      BY <1>2, <1>7 DEF Download, RunOK
    <2>2. Step(w, "row") \/ Step(w, "failReport")
      BY <1>7 DEF Download
    <2> QED
      BY <1>2, <1>4, <2>1, <2>2 DEF RunSteps
  <1>8. CASE FindRow(w)
    <2>1. NextRow(w, TRUE) \/ NextRow(w, FALSE) \/ Step(w, "create")
      BY <1>8 DEF FindRow
    <2>2. UNCHANGED queue
      BY <1>8 DEF FindRow
    <2> QED
      BY <1>2, <1>4, <1>5, <2>1, <2>2 DEF RunSteps
  <1>9. CASE CreateRow(w)
    BY <1>2, <1>5, <1>9 DEF CreateRow
  <1>10. CASE EndRows(w)
    <2>1. PICK at \in {"upload", "finish"} : Step(w, at)
      BY <1>10 DEF EndRows
    <2> QED
      BY <1>2, <1>4, <1>10, <2>1 DEF EndRows, RunSteps
  <1>11. CASE Upload(w)
    <2>1. UNCHANGED queue
      BY <1>11 DEF Upload
    <2>2. CASE runs' = [runs EXCEPT ![w] = [r EXCEPT !.at = "finish", !.file = TRUE]]
      <3>1. /\ [r EXCEPT !.at = "finish", !.file = TRUE] \in RunType
            /\ [r EXCEPT !.at = "finish", !.file = TRUE].at = "finish"
            /\ [r EXCEPT !.at = "finish", !.file = TRUE].job = r.job
        BY <1>2 DEF RunType, RunSteps
      <3> QED
        BY <2>1, <2>2, <3>1 DEF GoesOn
    <2>3. CASE Step(w, IF JobType[r.job] = "EXPORT" THEN "fail" ELSE "failReport")
      BY <1>2, <1>4, <2>1, <2>3 DEF RunSteps
    <2> QED
      BY <1>11, <2>2, <2>3 DEF Upload
  <1>12. CASE FailReport(w)
    <2>1. JobType[r.job] # "EXPORT"
      BY <1>12 DEF FailReport, RunsKnown
    <2>2. CASE Called("storageFails") /\ Finish(w)
      BY <2>1, <2>2 DEF Leaves
    <2>3. CASE runs' = [runs EXCEPT ![w] = [r EXCEPT !.at = "fail", !.file = TRUE]] /\ UNCHANGED queue
      <3>1. /\ [r EXCEPT !.at = "fail", !.file = TRUE] \in RunType
            /\ [r EXCEPT !.at = "fail", !.file = TRUE].at = "fail"
            /\ [r EXCEPT !.at = "fail", !.file = TRUE].job = r.job
        BY <1>2 DEF RunType, RunSteps
      <3> QED
        BY <2>3, <3>1 DEF GoesOn
    <2>4. /\ r.at = "failReport"
          /\ \/ runs' = [runs EXCEPT ![w] = [r EXCEPT !.at = "fail", !.file = TRUE]] /\ UNCHANGED queue
             \/ Called("storageFails") /\ Finish(w)
      BY <1>12 DEF FailReport
    <2> QED
      BY <1>2, <2>2, <2>3, <2>4
  <1>13. CASE FinishDone(w)
    <2>1. jobs'[r.job].status = "DONE"
      BY <1>2, <1>13 DEF FinishDone, JobsInv, JobsTypeOK
    <2> QED
      BY <1>13, <2>1 DEF FinishDone, Leaves, TerminalStatuses
  <1>14. CASE FinishFailed(w)
    <2>1. jobs'[r.job].status = "FAILED"
      BY <1>2, <1>14 DEF FinishFailed, JobsInv, JobsTypeOK
    <2> QED
      BY <1>14, <2>1 DEF FinishFailed, Leaves, TerminalStatuses
  <1> QED
    BY <1>6, <1>7, <1>8, <1>9, <1>10, <1>11, <1>12, <1>13, <1>14 DEF ContinueRun
LEMMA HandsInitial == Init => HandsInv
  BY DEF Init, JobsInit, HandsInv, RunsKnown, LocksAreHeld, DeathsAreCounted, NoJobIsLost,
         HolderIsGone, IdleRun, NotQueued

LEMMA GoesOnHands ==
  ASSUME JobsInv, HandsInv, NEW w \in Workers, ContinueRun(w), GoesOn(w),
         UNCHANGED <<crashes, scenario>>
  PROVE  HandsInv'
  <1>1. /\ runs[w].at # "idle" /\ runs[w].job \in Jobs
        /\ \A j \in Jobs : j # runs[w].job => jobs'[j] = jobs[j]
    BY GoesOnOrLeaves DEF HandsInv
  <1>2. PICK r \in RunType : /\ runs' = [runs EXCEPT ![w] = r]
                             /\ r.at # "idle" /\ r.job = runs[w].job
                             /\ r.at = "failReport" => JobType[r.job] # "EXPORT"
    BY DEF GoesOn
  <1>3. /\ \A v \in Workers : runs'[v] = IF v = w THEN r ELSE runs[v]
        /\ \A v \in Workers : runs'[v].job = runs[v].job
        /\ UNCHANGED <<queue, crashes, scenario>>
    BY <1>2 DEF JobsInv, JobsTypeOK, GoesOn
  <1>4. RunsKnown' /\ LocksAreHeld'
    BY <1>1, <1>2, <1>3 DEF HandsInv, RunsKnown, LocksAreHeld, Called
  <1>5. DeathsAreCounted'
    BY <1>3 DEF HandsInv, DeathsAreCounted, HolderIsGone, Called
  <1>6. NoJobIsLost'
    BY <1>1, <1>3 DEF HandsInv, NoJobIsLost, Called
  <1> QED
    BY <1>4, <1>5, <1>6 DEF HandsInv

LEMMA LeavesHands ==
  ASSUME JobsInv, HandsInv, NEW w \in Workers, ContinueRun(w), Leaves(w),
         UNCHANGED <<crashes, scenario>>
  PROVE  HandsInv'
  <1> DEFINE j0 == runs[w].job
  <1>1. /\ runs[w].at # "idle" /\ j0 \in Jobs
        /\ \A j \in Jobs : j # j0 => jobs'[j] = jobs[j]
    BY GoesOnOrLeaves DEF HandsInv
  <1>2. \A v \in Workers : runs'[v] = IF v = w THEN IdleRun ELSE runs[v]
    BY DEF Leaves, Finish, JobsInv, JobsTypeOK
  <1>3. /\ \A j \in Jobs : j # j0 => queue'[j] = queue[j]
        /\ \A j \in Jobs : queue'[j].worker = queue[j].worker /\ queue'[j].stalls = queue[j].stalls
        /\ queue[j0].at = "active" /\ queue[j0].worker = w => queue'[j0].at = "finished"
        /\ ~(queue[j0].at = "active" /\ queue[j0].worker = w) => queue'[j0] = queue[j0]
    BY <1>1 DEF Leaves, Finish, JobsInv, JobsTypeOK
  <1>4. IdleRun.at = "idle" /\ IdleRun.job = 0 /\ 0 \notin Jobs
    BY PlatformAssumption DEF IdleRun
  <1>5. RunsKnown'
    BY <1>2, <1>4 DEF HandsInv, RunsKnown
  <1>6. LocksAreHeld'
    <2> SUFFICES ASSUME ~Called("stall"), NEW v \in Workers, runs'[v].at # "idle"
                 PROVE  queue'[runs'[v].job].at = "active" /\ queue'[runs'[v].job].worker = v
      BY DEF LocksAreHeld, Called
    <2>1. v # w /\ runs'[v] = runs[v]
      BY <1>2, <1>4
    <2>2. queue[runs[v].job].at = "active" /\ queue[runs[v].job].worker = v
      BY <2>1 DEF HandsInv, LocksAreHeld
    <2>3. runs[v].job \in Jobs
      BY <2>1 DEF JobsInv, RunsOK, RunOK
    <2> QED
      BY <1>3, <2>1, <2>2, <2>3
  <1>7. DeathsAreCounted'
    <2> SUFFICES ASSUME NEW j \in Jobs
                 PROVE  /\ queue'[j].at = "active" => queue'[j].worker \in Workers
                        /\ HolderIsGone(j)' => crashes' > 0
                        /\ ~Called("stall") =>
                              /\ queue'[j].stalls > 0 => crashes' > 0
                              /\ queue'[j].stalls > 0 /\ HolderIsGone(j)' => crashes' > 1
      BY DEF DeathsAreCounted, Called
    <2>1. queue'[j].at = "active" => queue'[j] = queue[j] /\ queue[j].worker \in Workers
      BY <1>3 DEF HandsInv, DeathsAreCounted
    <2>2. HolderIsGone(j)' => HolderIsGone(j)
      BY <1>1, <1>2, <1>3, <1>4, <2>1 DEF HolderIsGone
    <2> QED
      BY <1>3, <2>1, <2>2 DEF HandsInv, DeathsAreCounted
  <1>8. NoJobIsLost'
    <2> SUFFICES ASSUME NEW j \in Jobs, queue'[j].at = "finished",
                        \A v \in Workers : runs'[v].job # j
                 PROVE  \/ jobs'[j].status \in TerminalStatuses
                        \/ JobType[j] # "EXPORT" /\ Called("storageFails")
                        \/ crashes' > 1
                        \/ crashes' > 0 /\ Called("stall")
      BY DEF NoJobIsLost, Called
    <2>1. CASE j = j0
      BY <2>1 DEF Leaves
    <2>2. CASE j # j0
      <3>1. \A v \in Workers : runs[v].job # j
        BY <1>2, <2>2
      <3> QED
        BY <1>1, <1>3, <2>2, <3>1 DEF HandsInv, NoJobIsLost
    <2> QED
      BY <2>1, <2>2
  <1> QED
    BY <1>5, <1>6, <1>7, <1>8 DEF HandsInv

LEMMA CrashHands ==
  ASSUME JobsInv, HandsInv, NEW w \in Workers, Crash(w)
  PROVE  HandsInv'
  <1>1. /\ \A v \in Workers : runs'[v] = IF v = w THEN IdleRun ELSE runs[v]
        /\ UNCHANGED <<jobs, queue, scenario>>
        /\ crashes' = crashes + 1 /\ crashes \in Nat
    BY DEF Crash, ElsewhereFromJobs, JobsInv, JobsTypeOK
  <1>2. IdleRun.at = "idle" /\ IdleRun.job = 0 /\ 0 \notin Jobs
    BY PlatformAssumption DEF IdleRun
  <1>3. RunsKnown' /\ LocksAreHeld'
    BY <1>1, <1>2 DEF HandsInv, RunsKnown, LocksAreHeld, Called
  <1>4. DeathsAreCounted'
    BY <1>1 DEF HandsInv, DeathsAreCounted, HolderIsGone, Called
  <1>5. NoJobIsLost'
    <2> SUFFICES ASSUME NEW j \in Jobs, queue[j].at = "finished",
                        \A v \in Workers : runs'[v].job # j
                 PROVE  \/ jobs[j].status \in TerminalStatuses
                        \/ JobType[j] # "EXPORT" /\ Called("storageFails")
                        \/ crashes' > 1
                        \/ crashes' > 0 /\ Called("stall")
      BY <1>1 DEF NoJobIsLost, Called
    <2>1. CASE runs[w].job # j
      <3>1. \A v \in Workers : runs[v].job # j
        BY <1>1, <2>1
      <3> QED
        BY <1>1, <3>1 DEF HandsInv, NoJobIsLost
    <2>2. CASE runs[w].job = j
      <3>1. runs[w].at # "idle"
        BY <1>2, <2>2 DEF HandsInv, RunsKnown
      <3>2. Called("stall")
        BY <2>2, <3>1 DEF HandsInv, LocksAreHeld
      <3> QED
        BY <1>1, <3>2
    <2> QED
      BY <2>1, <2>2
  <1> QED
    BY <1>3, <1>4, <1>5 DEF HandsInv

LEMMA TakeJobHands ==
  ASSUME JobsInv, HandsInv, NEW w \in Workers, NEW j \in Jobs, TakeJob(w, j)
  PROVE  HandsInv'
  <1> DEFINE new == [IdleRun EXCEPT !.at = "run", !.job = j]
  <1>1. /\ \A v \in Workers : runs'[v] = IF v = w THEN new ELSE runs[v]
        /\ runs[w] = IdleRun /\ queue[j].at = "waiting"
        /\ UNCHANGED <<jobs, crashes, scenario>>
    BY DEF TakeJob, ElsewhereFromRuns, ElsewhereFromJobs, JobsInv, JobsTypeOK
  <1>2. /\ queue'[j].at = "active" /\ queue'[j].worker = w
        /\ \A i \in Jobs : queue'[i].stalls = queue[i].stalls
        /\ \A i \in Jobs : i # j => queue'[i] = queue[i]
    BY DEF TakeJob, JobsInv, JobsTypeOK
  <1>3. /\ IdleRun.at = "idle" /\ IdleRun.job = 0 /\ 0 \notin Jobs
        /\ new.at = "run" /\ new.job = j
    BY PlatformAssumption DEF IdleRun
  <1> HIDE DEF new
  <1>4. RunsKnown'
    BY <1>1, <1>3 DEF HandsInv, RunsKnown
  <1>5. LocksAreHeld'
    <2> SUFFICES ASSUME ~Called("stall"), NEW v \in Workers, runs'[v].at # "idle"
                 PROVE  queue'[runs'[v].job].at = "active" /\ queue'[runs'[v].job].worker = v
      BY <1>1 DEF LocksAreHeld, Called
    <2>1. CASE v = w
      BY <1>1, <1>2, <1>3, <2>1
    <2>2. CASE v # w
      <3>1. runs[v].job \in Jobs /\ queue[runs[v].job].at = "active" /\ queue[runs[v].job].worker = v
        BY <1>1, <2>2 DEF HandsInv, LocksAreHeld, JobsInv, RunsOK, RunOK
      <3> QED
        BY <1>1, <1>2, <2>2, <3>1
    <2> QED
      BY <2>1, <2>2
  <1>6. DeathsAreCounted'
    <2> SUFFICES ASSUME NEW i \in Jobs
                 PROVE  /\ queue'[i].at = "active" => queue'[i].worker \in Workers
                        /\ HolderIsGone(i)' => HolderIsGone(i)
      BY <1>1, <1>2 DEF HandsInv, DeathsAreCounted, Called
    <2>1. CASE i = j
      BY <1>1, <1>2, <1>3, <2>1 DEF HolderIsGone
    <2>2. CASE i # j
      BY <1>1, <1>2, <1>3, <2>2 DEF HandsInv, DeathsAreCounted, HolderIsGone
    <2> QED
      BY <2>1, <2>2
  <1>7. NoJobIsLost'
    <2>1. ASSUME NEW i \in Jobs, queue'[i].at = "finished", \A v \in Workers : runs'[v].job # i
          PROVE  queue[i].at = "finished" /\ \A v \in Workers : runs[v].job # i
      <3>1. i # j
        BY <1>2, <2>1
      <3> QED
        BY <1>1, <1>2, <1>3, <2>1, <3>1
    <2> QED
      BY <1>1, <2>1 DEF HandsInv, NoJobIsLost, Called
  <1> QED
    BY <1>4, <1>5, <1>6, <1>7 DEF HandsInv

LEMMA StallHands ==
  ASSUME JobsInv, HandsInv, NEW j \in Jobs, Stall(j)
  PROVE  HandsInv'
  <1>1. /\ UNCHANGED <<jobs, runs, crashes, scenario>>
        /\ queue[j].at = "active" /\ (~HolderIsGone(j) => Called("stall"))
        /\ queue[j].stalls \in 0 .. 1 /\ crashes \in Nat
    BY DEF Stall, ElsewhereFromRuns, ElsewhereFromJobs, JobsInv, JobsTypeOK
  <1>2. /\ queue'[j].at # "active"
        /\ queue[j].stalls = 0 => queue'[j].at = "waiting"
        /\ \A i \in Jobs : i # j => queue'[i] = queue[i]
    BY DEF Stall, JobsInv, JobsTypeOK
  <1>3. RunsKnown'
    BY <1>1 DEF HandsInv, RunsKnown
  <1>4. LocksAreHeld'
    <2> SUFFICES ASSUME ~Called("stall"), NEW v \in Workers, runs[v].at # "idle"
                 PROVE  queue'[runs[v].job].at = "active" /\ queue'[runs[v].job].worker = v
      BY <1>1 DEF LocksAreHeld, Called
    <2>1. /\ runs[v].job \in Jobs
          /\ queue[runs[v].job].at = "active" /\ queue[runs[v].job].worker = v
      BY DEF HandsInv, LocksAreHeld, JobsInv, RunsOK, RunOK
    <2>2. runs[v].job # j
      BY <1>1, <2>1 DEF HolderIsGone
    <2> QED
      BY <1>2, <2>1, <2>2
  <1>5. DeathsAreCounted'
    <2> SUFFICES ASSUME NEW i \in Jobs
                 PROVE  /\ queue'[i].at = "active" => queue'[i].worker \in Workers
                        /\ HolderIsGone(i)' => crashes > 0
                        /\ ~Called("stall") =>
                              /\ queue'[i].stalls > 0 => crashes > 0
                              /\ queue'[i].stalls > 0 /\ HolderIsGone(i)' => crashes > 1
      BY <1>1 DEF DeathsAreCounted, Called
    <2>1. CASE i = j
      BY <1>1, <1>2, <2>1 DEF HandsInv, DeathsAreCounted, HolderIsGone
    <2>2. CASE i # j
      BY <1>1, <1>2, <2>2 DEF HandsInv, DeathsAreCounted, HolderIsGone
    <2> QED
      BY <2>1, <2>2
  <1>6. NoJobIsLost'
    <2> SUFFICES ASSUME NEW i \in Jobs, queue'[i].at = "finished",
                        \A v \in Workers : runs[v].job # i
                 PROVE  \/ jobs[i].status \in TerminalStatuses
                        \/ JobType[i] # "EXPORT" /\ Called("storageFails")
                        \/ crashes > 1
                        \/ crashes > 0 /\ Called("stall")
      BY <1>1 DEF NoJobIsLost, Called
    <2>1. CASE i = j
      <3>1. HolderIsGone(j) /\ queue[j].stalls = 1
        BY <1>1, <1>2, <2>1 DEF HandsInv, DeathsAreCounted, HolderIsGone
      <3> QED
        BY <1>1, <3>1 DEF HandsInv, DeathsAreCounted
    <2>2. CASE i # j
      BY <1>2, <2>2 DEF HandsInv, NoJobIsLost
    <2> QED
      BY <2>1, <2>2
  <1> QED
    BY <1>3, <1>4, <1>5, <1>6 DEF HandsInv

LEMMA EnqueueHands ==
  ASSUME JobsInv, HandsInv, NEW j \in Jobs, Enqueue(j)
  PROVE  HandsInv'
  <1>1. /\ UNCHANGED <<jobs, runs, crashes, scenario>>
        /\ queue[j].at = "none" /\ queue[j].stalls = 0
    BY DEF Enqueue, ElsewhereFromJobs, NotQueued
  <1>2. /\ queue'[j].at = "waiting" /\ queue'[j].stalls = 0
        /\ \A i \in Jobs : i # j => queue'[i] = queue[i]
    BY <1>1 DEF Enqueue, JobsInv, JobsTypeOK
  <1>3. \A v \in Workers : runs[v].at # "idle" => runs[v].job \in Jobs
    BY DEF JobsInv, RunsOK, RunOK
  <1>4. RunsKnown' /\ LocksAreHeld'
    BY <1>1, <1>2, <1>3 DEF HandsInv, RunsKnown, LocksAreHeld, Called
  <1>5. DeathsAreCounted'
    BY <1>1, <1>2 DEF HandsInv, DeathsAreCounted, HolderIsGone, Called
  <1>6. NoJobIsLost'
    BY <1>1, <1>2 DEF HandsInv, NoJobIsLost, Called
  <1> QED
    BY <1>4, <1>5, <1>6 DEF HandsInv

(* A row that is new is nothing that a worker has left.                    *)
LEMMA OtherHands ==
  ASSUME JobsInv, HandsInv, UNCHANGED <<queue, runs, crashes, scenario>>,
         UNCHANGED jobs \/ \E j \in Jobs : CreateJob(j)
  PROVE  HandsInv'
  <1>1. \A j \in Jobs : jobs[j].status \in TerminalStatuses => jobs'[j] = jobs[j]
    BY DEF CreateJob, JobsInv, JobsTypeOK, TerminalStatuses
  <1>2. RunsKnown' /\ LocksAreHeld' /\ DeathsAreCounted'
    BY DEF HandsInv, RunsKnown, LocksAreHeld, DeathsAreCounted, HolderIsGone, Called
  <1>3. NoJobIsLost'
    BY <1>1 DEF HandsInv, NoJobIsLost, Called
  <1> QED
    BY <1>2, <1>3 DEF HandsInv

LEMMA HandsStep == JobsInv /\ HandsInv /\ [Next]_vars => HandsInv'
  <1> SUFFICES ASSUME JobsInv, HandsInv, [Next]_vars
               PROVE  HandsInv'
    OBVIOUS
  <1>1. ASSUME NEW j \in Jobs, CreateJob(j) \/ StartPolling(j)
        PROVE  HandsInv'
    BY <1>1, OtherHands DEF CreateJob, StartPolling, ElsewhereFromJobs
  <1>2. ASSUME NEW j \in Jobs, Enqueue(j) \/ Stall(j)
        PROVE  HandsInv'
    BY <1>2, EnqueueHands, StallHands
  <1>3. ASSUME NEW w \in Workers, ContinueRun(w)
        PROVE  HandsInv'
    BY <1>3, GoesOnOrLeaves, ContinueRunQueue, GoesOnHands, LeavesHands DEF HandsInv
  <1>4. ASSUME NEW w \in Workers, Crash(w)
        PROVE  HandsInv'
    BY <1>4, CrashHands
  <1>5. CASE Deliver
    BY <1>5, TakeJobHands DEF Deliver
  <1>6. CASE Fetch \/ Poll \/ FetchFails
    BY <1>6, OtherHands DEF Fetch, Poll, FetchFails, PollGoto, ElsewhereFromJobs
  <1>7. CASE UNCHANGED jobVars
    BY <1>7, ScenarioStays, OtherHands DEF jobVars
  <1> QED
    BY <1>1, <1>2, <1>3, <1>4, <1>5, <1>6, <1>7, StepsOfJobs DEF JobsNext

LEMMA HandsInvariance == Spec => []HandsInv
  BY HandsInitial, HandsStep, JobsInvariance, PTL DEF Spec

(* What is enqueued ends: a job that is finished for BullMQ and in no      *)
(* worker's hands is DONE or FAILED, whatever stalls, but for the failures *)
(* that the code has no answer to.                                         *)
THEOREM FinishedJobsHaveEnded == Spec => []NoJobIsLost
  <1>1. HandsInv => NoJobIsLost
    BY DEF HandsInv
  <1> QED
    BY <1>1, HandsInvariance, PTL
-----------------------------------------------------------------------------
(* Jobs do not go round in circles.                                        *)

LEMMA RunLeftIs ==
  ASSUME NEW r \in RunType
  PROVE  /\ r.at = "idle" => RunLeft(r) = 0
         /\ r.at \in {"finish", "fail"} => RunLeft(r) = 1
         /\ r.at = "failReport" => RunLeft(r) = 2
         /\ r.at = "upload" => RunLeft(r) = 3
         /\ r.at = "create" => RunLeft(r) = 3 + 2 * (Len(JobRows[r.job]) - r.row)
         /\ r.at = "row" => RunLeft(r) = 4 + 2 * (Len(JobRows[r.job]) - r.row)
         /\ r.at = "download" => RunLeft(r) = 5 + 2 * (Len(JobRows[r.job]) - r.row)
         /\ r.at = "run" => RunLeft(r) = 6 + 2 * (Len(JobRows[r.job]) - r.row)
  BY DEF RunLeft, RunType

LEMMA QueueLeftIs ==
  ASSUME NEW q \in QueueType
  PROVE  /\ QueueLeft(q) = IF q.at = "none" THEN 5
                           ELSE IF q.at = "waiting" THEN 4 - 2 * q.stalls
                           ELSE IF q.at = "active" THEN 3 - 2 * q.stalls
                           ELSE 0
         /\ QueueLeft(q) \in Nat
         /\ q.stalls \in {0, 1}
  <1>1. /\ q.at \in {"none", "waiting", "active", "finished"}
        /\ q.stalls \in {0, 1}
    BY DEF QueueType
  <1>2. CASE q.at = "none"
    BY <1>1, <1>2 DEF QueueLeft
  <1>3. CASE q.at = "waiting"
    BY <1>1, <1>3 DEF QueueLeft
  <1>4. CASE q.at = "active"
    BY <1>1, <1>4 DEF QueueLeft
  <1>5. CASE q.at = "finished"
    BY <1>1, <1>5 DEF QueueLeft
  <1> QED
    BY <1>1, <1>2, <1>3, <1>4, <1>5

(* Every step of a worker's own leaves it fewer.                           *)
LEMMA RunIsProgress ==
  ASSUME JobsInv, NEW w \in Workers, ContinueRun(w)
  PROVE  /\ RunLeft(runs'[w]) < RunLeft(runs[w])
         /\ \A v \in Workers \ {w} : runs'[v] = runs[v]
  <1> DEFINE r == runs[w]
             s == runs'[w]
             rows == Len(JobRows[r.job]) - r.row
  <1>1. runs' \in [Workers -> RunType] /\ r \in RunType /\ s \in RunType
    BY RunTyped, ContinueRunStep DEF JobsInv, RunResult
  <1>2. RunOK(w) /\ r.at # "idle" /\ r.job \in Jobs
    BY DEF ContinueRun, SetRunning, Download, FindRow, CreateRow, EndRows, Upload,
           FinishDone, FailReport, FinishFailed, JobsInv, RunsOK, RunOK
  <1>3. Len(JobRows[r.job]) \in Nat /\ r.row \in Nat
    BY <1>1, <1>2, RowsType DEF RunType
  <1>4. \E new : runs' = [runs EXCEPT ![w] = new]
    BY DEF ContinueRun, SetRunning, Download, FindRow, CreateRow, EndRows, Upload,
           FinishDone, FailReport, FinishFailed, Finish, Step, NextRow
  <1>5. \A v \in Workers \ {w} : runs'[v] = runs[v]
    BY <1>4 DEF JobsInv, JobsTypeOK
  <1>6. ASSUME NEW at, Step(w, at)
        PROVE  s.at = at /\ s.job = r.job /\ s.row = r.row
    <2>1. s = [r EXCEPT !.at = at]
      BY <1>6 DEF Step, JobsInv, JobsTypeOK
    <2> QED
      BY <1>1, <2>1 DEF RunType
  <1>7. ASSUME NEW good, NextRow(w, good)
        PROVE  s.at = "row" /\ s.job = r.job /\ s.row = r.row + 1
    BY <1>1, <1>7 DEF NextRow, JobsInv, JobsTypeOK, RunType
  <1>8. ASSUME Finish(w)
        PROVE  s.at = "idle"
    BY <1>8, IdleRunType DEF Finish, JobsInv, JobsTypeOK
  <1> SUFFICES RunLeft(s) < RunLeft(r)
    BY <1>5
  <1>9. CASE SetRunning(w)
    <2>1. r.at = "run" /\ r.row = 0 /\ (s.at = "upload" \/ (s.at = "download" /\ s.job = r.job /\ s.row = r.row))
      BY <1>2, <1>6, <1>9 DEF SetRunning, RunOK
    <2> QED
      BY <1>1, <1>3, <2>1, RunLeftIs
  <1>10. CASE Download(w)
    <2>1. r.at = "download" /\ r.row = 0
          /\ (s.at = "failReport" \/ (s.at = "row" /\ s.job = r.job /\ s.row = r.row))
      BY <1>2, <1>6, <1>10 DEF Download, RunOK
    <2>2. RunLeft(r) = 5 + 2 * rows
      BY <1>1, <2>1, RunLeftIs
    <2>3. RunLeft(s) = 2 \/ RunLeft(s) = 4 + 2 * rows
      BY <1>1, <2>1, RunLeftIs
    <2> QED
      BY <1>3, <2>1, <2>2, <2>3
  <1>11. CASE FindRow(w)
    <2>1. NextRow(w, TRUE) \/ NextRow(w, FALSE) \/ Step(w, "create")
      BY <1>11 DEF FindRow
    <2>2. r.at = "row" /\ r.row < Len(JobRows[r.job])
      BY <1>2, <1>3, <1>11 DEF FindRow, Rows
    <2>3. \/ s.at = "create" /\ s.job = r.job /\ s.row = r.row
          \/ s.at = "row" /\ s.job = r.job /\ s.row = r.row + 1
      <3>1. CASE NextRow(w, TRUE) \/ NextRow(w, FALSE)
        BY <1>7, <3>1
      <3>2. CASE Step(w, "create")
        BY <1>6, <3>2
      <3> QED
        BY <2>1, <3>1, <3>2
    <2>4. RunLeft(r) = 4 + 2 * rows
      BY <1>1, <2>2, RunLeftIs
    <2>5. RunLeft(s) = 3 + 2 * rows \/ RunLeft(s) = 4 + 2 * (Len(JobRows[r.job]) - (r.row + 1))
      BY <1>1, <2>3, RunLeftIs
    <2> QED
      BY <1>3, <2>4, <2>5
  <1>12. CASE CreateRow(w)
    <2>1. r.at = "create" /\ s.at = "row" /\ s.job = r.job /\ s.row = r.row + 1
      BY <1>7, <1>12 DEF CreateRow
    <2>2. RunLeft(r) = 3 + 2 * rows
      BY <1>1, <2>1, RunLeftIs
    <2>3. RunLeft(s) = 4 + 2 * (Len(JobRows[r.job]) - (r.row + 1))
      BY <1>1, <2>1, RunLeftIs
    <2> QED
      BY <1>3, <2>2, <2>3
  <1>13. CASE EndRows(w)
    <2>1. r.at = "row" /\ r.row = Len(JobRows[r.job])
      BY <1>13 DEF EndRows, Rows
    <2>2. s.at \in {"upload", "finish"}
      BY <1>6, <1>13 DEF EndRows
    <2> QED
      BY <1>1, <1>3, <2>1, <2>2, RunLeftIs
  <1>14. CASE Upload(w)
    <2>1. r.at = "upload" /\ s.at \in {"finish", "fail", "failReport"}
      BY <1>1, <1>6, <1>14 DEF Upload, JobsInv, JobsTypeOK, RunType
    <2> QED
      BY <1>1, <2>1, RunLeftIs
  <1>15. CASE FailReport(w)
    <2>1. r.at = "failReport" /\ s.at \in {"fail", "idle"}
      BY <1>1, <1>8, <1>15 DEF FailReport, JobsInv, JobsTypeOK, RunType
    <2> QED
      BY <1>1, <2>1, RunLeftIs
  <1>16. CASE FinishDone(w) \/ FinishFailed(w)
    <2>1. r.at \in {"finish", "fail"} /\ s.at = "idle"
      BY <1>8, <1>16 DEF FinishDone, FinishFailed
    <2> QED
      BY <1>1, <2>1, RunLeftIs
  <1> QED
    BY <1>9, <1>10, <1>11, <1>12, <1>13, <1>14, <1>15, <1>16 DEF ContinueRun

(* One job gets less in the queue, the others stay.                        *)
LEMMA OneJobQueued ==
  ASSUME JobsInv, JobsInv', NEW j \in Jobs, QueueLeft(queue'[j]) < QueueLeft(queue[j]),
         \A i \in Jobs : i # j => queue'[i] = queue[i]
  PROVE  JobsProgress
  <1>1. \A i \in Jobs : queue[i] \in QueueType /\ queue'[i] \in QueueType
    BY DEF JobsInv, JobsTypeOK, QueueType
  <1>2. \A i \in Jobs : QueueLeft(queue[i]) \in Nat /\ QueueLeft(queue'[i]) \in Nat
    BY <1>1, QueueLeftIs
  <1> QED
    BY <1>2 DEF JobsProgress

(* A step that leaves the queue as it is, and gives one run less to do.    *)
LEMMA OneRunShorter ==
  ASSUME JobsInv, UNCHANGED queue, NEW w \in Workers, RunLeft(runs'[w]) < RunLeft(runs[w]),
         \A v \in Workers \ {w} : runs'[v] = runs[v]
  PROVE  JobsProgress
  <1>1. \A i \in Jobs : QueueLeft(queue[i]) \in Nat
    BY QueueLeftIs DEF JobsInv, JobsTypeOK, QueueType
  <1> QED
    BY <1>1 DEF JobsProgress
LEMMA RunHasLeft ==
  ASSUME JobsInv, NEW w \in Workers, runs[w].at # "idle"
  PROVE  RunLeft(runs[w]) > 0
  <1>1. runs[w] \in RunType /\ RunOK(w) /\ runs[w].job \in Jobs
    BY RunTyped DEF JobsInv, RunsOK, RunOK
  <1>2. Len(JobRows[runs[w].job]) \in Nat /\ runs[w].row \in Nat
    BY <1>1, RowsType DEF RunType
  <1>3. runs[w].at \in RunSteps
    BY <1>1 DEF RunType
  <1>4. CASE runs[w].at \in {"run", "download", "row", "create"}
    <2>1. runs[w].row <= Len(JobRows[runs[w].job])
      BY <1>1, <1>2, <1>4 DEF RunOK
    <2> QED
      BY <1>1, <1>2, <1>4, <2>1, RunLeftIs
  <1>5. CASE runs[w].at \in {"upload", "failReport", "finish", "fail"}
    BY <1>1, <1>5, RunLeftIs
  <1> QED
    BY <1>3, <1>4, <1>5 DEF RunSteps

LEMMA QueueSteps ==
  ASSUME JobsInv, JobsInv', NEW j \in Jobs,
         \/ Enqueue(j) \/ Stall(j)
         \/ \E w \in Workers : TakeJob(w, j)
         \/ \E w \in Workers : /\ runs[w].job = j /\ Finish(w)
                               /\ queue[j].at = "active" /\ queue[j].worker = w
  PROVE  JobsProgress
  <1> DEFINE q == queue[j]
             r == queue'[j]
  <1>1. q \in QueueType /\ r \in QueueType
    BY DEF JobsInv, JobsTypeOK, QueueType
  <1>2. \A i \in Jobs : i # j => queue'[i] = queue[i]
    BY DEF Enqueue, Stall, TakeJob, Finish, JobsInv, JobsTypeOK
  <1>3. \/ q.at = "none" /\ q.stalls = 0 /\ r.at = "waiting" /\ r.stalls = 0
        \/ q.at = "waiting" /\ r.at = "active" /\ r.stalls = q.stalls
        \/ q.at = "active" /\ q.stalls = 0 /\ r.at = "waiting" /\ r.stalls = 1
        \/ q.at = "active" /\ r.at = "finished"
    <2>1. CASE Enqueue(j)
      BY <2>1 DEF Enqueue, NotQueued, JobsInv, JobsTypeOK
    <2>2. CASE Stall(j)
      BY <1>1, <2>2 DEF Stall, JobsInv, JobsTypeOK, QueueType
    <2>3. ASSUME NEW w \in Workers, TakeJob(w, j)
          PROVE  q.at = "waiting" /\ r.at = "active" /\ r.stalls = q.stalls
      <3>1. r = [q EXCEPT !.at = "active", !.worker = w] /\ q.at = "waiting"
        BY <2>3 DEF TakeJob, JobsInv, JobsTypeOK
      <3> QED
        BY <1>1, <3>1 DEF QueueType
    <2>4. ASSUME NEW w \in Workers, runs[w].job = j, Finish(w),
                 queue[j].at = "active", queue[j].worker = w
          PROVE  q.at = "active" /\ r.at = "finished"
      BY <2>4 DEF Finish, JobsInv, JobsTypeOK
    <2> QED
      BY <2>1, <2>2, <2>3, <2>4
  <1>4. QueueLeft(r) < QueueLeft(q)
    BY <1>1, <1>3, QueueLeftIs
  <1> QED
    BY <1>2, <1>4, OneJobQueued

LEMMA JobsStepIsProgress ==
  ASSUME JobsInv, JobsInv', HandsInv, [Next]_vars, <<queue, runs>>' # <<queue, runs>>
  PROVE  JobsProgress
  <1>1. JobsNext
    BY StepsOfJobs DEF jobVars
  <1>2. ASSUME NEW j \in Jobs, CreateJob(j) \/ StartPolling(j)
        PROVE  FALSE
    BY <1>2 DEF CreateJob, StartPolling
  <1>3. ASSUME NEW j \in Jobs, Enqueue(j) \/ Stall(j)
        PROVE  JobsProgress
    BY <1>3, QueueSteps
  <1>4. ASSUME NEW w \in Workers, ContinueRun(w)
        PROVE  JobsProgress
    <2>1. runs[w].job \in Jobs /\ (GoesOn(w) \/ Leaves(w))
      BY <1>4, GoesOnOrLeaves DEF HandsInv
    <2>2. CASE UNCHANGED queue
      BY <1>4, <2>2, RunIsProgress, OneRunShorter
    <2>3. CASE queue' # queue
      <3>1. Finish(w) /\ queue[runs[w].job].at = "active" /\ queue[runs[w].job].worker = w
        BY <2>1, <2>3 DEF GoesOn, Leaves, Finish
      <3> QED
        BY <2>1, <3>1, QueueSteps
    <2> QED
      BY <2>2, <2>3
  <1>5. ASSUME NEW w \in Workers, Crash(w)
        PROVE  JobsProgress
    <2>1. /\ UNCHANGED queue /\ runs'[w] = IdleRun /\ runs[w] # IdleRun
          /\ \A v \in Workers \ {w} : runs'[v] = runs[v]
      BY <1>5 DEF Crash, JobsInv, JobsTypeOK
    <2>2. RunLeft(runs[w]) > 0
      BY <2>1, RunHasLeft DEF HandsInv, RunsKnown
    <2>3. RunLeft(runs'[w]) = 0
      BY <2>1, IdleRunType, RunLeftIs
    <2> QED
      BY <2>1, <2>2, <2>3, OneRunShorter
  <1>6. CASE Deliver
    BY <1>6, QueueSteps DEF Deliver
  <1>7. CASE Fetch \/ Poll \/ FetchFails
    BY <1>7 DEF Fetch, Poll, FetchFails, PollGoto
  <1> QED
    BY <1>1, <1>2, <1>3, <1>4, <1>5, <1>6, <1>7 DEF JobsNext

(* Every step of the queue and of the workers is progress, which, the jobs *)
(* and the workers being finite sets, can be made finitely often.          *)
THEOREM JobsMakeProgress == Spec => JobsAreProgress
  <1>1. JobsInv /\ JobsInv' /\ HandsInv /\ [Next]_vars => [JobsProgress]_<<queue, runs>>
    BY JobsStepIsProgress
  <1> QED
    BY <1>1, JobsInvariance, HandsInvariance, PTL DEF Spec, JobsAreProgress
=============================================================================
