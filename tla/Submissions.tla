------------------------------- MODULE Submissions -------------------------------
(***************************************************************************)
(* Abstracts from the draft to the decision: AbstractsService and          *)
(* DecisionsService, with the browser's submission wizard as one of the    *)
(* clients.                                                                *)
(*                                                                         *)
(* A request first reads the abstract, decides on what it has read, and    *)
(* writes statements later; nothing is locked and there are no             *)
(* transactions.  The unique indexes on (abstract, version number), on     *)
(* (conference, submission number) and on (abstract, author) are all that  *)
(* two requests find in each other's way.                                  *)
(***************************************************************************)
EXTENDS EditorialTables

Decisions == {"ACCEPTED", "REJECTED", "REVISION_REQUIRED", "WAITLISTED"}
AbstractStatuses == {"NONE", "DRAFT", "SUBMITTED", "RESUBMITTED", "WITHDRAWN"} \cup Decisions
EditableStatuses == {"DRAFT", "REVISION_REQUIRED"}
WithdrawableStatuses == {"DRAFT", "SUBMITTED", "REVISION_REQUIRED"}

(* validateAuthorFlags: one author presents, so the list is not empty.     *)
AuthorLists == (SUBSET People) \ {{}}

SaveSteps == {"readVersion", "insertVersion", "setCurrent"}
SubmitSteps == {"readDeadline", "readForm", "countAuthors", "resubmit", "countNumbers",
                "assignNumber"}
WritingSteps == {"idle", "withdraw", "deleteAuthors", "createAuthors", "updateStatus"}
                \cup SaveSteps \cup SubmitSteps

(* abstract, status and current are what the request has read at first;    *)
(* number is the version or submission number it is about to try.          *)
IdleWriting == [at |-> "idle", abstract |-> 0, status |-> "NONE", current |-> 0,
                number |-> 0, attempts |-> 0, complete |-> FALSE, list |-> {},
                decision |-> "NONE", wizard |-> FALSE]

WritingStates ==
    [at : WritingSteps, abstract : Abstracts \cup {0}, status : AbstractStatuses,
     current : Nat, number : Nat, attempts : Nat, complete : BOOLEAN,
     list : SUBSET People, decision : Decisions \cup {"NONE"}, wizard : BOOLEAN]

ClosedWizard == [step |-> 0, draft |-> 0]

Versions == [number : Nat, complete : BOOLEAN]

SubmissionsTypeOK ==
    /\ settings \in [deadlinePassed : BOOLEAN, authorsRequired : BOOLEAN,
                     preventSpeakerOverlap : BOOLEAN]
    /\ status \in [Abstracts -> AbstractStatuses]
    /\ number \in [Abstracts -> Nat]
    /\ current \in [Abstracts -> Nat]
    /\ versions \in [Abstracts -> SUBSET Versions]
    /\ authors \in [Abstracts -> SUBSET People]
    /\ decisions \in [Abstracts -> SUBSET Decisions]
    /\ revisions \in [Abstracts -> BOOLEAN]
    /\ wizard \in [step : 0 .. 3, draft : Abstracts \cup {0}]
    /\ writing \in [Requests -> WritingStates]

(* Abstracts that were drafted, submitted or accepted, in an orderly way,  *)
(* before the scenario begins.                                             *)
Early == {a \in Abstracts : scenario.start # "empty" /\ a <= scenario.abstracts}

SubmissionsInit ==
    /\ settings = [deadlinePassed |-> FALSE, authorsRequired |-> FALSE,
                   preventSpeakerOverlap |-> TRUE]
    /\ status = [a \in Abstracts |->
                    IF a \notin Early THEN "NONE"
                    ELSE CASE scenario.start = "drafts"    -> "DRAFT"
                           [] scenario.start = "submitted" -> "SUBMITTED"
                           [] scenario.start = "accepted"  -> "ACCEPTED"]
    /\ number = [a \in Abstracts |-> IF a \in Early /\ scenario.start # "drafts" THEN a ELSE 0]
    /\ current = [a \in Abstracts |-> IF a \in Early THEN 1 ELSE 0]
    /\ versions = [a \in Abstracts |->
                      IF a \in Early THEN {[number |-> 1, complete |-> TRUE]} ELSE {}]
    /\ authors = [a \in Abstracts |-> {}]
    /\ decisions = [a \in Abstracts |->
                       IF a \in Early /\ scenario.start = "accepted" THEN {"ACCEPTED"} ELSE {}]
    /\ revisions = [a \in Abstracts |-> FALSE]
    /\ wizard = ClosedWizard
    /\ writing = [p \in Requests |-> IdleWriting]

-----------------------------------------------------------------------------
ElsewhereFromSubmissions == UNCHANGED <<scenario, settings, reviewVars, programmeVars>>

Numbers(a) == {v.number : v \in versions[a]}
Exists(a) == status[a] # "NONE"

BeginWriting(p, call, request) ==
    /\ Called(call)
    /\ writing[p] = IdleWriting
    /\ writing' = [writing EXCEPT ![p] = request]
    /\ UNCHANGED <<submissionTables, wizard>>
    /\ ElsewhereFromSubmissions

StepWriting(p, from, to) ==
    /\ writing[p].at = from
    /\ writing' = [writing EXCEPT ![p].at = to]
    /\ UNCHANGED wizard
    /\ ElsewhereFromSubmissions

(* Mutant: the tab goes on although the save has failed.                   *)
FailGoesOn(p) ==
    /\ writing' = [writing EXCEPT ![p] = IdleWriting]
    /\ wizard' = IF writing[p].wizard /\ writing[p].at = "insertVersion"
                 THEN [wizard EXCEPT !.step = 3] ELSE wizard

(* An error ends the request; the wizard shows it and stays where it is.   *)
Fail(p) == writing' = [writing EXCEPT ![p] = IdleWriting] /\ UNCHANGED wizard

LeaveWizard(p) ==
    /\ wizard' = ClosedWizard
    /\ writing' = [q \in Requests |-> IF q = p THEN IdleWriting
                                      ELSE [writing[q] EXCEPT !.wizard = FALSE]]

(* The answer to the wizard's request: handleCustomFieldsNext and          *)
(* handleAuthorsSave go on (hasAuthorBlock is what the tab has loaded some *)
(* time ago), handleSubmitAbstract leaves the page.                        *)
Succeed(p) ==
    IF writing[p].wizard /\ writing[p].at \notin {"setCurrent", "createAuthors"}
    THEN LeaveWizard(p)
    ELSE /\ writing' = [writing EXCEPT ![p] = IdleWriting]
         /\ IF ~writing[p].wizard THEN UNCHANGED wizard
            ELSE \E step \in IF writing[p].at = "setCurrent" THEN {2, 3} ELSE {3} :
                    wizard' = [wizard EXCEPT !.step = step]

-----------------------------------------------------------------------------
(* createDraft.                                                            *)
Draft(a) ==
    /\ a <= scenario.abstracts
    /\ ~Exists(a) /\ \A b \in Abstracts : b < a => Exists(b)
    /\ status' = [status EXCEPT ![a] = "DRAFT"]
    /\ UNCHANGED <<number, current, versions, authors, decisions, revisions, writing>>
    /\ ElsewhereFromSubmissions

CreateDraft(a) == Called("createDraft") /\ Draft(a) /\ UNCHANGED wizard

(* saveVersion up to its look at the status.  Whether the form is complete *)
(* only matters at submission.                                             *)
Save(p, a, complete, fromWizard) ==
    /\ status[a] \in EditableStatuses
    /\ \A v \in versions[a] : v.number < MaxVersions
    /\ BeginWriting(p, "saveVersion",
           [IdleWriting EXCEPT !.at = "readVersion", !.abstract = a, !.status = status[a],
                               !.complete = complete, !.wizard = fromWizard])

SaveVersion(p, a, complete) == Save(p, a, complete, FALSE)

ReadVersion(p) ==
    /\ writing[p].at = "readVersion"
    /\ writing' = [writing EXCEPT ![p].at = "insertVersion",
                                  ![p].number = IF versions[writing[p].abstract] = {} THEN 1
                                                ELSE Greatest(Numbers(writing[p].abstract)) + 1]
    /\ UNCHANGED <<submissionTables, wizard>>
    /\ ElsewhereFromSubmissions

(* Mutant: the schema has no unique index on the version number.           *)
InsertAnyVersion(p) ==
    LET a == writing[p].abstract IN
    /\ writing[p].at = "insertVersion"
    /\ versions' = [versions EXCEPT ![a] = @ \cup
                       {[number |-> writing[p].number, complete |-> writing[p].complete]}]
    /\ writing' = [writing EXCEPT ![p].at = "setCurrent"]
    /\ UNCHANGED <<abstractRow, authors, decisions, revisions, wizard>>
    /\ ElsewhereFromSubmissions

InsertVersion(p) ==
    LET a == writing[p].abstract IN
    /\ writing[p].at = "insertVersion"
    /\ \/ /\ writing[p].number \notin Numbers(a)
          /\ versions' = [versions EXCEPT ![a] = @ \cup
                             {[number |-> writing[p].number, complete |-> writing[p].complete]}]
          /\ writing' = [writing EXCEPT ![p].at = "setCurrent"]
          /\ UNCHANGED wizard
       \/ writing[p].number \in Numbers(a) /\ Fail(p) /\ UNCHANGED versions
    /\ UNCHANGED <<abstractRow, authors, decisions, revisions>>
    /\ ElsewhereFromSubmissions

SetCurrent(p) ==
    /\ writing[p].at = "setCurrent"
    /\ current' = [current EXCEPT ![writing[p].abstract] = writing[p].number]
    /\ Succeed(p)
    /\ UNCHANGED <<status, number, versions, authors, decisions, revisions>>
    /\ ElsewhereFromSubmissions

-----------------------------------------------------------------------------
(* submit and forceSubmit, which is submit without a deadline: runSubmit.  *)
BeginSubmit(p, call, first, a, fromWizard) ==
    /\ status[a] \in EditableStatuses
    /\ current[a] # 0
    /\ BeginWriting(p, call, [IdleWriting EXCEPT !.at = first, !.abstract = a,
                                  !.status = status[a], !.current = current[a],
                                  !.wizard = fromWizard])

Submit(p, a) == BeginSubmit(p, "submit", "readDeadline", a, FALSE)
ForceSubmit(p, a) == BeginSubmit(p, "forceSubmit", "readForm", a, FALSE)

ReadDeadline(p) ==
    /\ writing[p].at = "readDeadline"
    /\ IF settings.deadlinePassed THEN Fail(p)
       ELSE writing' = [writing EXCEPT ![p].at = "readForm"] /\ UNCHANGED wizard
    /\ UNCHANGED submissionTables
    /\ ElsewhereFromSubmissions

(* A resubmission keeps its number.                                        *)
AfterForm(p) == IF writing[p].status = "REVISION_REQUIRED" THEN "resubmit" ELSE "countNumbers"

(* The version that was current, against the form's active fields.         *)
ReadForm(p) ==
    LET complete == \A v \in versions[writing[p].abstract] :
                        v.number = writing[p].current => v.complete
    IN
    /\ writing[p].at = "readForm"
    /\ IF ~complete THEN Fail(p)
       ELSE /\ writing' = [writing EXCEPT ![p].at =
                              IF settings.authorsRequired THEN "countAuthors" ELSE AfterForm(p)]
            /\ UNCHANGED wizard
    /\ UNCHANGED submissionTables
    /\ ElsewhereFromSubmissions

CountAuthors(p) ==
    /\ writing[p].at = "countAuthors"
    /\ IF authors[writing[p].abstract] = {} THEN Fail(p)
       ELSE writing' = [writing EXCEPT ![p].at = AfterForm(p)] /\ UNCHANGED wizard
    /\ UNCHANGED submissionTables
    /\ ElsewhereFromSubmissions

Resubmit(p) ==
    /\ writing[p].at = "resubmit"
    /\ status' = [status EXCEPT ![writing[p].abstract] = "RESUBMITTED"]
    /\ Succeed(p)
    /\ UNCHANGED <<number, current, versions, authors, decisions, revisions>>
    /\ ElsewhereFromSubmissions

(* assignSubmissionNumberAndSubmit.                                        *)
CountNumbers(p) ==
    /\ writing[p].at = "countNumbers"
    /\ writing' = [writing EXCEPT ![p].at = "assignNumber", ![p].attempts = 0,
                      ![p].number = Cardinality({a \in Abstracts : number[a] # 0}) + 1]
    /\ UNCHANGED <<submissionTables, wizard>>
    /\ ElsewhereFromSubmissions

Taken(a, n) == \E b \in Abstracts \ {a} : number[b] = n

(* Mutant: every collision is tried again with the same number.            *)
AssignSameNumber(p) ==
    LET a == writing[p].abstract IN
    /\ writing[p].at = "assignNumber"
    /\ IF Taken(a, writing[p].number) THEN UNCHANGED <<writing, wizard, status, number>>
       ELSE /\ status' = [status EXCEPT ![a] = "SUBMITTED"]
            /\ number' = [number EXCEPT ![a] = writing[p].number]
            /\ Succeed(p)
    /\ UNCHANGED <<current, versions, authors, decisions, revisions>>
    /\ ElsewhereFromSubmissions

AssignNumber(p) ==
    LET a == writing[p].abstract
        tried == writing[p].attempts + 1
    IN
    /\ writing[p].at = "assignNumber"
    /\ \/ /\ ~Taken(a, writing[p].number)
          /\ status' = [status EXCEPT ![a] = "SUBMITTED"]
          /\ number' = [number EXCEPT ![a] = writing[p].number]
          /\ Succeed(p)
       \/ /\ Taken(a, writing[p].number) /\ tried < MaxSubmissionNumberAttempts
          /\ writing' = [writing EXCEPT ![p].number = @ + 1, ![p].attempts = tried]
          /\ UNCHANGED <<status, number, wizard>>
       \/ /\ Taken(a, writing[p].number) /\ tried >= MaxSubmissionNumberAttempts
          /\ Fail(p)
          /\ UNCHANGED <<status, number>>
    /\ UNCHANGED <<current, versions, authors, decisions, revisions>>
    /\ ElsewhereFromSubmissions

-----------------------------------------------------------------------------
Withdraw(p, a) ==
    /\ status[a] \in WithdrawableStatuses
    /\ BeginWriting(p, "withdraw", [IdleWriting EXCEPT !.at = "withdraw", !.abstract = a])

UpdateWithdrawn(p) ==
    /\ writing[p].at = "withdraw"
    /\ status' = [status EXCEPT ![writing[p].abstract] = "WITHDRAWN"]
    /\ Succeed(p)
    /\ UNCHANGED <<number, current, versions, authors, decisions, revisions>>
    /\ ElsewhereFromSubmissions

(* setAuthors, whatever the abstract's status is.  The people of the model *)
(* have an email and a row in Author, which findOrCreateAuthor finds.      *)
SaveAuthors(p, a, list, fromWizard) ==
    /\ Exists(a)
    /\ BeginWriting(p, "setAuthors",
           [IdleWriting EXCEPT !.at = "deleteAuthors", !.abstract = a, !.list = list,
                               !.wizard = fromWizard])

SetAuthors(p, a, list) == SaveAuthors(p, a, list, FALSE)

DeleteAuthors(p) ==
    /\ StepWriting(p, "deleteAuthors", "createAuthors")
    /\ authors' = [authors EXCEPT ![writing[p].abstract] = {}]
    /\ UNCHANGED <<abstractRow, versions, decisions, revisions>>

CreateAuthors(p) ==
    LET a == writing[p].abstract IN
    /\ writing[p].at = "createAuthors"
    /\ \/ /\ authors[a] \cap writing[p].list = {}
          /\ authors' = [authors EXCEPT ![a] = @ \cup writing[p].list]
          /\ Succeed(p)
       \/ authors[a] \cap writing[p].list # {} /\ Fail(p) /\ UNCHANGED authors
    /\ UNCHANGED <<abstractRow, versions, decisions, revisions>>
    /\ ElsewhereFromSubmissions

-----------------------------------------------------------------------------
(* DecisionsService: recordDecision (a call by the name of its decision)   *)
(* and requestRevision insert their row and then set the status, whatever  *)
(* it is.                                                                  *)

(* Mutant: a decision of WAITLISTED is taken for a preliminary one.        *)
RecordFinalDecision(p, a, decision) ==
    /\ Called(decision)
    /\ writing[p] = IdleWriting
    /\ Exists(a)
    /\ decisions' = IF decision = "WAITLISTED" THEN decisions
                    ELSE [decisions EXCEPT ![a] = @ \cup {decision}]
    /\ writing' = [writing EXCEPT ![p] = [IdleWriting EXCEPT !.at = "updateStatus",
                                             !.abstract = a, !.decision = decision]]
    /\ UNCHANGED <<abstractRow, versions, authors, revisions, wizard>>
    /\ ElsewhereFromSubmissions

RecordDecision(p, a, decision) ==
    /\ Called(decision)
    /\ writing[p] = IdleWriting
    /\ Exists(a)
    /\ decisions' = [decisions EXCEPT ![a] = @ \cup {decision}]
    /\ writing' = [writing EXCEPT ![p] = [IdleWriting EXCEPT !.at = "updateStatus",
                                             !.abstract = a, !.decision = decision]]
    /\ UNCHANGED <<abstractRow, versions, authors, revisions, wizard>>
    /\ ElsewhereFromSubmissions

RequestRevision(p, a) ==
    /\ Called("requestRevision")
    /\ writing[p] = IdleWriting
    /\ Exists(a)
    /\ revisions' = [revisions EXCEPT ![a] = TRUE]
    /\ writing' = [writing EXCEPT ![p] = [IdleWriting EXCEPT !.at = "updateStatus",
                                 !.abstract = a, !.decision = "REVISION_REQUIRED"]]
    /\ UNCHANGED <<abstractRow, versions, authors, decisions, wizard>>
    /\ ElsewhereFromSubmissions

UpdateStatus(p) ==
    /\ writing[p].at = "updateStatus"
    /\ status' = [status EXCEPT ![writing[p].abstract] = writing[p].decision]
    /\ Succeed(p)
    /\ UNCHANGED <<number, current, versions, authors, decisions, revisions>>
    /\ ElsewhereFromSubmissions

-----------------------------------------------------------------------------
(* The wizard.  Its buttons are disabled while their own request is under  *)
(* way; Back never is, and neither is the save of the authors.             *)
Pending(steps) == \E p \in Requests : writing[p].wizard /\ writing[p].at \in steps

Go(step) ==
    /\ wizard' = [wizard EXCEPT !.step = step]
    /\ UNCHANGED <<submissionTables, writing>>
    /\ ElsewhereFromSubmissions

(* handleBasicsNext creates a draft once; when the answer is lost, the tab *)
(* knows of none, and the next click creates another.                      *)
WizardBasicsNext ==
    /\ Called("wizard") /\ wizard.step = 0
    /\ \/ wizard.draft # 0 /\ Go(1)
       \/ /\ wizard.draft = 0
          /\ \E a \in Abstracts : /\ Draft(a)
                                  /\ \/ wizard' = [step |-> 1, draft |-> a]
                                     \/ UNCHANGED wizard

WizardSave(p, complete) ==
    /\ Called("wizard") /\ wizard.step = 1 /\ wizard.draft # 0 /\ ~Pending(SaveSteps)
    /\ Save(p, wizard.draft, complete, TRUE)

WizardSetAuthors(p, list) ==
    /\ Called("wizard") /\ wizard.step = 2 /\ wizard.draft # 0
    /\ SaveAuthors(p, wizard.draft, list, TRUE)

WizardSubmit(p) ==
    /\ Called("wizard") /\ wizard.step = 3 /\ wizard.draft # 0 /\ ~Pending(SubmitSteps)
    /\ BeginSubmit(p, "submit", "readDeadline", wizard.draft, TRUE)

WizardBack ==
    /\ Called("wizard")
    /\ \/ wizard.step = 1 /\ Go(0)
       \/ wizard.step = 2 /\ Go(1)
       \/ wizard.step = 3 /\ \E step \in {1, 2} : Go(step)

(* The page is loaded again, for a new abstract or for one to resume: the  *)
(* requests of the old page go on, and nobody waits for their answers.     *)
WizardReload(a) ==
    /\ Called("wizard")
    /\ a # 0 => status[a] \in EditableStatuses
    /\ wizard' = [step |-> 0, draft |-> a]
    /\ writing' = [p \in Requests |-> [writing[p] EXCEPT !.wizard = FALSE]]
    /\ UNCHANGED submissionTables
    /\ ElsewhereFromSubmissions

-----------------------------------------------------------------------------
(* The organiser moves the deadline, or it passes; a required AUTHOR_BLOCK *)
(* is activated or taken out of the form; the rule on speakers changes.    *)
ChangeSetting(name) ==
    /\ Called(name)
    /\ settings' = [settings EXCEPT ![name] = ~@]
    /\ UNCHANGED <<scenario, submissionTables, wizard, writing, reviewVars, programmeVars>>

(* An exception or a restart.                                              *)
AbortWriting(p) ==
    /\ Called("abort")
    /\ writing[p] # IdleWriting
    /\ Fail(p)
    /\ UNCHANGED submissionTables
    /\ ElsewhereFromSubmissions

BeginSubmission(p) ==
    \/ \E a \in Abstracts :
          \/ \E complete \in BOOLEAN : SaveVersion(p, a, complete)
          \/ Submit(p, a) \/ ForceSubmit(p, a) \/ Withdraw(p, a)
          \/ \E list \in AuthorLists : SetAuthors(p, a, list)
          \/ \E decision \in Decisions : RecordDecision(p, a, decision)
          \/ RequestRevision(p, a)
    \/ \E complete \in BOOLEAN : WizardSave(p, complete)
    \/ \E list \in AuthorLists : WizardSetAuthors(p, list)
    \/ WizardSubmit(p)

ContinueWriting(p) ==
    \/ ReadVersion(p) \/ InsertVersion(p) \/ SetCurrent(p)
    \/ ReadDeadline(p) \/ ReadForm(p) \/ CountAuthors(p) \/ Resubmit(p)
    \/ CountNumbers(p) \/ AssignNumber(p)
    \/ UpdateWithdrawn(p) \/ DeleteAuthors(p) \/ CreateAuthors(p) \/ UpdateStatus(p)

SubmissionsNext ==
    \/ \E p \in Requests : BeginSubmission(p) \/ ContinueWriting(p) \/ AbortWriting(p)
    \/ \E a \in Abstracts : CreateDraft(a)
    \/ WizardBasicsNext \/ WizardBack
    \/ \E a \in Abstracts \cup {0} : WizardReload(a)
    \/ \E name \in DOMAIN settings : ChangeSetting(name)

-----------------------------------------------------------------------------
(* Properties.                                                             *)

(* The versions of an abstract are numbered 1 .. n without gap or repeat,  *)
(* although two saves may read the same last version.                      *)
VersionsGapless ==
    \A a \in Abstracts : Numbers(a) = 1 .. Cardinality(versions[a])

(* A status is never reached without what it stands for: a decided         *)
(* abstract has a row for that very decision, a revision was asked for,    *)
(* and a submitted one has its number and a version, whatever decisions,   *)
(* submissions and withdrawals overtook each other.                        *)
StatusIsEarned ==
    \A a \in Abstracts :
        /\ status[a] \in Decisions \ {"REVISION_REQUIRED"} => status[a] \in decisions[a]
        /\ status[a] \in {"REVISION_REQUIRED", "RESUBMITTED"} =>
               revisions[a] \/ "REVISION_REQUIRED" \in decisions[a]
        /\ status[a] = "SUBMITTED" => number[a] # 0 /\ current[a] # 0

(* Who is past the wizard's questions has saved them: the submission from  *)
(* the review page is never refused with 'Save at least one version before *)
(* submitting', whatever clicks, reloads and late answers came before.     *)
WizardHasSaved == wizard.step >= 2 => wizard.draft # 0 /\ current[wizard.draft] # 0

(* How many statements at most a request still has to run.                 *)
WritingLeft(q) ==
    LET numbersLeft == IF q.attempts < MaxSubmissionNumberAttempts
                       THEN MaxSubmissionNumberAttempts - q.attempts ELSE 1
    IN
    CASE q.at = "idle" -> 0
      [] q.at \in {"withdraw", "resubmit", "setCurrent", "createAuthors", "updateStatus"} -> 1
      [] q.at \in {"insertVersion", "deleteAuthors"} -> 2
      [] q.at = "readVersion" -> 3
      [] q.at = "assignNumber" -> numbersLeft
      [] q.at = "countNumbers" -> MaxSubmissionNumberAttempts + 1
      [] q.at = "countAuthors" -> MaxSubmissionNumberAttempts + 2
      [] q.at = "readForm" -> MaxSubmissionNumberAttempts + 3
      [] q.at = "readDeadline" -> MaxSubmissionNumberAttempts + 4
=============================================================================
