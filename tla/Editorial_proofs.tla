---------------------------- MODULE Editorial_proofs ----------------------------
(***************************************************************************)
(* Proofs about abstracts, reviews and the programme, for any abstracts,   *)
(* reviewers, sessions, requests and scenarios.  Each service has an       *)
(* inductive invariant: the types of its tables, what a request under way  *)
(* still knows to be true of what it has read, and the properties.         *)
(***************************************************************************)
EXTENDS Editorial, FiniteSetTheorems, SequenceTheorems, WellFoundedInduction, TLAPS

-----------------------------------------------------------------------------
(* What a step of one service leaves alone.                                *)

LEMMA SubmissionsElsewhere ==
  ASSUME SubmissionsNext
  PROVE  UNCHANGED <<scenario, reviewVars, programmeVars>>
  <1>1. ASSUME NEW p \in Requests, BeginSubmission(p)
        PROVE  ElsewhereFromSubmissions
    BY <1>1 DEF BeginSubmission, SaveVersion, Submit, ForceSubmit, Withdraw, SetAuthors,
                RecordDecision, RequestRevision, WizardSave, WizardSetAuthors, WizardSubmit,
                Save, SaveAuthors, BeginSubmit, BeginWriting
  <1>2. ASSUME NEW p \in Requests, ContinueWriting(p)
        PROVE  ElsewhereFromSubmissions
    BY <1>2 DEF ContinueWriting, ReadVersion, InsertVersion, SetCurrent, ReadDeadline,
                ReadForm, CountAuthors, Resubmit, CountNumbers, AssignNumber,
                UpdateWithdrawn, DeleteAuthors, CreateAuthors, UpdateStatus, StepWriting
  <1>3. ASSUME NEW p \in Requests, AbortWriting(p)
        PROVE  ElsewhereFromSubmissions
    BY <1>3 DEF AbortWriting
  <1>4. ASSUME NEW a \in Abstracts, CreateDraft(a)
        PROVE  ElsewhereFromSubmissions
    BY <1>4 DEF CreateDraft, Draft
  <1>5. ASSUME WizardBasicsNext \/ WizardBack \/ \E a \in Abstracts \cup {0} : WizardReload(a)
        PROVE  ElsewhereFromSubmissions
    BY <1>5 DEF WizardBasicsNext, WizardBack, WizardReload, Draft, Go
  <1>6. ASSUME NEW name \in DOMAIN settings, ChangeSetting(name)
        PROVE  UNCHANGED <<scenario, reviewVars, programmeVars>>
    BY <1>6 DEF ChangeSetting
  <1> QED
    BY <1>1, <1>2, <1>3, <1>4, <1>5, <1>6 DEF SubmissionsNext, ElsewhereFromSubmissions

LEMMA ReviewingElsewhere ==
  ASSUME ReviewingNext
  PROVE  UNCHANGED <<scenario, submissionVars, programmeVars>>
  <1>1. ASSUME NEW p \in Requests, BeginReview(p) \/ AbortReviewing(p)
        PROVE  ElsewhereFromReviewing
    BY <1>1 DEF BeginReview, Assign, AutoAssign, Reassign, SubmitReview, BeginReviewing,
                AbortReviewing
  <1>2. ASSUME NEW p \in Requests, ContinueReviewing(p)
        PROVE  ElsewhereFromReviewing
    BY <1>2 DEF ContinueReviewing, CheckAssign, CheckReassign, Check, CreateAssignment,
                ReadAbstracts, ReadAssignments, NextAbstract, CheckCandidate,
                SelectReviewers, CreateAuto, CancelOld, CreateSuccessor, InsertReview, Complete
  <1>3. ASSUME NEW i \in Ids, Decline(i) \/ DeclareConflict(i)
        PROVE  ElsewhereFromReviewing
    BY <1>3 DEF Decline, DeclareConflict
  <1>4. ASSUME NEW r \in Reviewers, AddReviewer(r) \/ \E i \in Institutions : UpdateProfile(r, i)
        PROVE  ElsewhereFromReviewing
    BY <1>4 DEF AddReviewer, UpdateProfile
  <1> QED
    BY <1>1, <1>2, <1>3, <1>4 DEF ReviewingNext, ElsewhereFromReviewing

LEMMA ProgrammeElsewhere ==
  ASSUME ProgrammeNext
  PROVE  UNCHANGED <<scenario, submissionVars, reviewVars>>
  <1>1. ASSUME NEW p \in Requests, BeginSchedule(p) \/ AbortScheduling(p)
        PROVE  ElsewhereFromProgramme
    BY <1>1 DEF BeginSchedule, UpdateSession, AssignSpeakers, AssignPresentation,
                UpdatePresentation, BeginScheduling, AbortScheduling
  <1>2. ASSUME NEW p \in Requests, ContinueScheduling(p)
        PROVE  ElsewhereFromProgramme
    BY <1>2 DEF ContinueScheduling, SetSessionWindow, CountScheduleVersion, CheckSpeaker,
                DeleteRoles, CommitRoles, CheckDoubleBooking, CreatePresentation,
                SetPresentationWindow
  <1>3. ASSUME NEW s \in Sessions,
               PublishSession(s) \/ \E w \in scenario.windows : CreateSession(s, w)
        PROVE  ElsewhereFromProgramme
    BY <1>3 DEF PublishSession, CreateSession
  <1>4. ASSUME NEW x \in Speakers, RemoveSpeaker(x)
        PROVE  ElsewhereFromProgramme
    BY <1>4 DEF RemoveSpeaker
  <1>5. ASSUME NEW i \in DOMAIN presentations, RemovePresentation(i)
        PROVE  ElsewhereFromProgramme
    BY <1>5 DEF RemovePresentation
  <1> QED
    BY <1>1, <1>2, <1>3, <1>4, <1>5 DEF ProgrammeNext, ElsewhereFromProgramme

-----------------------------------------------------------------------------
(* A set of numbers has a least one: of the finite sets of those up to each *)
(* of them, one is minimal.                                                *)
LEMMA LeastOf ==
  ASSUME NEW S, S \subseteq Nat, S # {}
  PROVE  Least(S) \in S /\ \A m \in S : Least(S) <= m
  <1> DEFINE UpTo(n) == {m \in S : m <= n}
             Parts == {UpTo(n) : n \in S}
  <1>1. Parts \subseteq FiniteSubsetsOf(S) /\ Parts # {}
    <2>1. ASSUME NEW n \in S
          PROVE  IsFiniteSet(UpTo(n)) /\ UpTo(n) \subseteq S
      <3>1. IsFiniteSet(0 .. n)
        BY FS_Interval
      <3>2. ASSUME NEW m \in UpTo(n)
            PROVE  m \in 0 .. n
        <4>1. m \in Nat /\ n \in Nat /\ m <= n
          OBVIOUS
        <4> QED
          BY <4>1
      <3>3. UpTo(n) \subseteq 0 .. n
        BY <3>2
      <3> QED
        BY <3>1, <3>3, FS_Subset
    <2> QED
      BY <2>1 DEF FiniteSubsetsOf
  <1>2. PICK P \in Parts : \A Q \in Parts : ~(<<Q, P>> \in StrictSubsetOrdering(S))
    <2> HIDE DEF Parts
    <2> QED
      BY <1>1, FS_StrictSubsetOrderingWellFounded, WFMin
  <1>3. PICK n \in S : P = UpTo(n)
    OBVIOUS
  <1>4. ASSUME NEW m \in S, ~(n <= m)
        PROVE  FALSE
    <2>1. m \in Nat /\ n \in Nat
      OBVIOUS
    <2>2. ASSUME NEW k \in UpTo(m)
          PROVE  k \in UpTo(n)
      <3>1. k \in Nat /\ k \in S /\ k <= m
        OBVIOUS
      <3> QED
        BY <1>4, <2>1, <3>1
    <2>3. n \in UpTo(n) /\ n \notin UpTo(m)
      BY <1>4, <2>1
    <2>4. <<UpTo(m), UpTo(n)>> \in StrictSubsetOrdering(S)
      BY <2>2, <2>3 DEF StrictSubsetOrdering
    <2> QED
      BY <1>2, <1>3, <2>4
  <1> QED
    BY <1>4 DEF Least
-----------------------------------------------------------------------------
(* Submissions: what a request knows of the abstract that it has read.     *)

AuthorSteps == {"deleteAuthors", "createAuthors"}

Decided(a, d) == d \in decisions[a] \/ (d = "REVISION_REQUIRED" /\ revisions[a])

Known(q) ==
    /\ q.at # "idle" => q.abstract \in Abstracts
    /\ q.at = "insertVersion" => q.number \in 1 .. Cardinality(versions[q.abstract]) + 1
    /\ q.at \in {"setCurrent", "assignNumber"} => q.number # 0
    /\ q.at \in SubmitSteps => current[q.abstract] # 0
    /\ q.at = "resubmit" => q.status = "REVISION_REQUIRED"
    /\ q.at \in SubmitSteps /\ q.status = "REVISION_REQUIRED" =>
           Decided(q.abstract, "REVISION_REQUIRED")
    /\ q.at = "updateStatus" => q.decision \in Decisions /\ Decided(q.abstract, q.decision)
    /\ q.wizard => q.at # "idle" /\ wizard.draft # 0 /\ q.abstract = wizard.draft
    /\ q.wizard /\ q.at \in AuthorSteps => current[q.abstract] # 0

Tables ==
    /\ status \in [Abstracts -> AbstractStatuses]
    /\ number \in [Abstracts -> Nat]
    /\ current \in [Abstracts -> Nat]
    /\ versions \in [Abstracts -> SUBSET Versions]
    /\ authors \in [Abstracts -> SUBSET People]
    /\ decisions \in [Abstracts -> SUBSET Decisions]
    /\ revisions \in [Abstracts -> BOOLEAN]
    /\ \A a \in Abstracts : IsFiniteSet(versions[a])
    /\ VersionsGapless
    /\ StatusIsEarned

WizardType == [step : 0 .. 3, draft : Abstracts \cup {0}]
Settings == [deadlinePassed : BOOLEAN, authorsRequired : BOOLEAN,
             preventSpeakerOverlap : BOOLEAN]

Clicks == wizard \in WizardType /\ WizardHasSaved

Work ==
    /\ writing \in [Requests -> WritingStates]
    /\ \A p \in Requests : Known(writing[p])

SubmissionsInv == settings \in Settings /\ Tables /\ Clicks /\ Work

(* Nothing that a request relies on is ever taken back.                    *)
Grows ==
    \A a \in Abstracts :
        /\ decisions[a] \subseteq decisions'[a]
        /\ revisions[a] => revisions'[a]
        /\ current[a] # 0 => current'[a] # 0
        /\ Cardinality(versions[a]) \in Nat /\ Cardinality(versions'[a]) \in Nat
        /\ Cardinality(versions[a]) <= Cardinality(versions'[a])

LEMMA TablesStay ==
  ASSUME Tables, UNCHANGED submissionTables
  PROVE  Tables' /\ Grows
  <1>1. UNCHANGED <<status, number, current, versions, authors, decisions, revisions>>
    BY DEF submissionTables, abstractRow
  <1>2. Tables'
    BY <1>1 DEF Tables, VersionsGapless, Numbers, StatusIsEarned
  <1>3. \A a \in Abstracts : Cardinality(versions[a]) \in Nat
    BY FS_CardinalityType DEF Tables
  <1> QED
    BY <1>1, <1>2, <1>3 DEF Grows

(* One abstract gets another status, and perhaps a number.                 *)
LEMMA StatusChanges ==
  ASSUME Tables, NEW a \in Abstracts, NEW s \in AbstractStatuses,
         status' = [status EXCEPT ![a] = s],
         UNCHANGED <<current, versions, authors, decisions, revisions>>,
         number' \in [Abstracts -> Nat],
         \A b \in Abstracts : number[b] # 0 => number'[b] # 0,
         s \in Decisions \ {"REVISION_REQUIRED"} => s \in decisions[a],
         s \in {"REVISION_REQUIRED", "RESUBMITTED"} => Decided(a, "REVISION_REQUIRED"),
         s = "SUBMITTED" => number'[a] # 0 /\ current[a] # 0
  PROVE  Tables' /\ Grows
  <1>1. status' \in [Abstracts -> AbstractStatuses]
    BY DEF Tables
  <1>2. ASSUME NEW b \in Abstracts
        PROVE  /\ status'[b] \in Decisions \ {"REVISION_REQUIRED"} => status'[b] \in decisions'[b]
               /\ status'[b] \in {"REVISION_REQUIRED", "RESUBMITTED"} =>
                      revisions'[b] \/ "REVISION_REQUIRED" \in decisions'[b]
               /\ status'[b] = "SUBMITTED" => number'[b] # 0 /\ current'[b] # 0
    <2>1. CASE b = a
      <3>1. status'[b] = s
        BY <2>1 DEF Tables
      <3> QED
        BY <2>1, <3>1 DEF Decided
    <2>2. CASE b # a
      <3>1. status'[b] = status[b]
        BY <2>2 DEF Tables
      <3> QED
        BY <3>1 DEF Tables, StatusIsEarned
    <2> QED
      BY <2>1, <2>2
  <1>3. StatusIsEarned'
    BY <1>2 DEF StatusIsEarned
  <1>4. VersionsGapless'
    BY DEF Tables, VersionsGapless, Numbers
  <1>5. \A b \in Abstracts : Cardinality(versions[b]) \in Nat
    BY FS_CardinalityType DEF Tables
  <1> QED
    BY <1>1, <1>3, <1>4, <1>5 DEF Tables, Grows

(* What a request knows stays true, as long as the tab keeps its draft.    *)
LEMMA KnownStays ==
  ASSUME NEW q \in WritingStates, Known(q), Grows,
         q.wizard => wizard'.draft = wizard.draft
  PROVE  Known(q)'
  <1>1. CASE q.at = "idle"
    BY <1>1 DEF Known, SubmitSteps, AuthorSteps
  <1>2. CASE q.at # "idle"
    <2>1. q.abstract \in Abstracts /\ q.number \in Nat
      BY <1>2 DEF Known, WritingStates
    <2>2. \A d : Decided(q.abstract, d) => Decided(q.abstract, d)'
      BY <2>1 DEF Decided, Grows
    <2>3. current[q.abstract] # 0 => current'[q.abstract] # 0
      BY <2>1 DEF Grows
    <2>4. q.number \in 1 .. Cardinality(versions[q.abstract]) + 1 =>
              q.number \in 1 .. Cardinality(versions'[q.abstract]) + 1
      BY <2>1 DEF Grows
    <2> QED
      BY <1>2, <2>1, <2>2, <2>3, <2>4 DEF Known
  <1> QED
    BY <1>1, <1>2

LEMMA WorkStays ==
  ASSUME Work, Grows, UNCHANGED writing, UNCHANGED wizard \/ wizard'.draft = wizard.draft
  PROVE  Work'
  <1>1. ASSUME NEW r \in Requests
        PROVE  Known(writing[r])'
    <2>1. writing[r] \in WritingStates /\ Known(writing[r])
      BY DEF Work
    <2> DEFINE q == writing[r]
    <2>2. q \in WritingStates /\ Known(q) /\ writing'[r] = q
      BY <2>1
    <2> QED
      BY <2>2, KnownStays DEF Known, Decided
  <1> QED
    BY <1>1 DEF Work

(* One request goes on, and the others know what they knew.                *)
LEMMA OneWriting ==
  ASSUME Work, Grows, NEW p \in Requests, NEW q \in WritingStates,
         writing' = [writing EXCEPT ![p] = q], Known(q)',
         wizard'.draft = wizard.draft
  PROVE  Work'
  <1>1. writing' \in [Requests -> WritingStates] /\ writing'[p] = q
    BY DEF Work
  <1>2. ASSUME NEW r \in Requests
        PROVE  Known(writing[r])'
    <2>1. CASE r = p
      BY <1>1, <2>1
    <2>2. CASE r # p
      <3>1. PICK o \in WritingStates : o = writing[r]
        BY DEF Work
      <3>2. writing'[r] = o /\ Known(o)
        BY <2>2, <3>1 DEF Work
      <3>3. Known(o)'
        BY <3>2, KnownStays
      <3> QED
        BY <3>2, <3>3
    <2> QED
      BY <2>1, <2>2
  <1> QED
    BY <1>1, <1>2 DEF Work
LEMMA IdleWritingKnown ==
  /\ IdleWriting \in WritingStates /\ IdleWriting.at = "idle" /\ ~IdleWriting.wizard
  /\ Known(IdleWriting) /\ Known(IdleWriting)'
  <1>1. IdleWriting \in WritingStates /\ IdleWriting.at = "idle" /\ IdleWriting.wizard = FALSE
    BY DEF IdleWriting, WritingStates, WritingSteps, AbstractStatuses
  <1> QED
    BY <1>1 DEF Known, SubmitSteps, AuthorSteps

(* What the steps of a request need to know of it.                         *)
LEMMA RequestKnown ==
  ASSUME Work, NEW p \in Requests
  PROVE  writing[p] \in WritingStates /\ Known(writing[p])
  BY DEF Work

LEMMA FailStep ==
  ASSUME Clicks, Work, Grows, NEW p \in Requests, Fail(p)
  PROVE  Clicks' /\ Work'
  <1>1. Work'
    BY IdleWritingKnown, OneWriting DEF Fail
  <1>2. (wizard.draft # 0 /\ current[wizard.draft] # 0) => current'[wizard.draft] # 0
    BY DEF Grows, Clicks, WizardType
  <1> QED
    BY <1>1, <1>2 DEF Fail, Clicks, WizardHasSaved

(* The page goes to another step of the wizard.                            *)
LEMMA ClicksGo ==
  ASSUME Clicks, Grows, NEW step \in 0 .. 3, wizard' = [wizard EXCEPT !.step = step],
         step >= 2 => wizard.draft # 0 /\ current'[wizard.draft] # 0
  PROVE  Clicks' /\ wizard'.draft = wizard.draft
  <1>1. wizard' \in WizardType /\ wizard'.step = step /\ wizard'.draft = wizard.draft
    BY DEF Clicks, WizardType
  <1> QED
    BY <1>1 DEF Clicks, WizardHasSaved

(* The tab is left, and nobody waits for its requests any more.            *)
LEMMA Unwatched ==
  ASSUME NEW q \in WritingStates, Known(q), Grows
  PROVE  /\ [q EXCEPT !.wizard = FALSE] \in WritingStates
         /\ Known([q EXCEPT !.wizard = FALSE])'
  <1> DEFINE o == [q EXCEPT !.wizard = FALSE]
  <1>1. /\ o \in WritingStates /\ o.wizard = FALSE /\ o.at = q.at /\ o.abstract = q.abstract
        /\ o.number = q.number /\ o.status = q.status /\ o.decision = q.decision
    BY DEF WritingStates
  <1> HIDE DEF o
  <1>2. Known(o)
    BY <1>1 DEF Known
  <1>3. Known(o)'
    BY <1>1, <1>2, KnownStays
  <1> QED
    BY <1>1, <1>3 DEF o

LEMMA LeaveStep ==
  ASSUME Work, Grows, NEW p \in Requests, LeaveWizard(p)
  PROVE  Clicks' /\ Work'
  <1>1. Clicks'
    BY DEF LeaveWizard, ClosedWizard, Clicks, WizardType, WizardHasSaved
  <1>2. ASSUME NEW r \in Requests
        PROVE  writing'[r] \in WritingStates /\ Known(writing[r])'
    <2>1. PICK o \in WritingStates : o = writing[r] /\ Known(o)
      BY RequestKnown
    <2>2. CASE r = p
      <3>1. writing'[r] = IdleWriting
        BY <2>2 DEF LeaveWizard
      <3> QED
        BY <3>1, IdleWritingKnown
    <2>3. CASE r # p
      <3>1. writing'[r] = [o EXCEPT !.wizard = FALSE]
        BY <2>1, <2>3 DEF LeaveWizard
      <3> QED
        BY <2>1, <3>1, Unwatched
    <2> QED
      BY <2>2, <2>3
  <1>3. writing' \in [Requests -> WritingStates]
    BY <1>2 DEF LeaveWizard
  <1> QED
    BY <1>1, <1>2, <1>3 DEF Work

LEMMA SucceedStep ==
  ASSUME Clicks, Work, Grows, NEW p \in Requests, Succeed(p), writing[p].at # "idle",
         writing[p].at = "setCurrent" => current'[writing[p].abstract] # 0
  PROVE  Clicks' /\ Work'
  <1>1. PICK q \in WritingStates : q = writing[p] /\ Known(q)
    BY RequestKnown
  <1>2. CASE q.wizard /\ q.at \notin {"setCurrent", "createAuthors"}
    BY <1>1, <1>2, LeaveStep DEF Succeed
  <1>3. CASE ~(q.wizard /\ q.at \notin {"setCurrent", "createAuthors"})
    <2>1. writing' = [writing EXCEPT ![p] = IdleWriting]
      BY <1>1, <1>3 DEF Succeed
    <2>2. CASE ~q.wizard
      <3>1. Fail(p)
        BY <1>1, <1>3, <2>1, <2>2 DEF Succeed, Fail
      <3> QED
        BY <3>1, FailStep
    <2>3. CASE q.wizard
      <3>1. q.abstract = wizard.draft /\ wizard.draft # 0 /\ wizard.draft \in Abstracts
        BY <1>1, <2>3 DEF Known
      <3>2. current'[wizard.draft] # 0
        <4>1. CASE q.at = "setCurrent"
          BY <1>1, <3>1, <4>1
        <4>2. CASE q.at = "createAuthors"
          <5>1. current[wizard.draft] # 0
            BY <1>1, <2>3, <3>1, <4>2 DEF Known, AuthorSteps
          <5> QED
            BY <3>1, <5>1 DEF Grows
        <4> QED
          BY <1>3, <2>3, <4>1, <4>2
      <3>3. PICK step \in {2, 3} : wizard' = [wizard EXCEPT !.step = step]
        BY <1>1, <1>3, <2>3 DEF Succeed
      <3>4. Clicks' /\ wizard'.draft = wizard.draft
        BY <3>1, <3>2, <3>3, ClicksGo
      <3> QED
        BY <2>1, <3>4, IdleWritingKnown, OneWriting
    <2> QED
      BY <2>2, <2>3
  <1> QED
    BY <1>2, <1>3

(* A request goes on to another step with what it knows.                   *)
LEMMA ClicksStay ==
  ASSUME Clicks, Grows, UNCHANGED wizard
  PROVE  Clicks'
  BY DEF Clicks, WizardType, WizardHasSaved, Grows

LEMMA GoStep ==
  ASSUME Clicks, Work, Grows, NEW p \in Requests, NEW q \in WritingStates, UNCHANGED wizard,
         writing' = [writing EXCEPT ![p] = q], Known(q)
  PROVE  Clicks' /\ Work'
  BY ClicksStay, KnownStays, OneWriting
-----------------------------------------------------------------------------
(* Requests to the services of abstracts and decisions begin.              *)

LEMMA BeginWritingStep ==
  ASSUME SubmissionsInv, NEW p \in Requests, NEW call, NEW q \in WritingStates, Known(q),
         BeginWriting(p, call, q)
  PROVE  SubmissionsInv'
  <1>1. UNCHANGED <<submissionTables, wizard, settings>> /\ writing' = [writing EXCEPT ![p] = q]
    BY DEF BeginWriting, ElsewhereFromSubmissions
  <1>2. Tables' /\ Grows
    BY <1>1, TablesStay DEF SubmissionsInv
  <1>3. Clicks' /\ Work'
    BY <1>1, <1>2, GoStep DEF SubmissionsInv
  <1> QED
    BY <1>1, <1>2, <1>3 DEF SubmissionsInv

LEMMA SaveStep ==
  ASSUME SubmissionsInv, NEW p \in Requests, NEW a \in Abstracts, NEW complete \in BOOLEAN,
         NEW watched \in BOOLEAN, Save(p, a, complete, watched),
         watched => wizard.draft # 0 /\ a = wizard.draft
  PROVE  SubmissionsInv'
  <1> DEFINE Request(s) == [IdleWriting EXCEPT !.at = "readVersion", !.abstract = a, !.status = s,
                                               !.complete = complete, !.wizard = watched]
  <1>1. PICK s \in AbstractStatuses : s = status[a]
    BY DEF SubmissionsInv, Tables
  <1>2. /\ Request(s) \in WritingStates /\ Request(s).at = "readVersion"
        /\ Request(s).abstract = a /\ Request(s).wizard = watched
    BY <1>1 DEF IdleWriting, WritingStates, WritingSteps, SaveSteps, AbstractStatuses
  <1>3. BeginWriting(p, "saveVersion", Request(s))
    BY <1>1 DEF Save
  <1> HIDE DEF Request
  <1>4. Known(Request(s))
    BY <1>2 DEF Known, SubmitSteps, AuthorSteps
  <1> QED
    BY <1>2, <1>3, <1>4, BeginWritingStep

LEMMA BeginSubmitStep ==
  ASSUME SubmissionsInv, NEW p \in Requests, NEW call, NEW first \in {"readDeadline", "readForm"},
         NEW a \in Abstracts, NEW watched \in BOOLEAN, BeginSubmit(p, call, first, a, watched),
         watched => wizard.draft # 0 /\ a = wizard.draft
  PROVE  SubmissionsInv'
  <1> DEFINE Request(s, c) == [IdleWriting EXCEPT !.at = first, !.abstract = a, !.status = s,
                                                  !.current = c, !.wizard = watched]
  <1>1. PICK s \in AbstractStatuses : s = status[a]
    BY DEF SubmissionsInv, Tables
  <1>2. PICK c \in Nat : c = current[a]
    BY DEF SubmissionsInv, Tables
  <1>3. /\ Request(s, c) \in WritingStates /\ Request(s, c).at = first
        /\ Request(s, c).abstract = a /\ Request(s, c).wizard = watched
        /\ Request(s, c).status = s
    BY <1>1 DEF IdleWriting, WritingStates, WritingSteps, SubmitSteps, AbstractStatuses
  <1>4. BeginWriting(p, call, Request(s, c)) /\ c # 0
    BY <1>1, <1>2 DEF BeginSubmit
  <1>5. s = "REVISION_REQUIRED" => Decided(a, "REVISION_REQUIRED")
    BY <1>1 DEF SubmissionsInv, Tables, StatusIsEarned, Decided
  <1> HIDE DEF Request
  <1>6. Known(Request(s, c))
    BY <1>2, <1>3, <1>4, <1>5 DEF Known, AuthorSteps
  <1> QED
    BY <1>3, <1>4, <1>6, BeginWritingStep

LEMMA BeginWithdrawStep ==
  ASSUME SubmissionsInv, NEW p \in Requests, NEW a \in Abstracts, Withdraw(p, a)
  PROVE  SubmissionsInv'
  <1> DEFINE request == [IdleWriting EXCEPT !.at = "withdraw", !.abstract = a]
  <1>1. /\ request \in WritingStates /\ request.at = "withdraw" /\ request.abstract = a
        /\ request.wizard = FALSE
    BY DEF IdleWriting, WritingStates, WritingSteps, AbstractStatuses
  <1>2. BeginWriting(p, "withdraw", request)
    BY DEF Withdraw
  <1> HIDE DEF request
  <1>3. Known(request)
    BY <1>1 DEF Known, SubmitSteps, AuthorSteps
  <1> QED
    BY <1>1, <1>2, <1>3, BeginWritingStep

LEMMA SaveAuthorsStep ==
  ASSUME SubmissionsInv, NEW p \in Requests, NEW a \in Abstracts, NEW list \in AuthorLists,
         NEW watched \in BOOLEAN, SaveAuthors(p, a, list, watched),
         watched => wizard.draft # 0 /\ a = wizard.draft /\ current[a] # 0
  PROVE  SubmissionsInv'
  <1> DEFINE request == [IdleWriting EXCEPT !.at = "deleteAuthors", !.abstract = a, !.list = list,
                                            !.wizard = watched]
  <1>1. /\ request \in WritingStates /\ request.at = "deleteAuthors" /\ request.abstract = a
        /\ request.wizard = watched
    BY DEF IdleWriting, WritingStates, WritingSteps, AbstractStatuses, AuthorLists
  <1>2. BeginWriting(p, "setAuthors", request)
    BY DEF SaveAuthors
  <1> HIDE DEF request
  <1>3. Known(request)
    BY <1>1 DEF Known, SubmitSteps
  <1> QED
    BY <1>1, <1>2, <1>3, BeginWritingStep

(* recordDecision and requestRevision insert their row at once.            *)
LEMMA DecideStep ==
  ASSUME SubmissionsInv, NEW p \in Requests, NEW a \in Abstracts, NEW d \in Decisions,
         decisions' \in [Abstracts -> SUBSET Decisions], revisions' \in [Abstracts -> BOOLEAN],
         \A b \in Abstracts : /\ decisions[b] \subseteq decisions'[b]
                              /\ revisions[b] => revisions'[b],
         Decided(a, d)',
         writing' = [writing EXCEPT ![p] = [IdleWriting EXCEPT !.at = "updateStatus",
                                               !.abstract = a, !.decision = d]],
         UNCHANGED <<settings, abstractRow, versions, authors, wizard>>
  PROVE  SubmissionsInv'
  <1>1. UNCHANGED <<status, number, current>>
    BY DEF abstractRow
  <1>2. \A b \in Abstracts : Cardinality(versions[b]) \in Nat
    BY FS_CardinalityType DEF SubmissionsInv, Tables
  <1>3. Grows
    BY <1>1, <1>2 DEF Grows
  <1>4. StatusIsEarned'
    BY <1>1 DEF StatusIsEarned, SubmissionsInv, Tables
  <1>5. Tables'
    BY <1>1, <1>4 DEF SubmissionsInv, Tables, VersionsGapless, Numbers
  <1> DEFINE request == [IdleWriting EXCEPT !.at = "updateStatus", !.abstract = a, !.decision = d]
  <1>6. /\ request \in WritingStates /\ request.at = "updateStatus" /\ request.abstract = a
        /\ request.wizard = FALSE /\ request.decision = d
    BY DEF IdleWriting, WritingStates, WritingSteps, AbstractStatuses
  <1>7. writing' = [writing EXCEPT ![p] = request]
    OBVIOUS
  <1> HIDE DEF request
  <1>8. Known(request)'
    BY <1>6 DEF Known, SubmitSteps
  <1>9. Work'
    BY <1>3, <1>6, <1>7, <1>8, OneWriting DEF SubmissionsInv
  <1>10. Clicks'
    BY <1>3, ClicksStay DEF SubmissionsInv
  <1> QED
    BY <1>5, <1>9, <1>10 DEF SubmissionsInv

LEMMA BeginSubmissionStep ==
  ASSUME SubmissionsInv, NEW p \in Requests, BeginSubmission(p)
  PROVE  SubmissionsInv'
  <1>1. ASSUME NEW a \in Abstracts, NEW complete \in BOOLEAN, SaveVersion(p, a, complete)
        PROVE  SubmissionsInv'
    BY <1>1, SaveStep DEF SaveVersion
  <1>2. ASSUME NEW a \in Abstracts, Submit(p, a) \/ ForceSubmit(p, a)
        PROVE  SubmissionsInv'
    BY <1>2, BeginSubmitStep DEF Submit, ForceSubmit
  <1>3. ASSUME NEW a \in Abstracts, NEW list \in AuthorLists, SetAuthors(p, a, list)
        PROVE  SubmissionsInv'
    BY <1>3, SaveAuthorsStep DEF SetAuthors
  <1>4. ASSUME NEW a \in Abstracts, NEW d \in Decisions, RecordDecision(p, a, d)
        PROVE  SubmissionsInv'
    <2>1. decisions' = [decisions EXCEPT ![a] = @ \cup {d}] /\ revisions' = revisions
      BY <1>4 DEF RecordDecision
    <2>2. /\ decisions' \in [Abstracts -> SUBSET Decisions] /\ d \in decisions'[a]
          /\ revisions' \in [Abstracts -> BOOLEAN]
          /\ \A b \in Abstracts : decisions[b] \subseteq decisions'[b]
      BY <2>1 DEF SubmissionsInv, Tables
    <2>3. Decided(a, d)'
      BY <2>2 DEF Decided
    <2> QED
      BY <1>4, <2>1, <2>2, <2>3, DecideStep DEF RecordDecision, ElsewhereFromSubmissions
  <1>5. ASSUME NEW a \in Abstracts, RequestRevision(p, a)
        PROVE  SubmissionsInv'
    <2>1. revisions' = [revisions EXCEPT ![a] = TRUE] /\ decisions' = decisions
      BY <1>5 DEF RequestRevision
    <2>2. /\ decisions' \in [Abstracts -> SUBSET Decisions] /\ revisions'[a] = TRUE
          /\ revisions' \in [Abstracts -> BOOLEAN]
          /\ \A b \in Abstracts : revisions[b] => revisions'[b]
      BY <2>1, Zenon DEF SubmissionsInv, Tables
    <2>3. Decided(a, "REVISION_REQUIRED")' /\ "REVISION_REQUIRED" \in Decisions
      BY <2>2 DEF Decided, Decisions
    <2> QED
      BY <1>5, <2>1, <2>2, <2>3, DecideStep DEF RequestRevision, ElsewhereFromSubmissions
  <1>6. ASSUME NEW complete \in BOOLEAN, WizardSave(p, complete)
        PROVE  SubmissionsInv'
    <2>1. wizard.draft \in Abstracts /\ wizard.draft # 0 /\ Save(p, wizard.draft, complete, TRUE)
      BY <1>6 DEF WizardSave, SubmissionsInv, Clicks, WizardType
    <2>2. PICK a \in Abstracts : a = wizard.draft
      BY <2>1
    <2> QED
      BY <2>1, <2>2, SaveStep
  <1>7. ASSUME NEW list \in AuthorLists, WizardSetAuthors(p, list)
        PROVE  SubmissionsInv'
    <2>0. wizard.step = 2 /\ wizard.draft # 0 /\ SaveAuthors(p, wizard.draft, list, TRUE)
      BY <1>7 DEF WizardSetAuthors
    <2>1. wizard.draft \in Abstracts /\ current[wizard.draft] # 0
      BY <2>0 DEF SubmissionsInv, Clicks, WizardType, WizardHasSaved
    <2>2. PICK a \in Abstracts : a = wizard.draft
      BY <2>1
    <2> QED
      BY <2>0, <2>1, <2>2, SaveAuthorsStep
  <1>8. ASSUME WizardSubmit(p)
        PROVE  SubmissionsInv'
    <2>1. /\ wizard.draft \in Abstracts /\ wizard.draft # 0
          /\ BeginSubmit(p, "submit", "readDeadline", wizard.draft, TRUE)
      BY <1>8 DEF WizardSubmit, SubmissionsInv, Clicks, WizardType
    <2>2. PICK a \in Abstracts : a = wizard.draft
      BY <2>1
    <2> QED
      BY <2>1, <2>2, BeginSubmitStep
  <1> QED
    BY <1>1, <1>2, <1>3, <1>4, <1>5, <1>6, <1>7, <1>8, BeginWithdrawStep DEF BeginSubmission
-----------------------------------------------------------------------------
(* They go on.                                                             *)

(* Steps that leave the tables alone: the request fails or knows more.     *)
LEMMA ReadingStep ==
  ASSUME SubmissionsInv, NEW p \in Requests, UNCHANGED <<settings, submissionTables>>,
         \/ Fail(p)
         \/ \E q \in WritingStates : /\ writing' = [writing EXCEPT ![p] = q] /\ Known(q)
                                     /\ UNCHANGED wizard
  PROVE  SubmissionsInv'
  <1>1. Tables' /\ Grows
    BY TablesStay DEF SubmissionsInv
  <1>2. Clicks' /\ Work'
    BY <1>1, FailStep, GoStep DEF SubmissionsInv
  <1> QED
    BY <1>1, <1>2 DEF SubmissionsInv

(* The versions of an abstract are counted by their numbers.               *)
LEMMA GreatestNumber ==
  ASSUME Tables, NEW a \in Abstracts, versions[a] # {}
  PROVE  Greatest(Numbers(a)) = Cardinality(versions[a]) /\ Cardinality(versions[a]) \in Nat
  <1>1. PICK n \in Nat : n = Cardinality(versions[a])
    BY FS_CardinalityType DEF Tables
  <1>2. n # 0
    BY <1>1, FS_EmptySet DEF Tables
  <1>3. Numbers(a) = 1 .. n
    BY <1>1 DEF Tables, VersionsGapless
  <1>4. \A k \in 1 .. n : (\A m \in 1 .. n : m <= k) => k = n
    BY <1>2
  <1>5. n \in 1 .. n /\ \A m \in 1 .. n : m <= n
    BY <1>2
  <1>6. Greatest(1 .. n) = n
    BY <1>4, <1>5 DEF Greatest
  <1> QED
    BY <1>1, <1>3, <1>6

LEMMA ReadVersionStep ==
  ASSUME SubmissionsInv, NEW p \in Requests, ReadVersion(p)
  PROVE  SubmissionsInv'
  <1>1. PICK q \in WritingStates : q = writing[p] /\ Known(q)
    BY RequestKnown DEF SubmissionsInv
  <1>2. q.at = "readVersion" /\ q.abstract \in Abstracts
    BY <1>1 DEF ReadVersion, Known
  <1> DEFINE n == IF versions[q.abstract] = {} THEN 1 ELSE Greatest(Numbers(q.abstract)) + 1
             o(m) == [q EXCEPT !.at = "insertVersion", !.number = m]
  <1>3. n \in Nat /\ n \in 1 .. Cardinality(versions[q.abstract]) + 1
    <2>1. Cardinality(versions[q.abstract]) \in Nat
      BY <1>2, FS_CardinalityType DEF SubmissionsInv, Tables
    <2>2. CASE versions[q.abstract] = {}
      BY <2>1, <2>2
    <2>3. CASE versions[q.abstract] # {}
      BY <1>2, <2>1, <2>3, GreatestNumber DEF SubmissionsInv
    <2> QED
      BY <2>2, <2>3
  <1>4. writing' = [writing EXCEPT ![p] = o(n)]
    BY <1>1 DEF ReadVersion
  <1> HIDE DEF n
  <1>5. /\ o(n) \in WritingStates /\ o(n).at = "insertVersion" /\ o(n).abstract = q.abstract
        /\ o(n).number = n /\ o(n).wizard = q.wizard
    BY <1>3 DEF WritingStates, WritingSteps, SaveSteps
  <1> HIDE DEF o
  <1>6. Known(o(n))
    BY <1>1, <1>2, <1>3, <1>5 DEF Known, SubmitSteps, AuthorSteps
  <1> QED
    BY <1>4, <1>5, <1>6, ReadingStep DEF ReadVersion, ElsewhereFromSubmissions

(* A request goes on to a step that it knows enough for.                   *)
LEMMA AtStep ==
  ASSUME NEW q \in WritingStates, NEW step \in WritingSteps
  PROVE  /\ [q EXCEPT !.at = step] \in WritingStates
         /\ [q EXCEPT !.at = step].at = step
         /\ [q EXCEPT !.at = step].abstract = q.abstract
         /\ [q EXCEPT !.at = step].number = q.number
         /\ [q EXCEPT !.at = step].status = q.status
         /\ [q EXCEPT !.at = step].list = q.list
         /\ [q EXCEPT !.at = step].decision = q.decision
         /\ [q EXCEPT !.at = step].wizard = q.wizard
  BY DEF WritingStates

LEMMA InsertVersionTables ==
  ASSUME Tables, NEW a \in Abstracts, NEW n \in Nat, NEW complete \in BOOLEAN,
         n \in 1 .. Cardinality(versions[a]) + 1, n \notin Numbers(a),
         versions' = [versions EXCEPT ![a] = @ \cup {[number |-> n, complete |-> complete]}],
         UNCHANGED <<abstractRow, authors, decisions, revisions>>
  PROVE  Tables' /\ Grows
  <1> DEFINE row == [number |-> n, complete |-> complete]
             old == versions[a]
  <1>1. row \in Versions /\ row.number = n
    BY DEF Versions
  <1>2. PICK k \in Nat : k = Cardinality(old)
    BY FS_CardinalityType DEF Tables
  <1>3. Numbers(a) = 1 .. k /\ IsFiniteSet(old) /\ old \subseteq Versions
    BY <1>2 DEF Tables, VersionsGapless
  <1>4. n = k + 1
    BY <1>2, <1>3
  <1>5. row \notin old
    BY <1>1 DEF Numbers
  <1> HIDE DEF row
  <1>6. versions'[a] = old \cup {row} /\ \A b \in Abstracts : b # a => versions'[b] = versions[b]
    BY DEF Tables, row
  <1>7. IsFiniteSet(versions'[a]) /\ Cardinality(versions'[a]) = k + 1
    BY <1>2, <1>3, <1>5, <1>6, FS_AddElement
  <1>8. Numbers(a)' = 1 .. k + 1
    <2>1. Numbers(a)' = Numbers(a) \cup {n}
      BY <1>1, <1>6 DEF Numbers
    <2> QED
      BY <1>3, <1>4, <2>1
  <1>9. VersionsGapless'
    <2>1. ASSUME NEW b \in Abstracts
          PROVE  Numbers(b)' = 1 .. Cardinality(versions'[b])
      <3>1. CASE b = a
        BY <1>7, <1>8, <3>1
      <3>2. CASE b # a
        BY <1>6, <3>2 DEF Tables, VersionsGapless, Numbers
      <3> QED
        BY <3>1, <3>2
    <2> QED
      BY <2>1 DEF VersionsGapless
  <1>10. versions' \in [Abstracts -> SUBSET Versions]
    BY <1>1 DEF Tables, row
  <1>11. \A b \in Abstracts : IsFiniteSet(versions'[b])
    BY <1>6, <1>7 DEF Tables
  <1>12. UNCHANGED <<status, number, current>>
    BY DEF abstractRow
  <1>13. StatusIsEarned'
    BY <1>12 DEF Tables, StatusIsEarned
  <1>14. \A b \in Abstracts : Cardinality(versions[b]) \in Nat
    BY FS_CardinalityType DEF Tables
  <1>15. ASSUME NEW b \in Abstracts
         PROVE  /\ Cardinality(versions[b]) \in Nat /\ Cardinality(versions'[b]) \in Nat
                /\ Cardinality(versions[b]) <= Cardinality(versions'[b])
    <2>1. CASE b = a
      BY <1>2, <1>7, <2>1
    <2>2. CASE b # a
      BY <1>6, <1>14, <2>2
    <2> QED
      BY <2>1, <2>2
  <1>16. Grows
    BY <1>12, <1>15 DEF Grows
  <1> QED
    BY <1>9, <1>10, <1>11, <1>12, <1>13, <1>16 DEF Tables

LEMMA InsertVersionStep ==
  ASSUME SubmissionsInv, NEW p \in Requests, InsertVersion(p)
  PROVE  SubmissionsInv'
  <1>1. PICK q \in WritingStates : q = writing[p] /\ Known(q)
    BY RequestKnown DEF SubmissionsInv
  <1>2. q.at = "insertVersion" /\ q.abstract \in Abstracts
    BY <1>1 DEF InsertVersion, Known
  <1>3. CASE Fail(p) /\ UNCHANGED versions
    BY <1>3, ReadingStep DEF InsertVersion, ElsewhereFromSubmissions, submissionTables
  <1>4. CASE ~(Fail(p) /\ UNCHANGED versions)
    <2> DEFINE o == [q EXCEPT !.at = "setCurrent"]
    <2>1. /\ q.number \notin Numbers(q.abstract)
          /\ versions' = [versions EXCEPT ![q.abstract] = @ \cup
                             {[number |-> q.number, complete |-> q.complete]}]
          /\ writing' = [writing EXCEPT ![p] = o]
          /\ UNCHANGED <<wizard, settings, abstractRow, authors, decisions, revisions>>
      BY <1>1, <1>4 DEF InsertVersion, ElsewhereFromSubmissions
    <2>2. /\ q.number \in 1 .. Cardinality(versions[q.abstract]) + 1
          /\ q.number \in Nat /\ q.complete \in BOOLEAN
      BY <1>1, <1>2 DEF Known, WritingStates
    <2>3. Tables' /\ Grows
      BY <1>2, <2>1, <2>2, InsertVersionTables DEF SubmissionsInv
    <2>4. /\ o \in WritingStates /\ o.at = "setCurrent" /\ o.abstract = q.abstract
          /\ o.number = q.number /\ o.wizard = q.wizard
      BY AtStep DEF WritingSteps, SaveSteps
    <2>5. q.number # 0
      <3>1. Cardinality(versions[q.abstract]) \in Nat
        BY <1>2, FS_CardinalityType DEF SubmissionsInv, Tables
      <3> QED
        BY <2>2, <3>1
    <2> HIDE DEF o
    <2>6. Known(o)
      BY <1>1, <1>2, <2>4, <2>5 DEF Known, SubmitSteps, AuthorSteps
    <2>7. Clicks' /\ Work'
      BY <2>1, <2>3, <2>4, <2>6, GoStep DEF SubmissionsInv
    <2> QED
      BY <2>1, <2>3, <2>7 DEF SubmissionsInv
  <1> QED
    BY <1>3, <1>4

LEMMA SetCurrentStep ==
  ASSUME SubmissionsInv, NEW p \in Requests, SetCurrent(p)
  PROVE  SubmissionsInv'
  <1>1. PICK q \in WritingStates : q = writing[p] /\ Known(q)
    BY RequestKnown DEF SubmissionsInv
  <1>2. /\ q.at = "setCurrent" /\ q.abstract \in Abstracts /\ q.number # 0
    BY <1>1 DEF SetCurrent, Known
  <1>3. q.number \in Nat
    BY DEF WritingStates
  <1>4. current' = [current EXCEPT ![q.abstract] = q.number]
    BY <1>1 DEF SetCurrent
  <1>5. /\ current' \in [Abstracts -> Nat] /\ current'[q.abstract] # 0
        /\ \A b \in Abstracts : current[b] # 0 => current'[b] # 0
    BY <1>2, <1>3, <1>4 DEF SubmissionsInv, Tables
  <1>6. /\ UNCHANGED <<settings, status, number, versions, authors, decisions, revisions>>
        /\ Succeed(p)
    BY DEF SetCurrent, ElsewhereFromSubmissions
  <1>7. \A b \in Abstracts : Cardinality(versions[b]) \in Nat
    BY FS_CardinalityType DEF SubmissionsInv, Tables
  <1>8. Grows
    BY <1>5, <1>6, <1>7 DEF Grows
  <1>9. StatusIsEarned'
    BY <1>5, <1>6 DEF SubmissionsInv, Tables, StatusIsEarned
  <1>10. Tables'
    BY <1>5, <1>6, <1>9 DEF SubmissionsInv, Tables, VersionsGapless, Numbers
  <1>11. Clicks' /\ Work'
    BY <1>1, <1>2, <1>5, <1>6, <1>8, SucceedStep DEF SubmissionsInv
  <1> QED
    BY <1>6, <1>10, <1>11 DEF SubmissionsInv
(* The checks of a submission; a resubmission keeps its number.            *)
LEMMA CheckingStep ==
  ASSUME SubmissionsInv, NEW p \in Requests, ReadDeadline(p) \/ ReadForm(p) \/ CountAuthors(p)
  PROVE  SubmissionsInv'
  <1>1. PICK q \in WritingStates : q = writing[p] /\ Known(q)
    BY RequestKnown DEF SubmissionsInv
  <1>2. q.at \in {"readDeadline", "readForm", "countAuthors"} /\ q.at \in SubmitSteps
    BY <1>1 DEF ReadDeadline, ReadForm, CountAuthors, SubmitSteps
  <1>3. UNCHANGED <<settings, submissionTables>>
    BY DEF ReadDeadline, ReadForm, CountAuthors, ElsewhereFromSubmissions
  <1>4. CASE Fail(p)
    BY <1>3, <1>4, ReadingStep
  <1>5. CASE ~Fail(p)
    <2> DEFINE o(s) == [q EXCEPT !.at = s]
    <2>1. PICK s \in {"readForm", "countAuthors", "resubmit", "countNumbers"} :
              /\ writing' = [writing EXCEPT ![p] = o(s)]
              /\ s = "resubmit" => q.status = "REVISION_REQUIRED"
              /\ UNCHANGED wizard
      BY <1>1, <1>5 DEF ReadDeadline, ReadForm, CountAuthors, AfterForm
    <2>2. /\ o(s) \in WritingStates /\ o(s).at = s /\ o(s).abstract = q.abstract
          /\ o(s).status = q.status /\ o(s).wizard = q.wizard
      BY AtStep DEF WritingSteps, SubmitSteps
    <2> HIDE DEF o
    <2>3. Known(o(s))
      BY <1>1, <1>2, <2>1, <2>2 DEF Known, SubmitSteps, AuthorSteps
    <2> QED
      BY <1>3, <2>1, <2>2, <2>3, ReadingStep
  <1> QED
    BY <1>4, <1>5

(* A request with the number that it tries next.                           *)
Trying(q, step, n, k) == [q EXCEPT !.at = step, !.attempts = k, !.number = n]

LEMMA TryingKnown ==
  ASSUME NEW q \in WritingStates, NEW step \in WritingSteps, NEW n \in Nat, NEW k \in Nat
  PROVE  /\ Trying(q, step, n, k) \in WritingStates
         /\ Trying(q, step, n, k).at = step
         /\ Trying(q, step, n, k).abstract = q.abstract
         /\ Trying(q, step, n, k).number = n
         /\ Trying(q, step, n, k).status = q.status
         /\ Trying(q, step, n, k).wizard = q.wizard
  <1>1. Trying(q, step, n, k) \in WritingStates
    BY DEF Trying, WritingStates
  <1>2. /\ Trying(q, step, n, k).at = step
        /\ Trying(q, step, n, k).abstract = q.abstract
        /\ Trying(q, step, n, k).number = n
        /\ Trying(q, step, n, k).status = q.status
        /\ Trying(q, step, n, k).wizard = q.wizard
    BY DEF Trying, WritingStates
  <1> QED
    BY <1>1, <1>2

LEMMA TriesAgain ==
  ASSUME NEW q \in WritingStates, NEW k \in Nat
  PROVE  /\ [q EXCEPT !.number = @ + 1, !.attempts = k] \in WritingStates
         /\ [q EXCEPT !.number = @ + 1, !.attempts = k].at = q.at
         /\ [q EXCEPT !.number = @ + 1, !.attempts = k].abstract = q.abstract
         /\ [q EXCEPT !.number = @ + 1, !.attempts = k].number = q.number + 1
         /\ [q EXCEPT !.number = @ + 1, !.attempts = k].status = q.status
         /\ [q EXCEPT !.number = @ + 1, !.attempts = k].wizard = q.wizard
  <1> DEFINE o(n) == [q EXCEPT !.number = n, !.attempts = k]
  <1>1. PICK n \in Nat : n = q.number + 1
    BY DEF WritingStates
  <1>2. [q EXCEPT !.number = @ + 1, !.attempts = k] = o(n)
    BY <1>1, Zenon
  <1>3. o(n) \in WritingStates
    BY DEF WritingStates
  <1>4. /\ o(n).at = q.at /\ o(n).abstract = q.abstract /\ o(n).number = n
        /\ o(n).status = q.status /\ o(n).wizard = q.wizard
    BY DEF WritingStates
  <1> HIDE DEF o
  <1> QED
    BY <1>1, <1>2, <1>3, <1>4

LEMMA CountNumbersStep ==
  ASSUME SubmissionsInv, NEW p \in Requests, CountNumbers(p)
  PROVE  SubmissionsInv'
  <1>1. PICK q \in WritingStates : q = writing[p] /\ Known(q)
    BY RequestKnown DEF SubmissionsInv
  <1>2. PICK n \in Nat : n = Cardinality({a \in Abstracts : number[a] # 0})
    <2>1. IsFiniteSet(Abstracts) /\ {a \in Abstracts : number[a] # 0} \subseteq Abstracts
      BY EditorialAssumption
    <2> QED
      BY <2>1, FS_Subset, FS_CardinalityType
  <1> DEFINE o == Trying(q, "assignNumber", n + 1, 0)
  <1>3. writing' = [writing EXCEPT ![p] = o]
    BY <1>1, <1>2 DEF CountNumbers, Trying
  <1>4. /\ o \in WritingStates /\ o.at = "assignNumber" /\ o.abstract = q.abstract
        /\ o.number = n + 1 /\ o.status = q.status /\ o.wizard = q.wizard
    BY TryingKnown DEF WritingSteps, SubmitSteps
  <1> HIDE DEF o
  <1>5. q.at = "countNumbers"
    BY <1>1 DEF CountNumbers
  <1>6. Known(o)
    BY <1>1, <1>4, <1>5 DEF Known, SubmitSteps, AuthorSteps
  <1> QED
    BY <1>3, <1>4, <1>6, ReadingStep DEF CountNumbers, ElsewhereFromSubmissions

(* The last statement of a request gives the abstract its new status.      *)
LEMMA StatusStep ==
  ASSUME SubmissionsInv, NEW p \in Requests, NEW a \in Abstracts, NEW s \in AbstractStatuses,
         status' = [status EXCEPT ![a] = s], Succeed(p),
         writing[p].at \notin {"idle", "setCurrent"},
         UNCHANGED <<settings, current, versions, authors, decisions, revisions>>,
         number' \in [Abstracts -> Nat],
         \A b \in Abstracts : number[b] # 0 => number'[b] # 0,
         s \in Decisions \ {"REVISION_REQUIRED"} => s \in decisions[a],
         s \in {"REVISION_REQUIRED", "RESUBMITTED"} => Decided(a, "REVISION_REQUIRED"),
         s = "SUBMITTED" => number'[a] # 0 /\ current[a] # 0
  PROVE  SubmissionsInv'
  <1>1. Tables' /\ Grows
    BY StatusChanges DEF SubmissionsInv
  <1>2. Clicks' /\ Work'
    BY <1>1, SucceedStep DEF SubmissionsInv
  <1> QED
    BY <1>1, <1>2 DEF SubmissionsInv

LEMMA StatusNames ==
  /\ Decisions \subseteq AbstractStatuses
  /\ \A s \in {"RESUBMITTED", "SUBMITTED", "WITHDRAWN", "DRAFT"} :
         s \in AbstractStatuses /\ s \notin Decisions
  BY DEF Decisions, AbstractStatuses

LEMMA ResubmitStep ==
  ASSUME SubmissionsInv, NEW p \in Requests, Resubmit(p)
  PROVE  SubmissionsInv'
  <1>1. PICK q \in WritingStates : q = writing[p] /\ Known(q)
    BY RequestKnown DEF SubmissionsInv
  <1>2. /\ q.at = "resubmit" /\ q.at \in SubmitSteps
        /\ q.abstract \in Abstracts /\ Decided(q.abstract, "REVISION_REQUIRED")
    BY <1>1 DEF Resubmit, Known, SubmitSteps
  <1>3. /\ status' = [status EXCEPT ![q.abstract] = "RESUBMITTED"] /\ Succeed(p)
        /\ UNCHANGED <<settings, number, current, versions, authors, decisions, revisions>>
    BY <1>1 DEF Resubmit, ElsewhereFromSubmissions
  <1>4. number \in [Abstracts -> Nat]
    BY DEF SubmissionsInv, Tables
  <1> QED
    BY <1>1, <1>2, <1>3, <1>4, StatusNames, StatusStep

LEMMA UpdateWithdrawnStep ==
  ASSUME SubmissionsInv, NEW p \in Requests, UpdateWithdrawn(p)
  PROVE  SubmissionsInv'
  <1>1. PICK q \in WritingStates : q = writing[p] /\ Known(q)
    BY RequestKnown DEF SubmissionsInv
  <1>2. q.at = "withdraw" /\ q.abstract \in Abstracts
    BY <1>1 DEF UpdateWithdrawn, Known
  <1>3. /\ status' = [status EXCEPT ![q.abstract] = "WITHDRAWN"] /\ Succeed(p)
        /\ UNCHANGED <<settings, number, current, versions, authors, decisions, revisions>>
    BY <1>1 DEF UpdateWithdrawn, ElsewhereFromSubmissions
  <1>4. number \in [Abstracts -> Nat]
    BY DEF SubmissionsInv, Tables
  <1> QED
    BY <1>1, <1>2, <1>3, <1>4, StatusNames, StatusStep

LEMMA UpdateStatusStep ==
  ASSUME SubmissionsInv, NEW p \in Requests, UpdateStatus(p)
  PROVE  SubmissionsInv'
  <1>1. PICK q \in WritingStates : q = writing[p] /\ Known(q)
    BY RequestKnown DEF SubmissionsInv
  <1>2. /\ q.at = "updateStatus" /\ q.abstract \in Abstracts /\ q.decision \in Decisions
        /\ Decided(q.abstract, q.decision)
    BY <1>1 DEF UpdateStatus, Known
  <1>3. /\ status' = [status EXCEPT ![q.abstract] = q.decision] /\ Succeed(p)
        /\ UNCHANGED <<settings, number, current, versions, authors, decisions, revisions>>
    BY <1>1 DEF UpdateStatus, ElsewhereFromSubmissions
  <1>4. number \in [Abstracts -> Nat]
    BY DEF SubmissionsInv, Tables
  <1>5. q.decision # "REVISION_REQUIRED" => q.decision \in decisions[q.abstract]
    BY <1>2 DEF Decided
  <1> QED
    BY <1>1, <1>2, <1>3, <1>4, <1>5, StatusNames, StatusStep

LEMMA AssignNumberStep ==
  ASSUME SubmissionsInv, NEW p \in Requests, AssignNumber(p)
  PROVE  SubmissionsInv'
  <1>1. PICK q \in WritingStates : q = writing[p] /\ Known(q)
    BY RequestKnown DEF SubmissionsInv
  <1>2. /\ q.at = "assignNumber" /\ q.at \in SubmitSteps /\ q.abstract \in Abstracts
        /\ q.number # 0 /\ current[q.abstract] # 0
    BY <1>1 DEF AssignNumber, Known, SubmitSteps
  <1>3. q.number \in Nat /\ q.attempts \in Nat
    BY DEF WritingStates
  <1>4. UNCHANGED <<settings, current, versions, authors, decisions, revisions>>
    BY DEF AssignNumber, ElsewhereFromSubmissions
  <1>5. CASE /\ status' = [status EXCEPT ![q.abstract] = "SUBMITTED"]
             /\ number' = [number EXCEPT ![q.abstract] = q.number]
             /\ Succeed(p)
    <2>1. /\ number' \in [Abstracts -> Nat] /\ number'[q.abstract] # 0
          /\ \A b \in Abstracts : number[b] # 0 => number'[b] # 0
      BY <1>2, <1>3, <1>5 DEF SubmissionsInv, Tables
    <2> QED
      BY <1>1, <1>2, <1>4, <1>5, <2>1, StatusNames, StatusStep
  <1>6. CASE Fail(p) /\ UNCHANGED <<status, number>>
    BY <1>4, <1>6, ReadingStep DEF submissionTables, abstractRow
  <1> DEFINE o(tried) == [q EXCEPT !.number = @ + 1, !.attempts = tried]
  <1>7. CASE writing' = [writing EXCEPT ![p] = o(q.attempts + 1)]
             /\ UNCHANGED <<status, number, wizard>>
    <2>0. PICK k \in Nat : k = q.attempts + 1
      BY <1>3
    <2>1. /\ o(k) \in WritingStates /\ o(k).at = q.at
          /\ o(k).abstract = q.abstract /\ o(k).number = q.number + 1
          /\ o(k).status = q.status /\ o(k).wizard = q.wizard
      BY TriesAgain
    <2> HIDE DEF o
    <2>2. Known(o(k))
      BY <1>1, <1>2, <1>3, <2>1 DEF Known, SubmitSteps, AuthorSteps
    <2> QED
      BY <1>4, <1>7, <2>0, <2>1, <2>2, ReadingStep DEF submissionTables, abstractRow
  <1> QED
    BY <1>1, <1>5, <1>6, <1>7 DEF AssignNumber

(* The rows of authors are all that changes.                               *)
LEMMA AuthorsChange ==
  ASSUME SubmissionsInv, authors' \in [Abstracts -> SUBSET People],
         UNCHANGED <<abstractRow, versions, decisions, revisions>>
  PROVE  Tables' /\ Grows
  <1>1. UNCHANGED <<status, number, current>>
    BY DEF abstractRow
  <1>2. Tables'
    BY <1>1 DEF SubmissionsInv, Tables, VersionsGapless, Numbers, StatusIsEarned
  <1>3. \A b \in Abstracts : Cardinality(versions[b]) \in Nat
    BY FS_CardinalityType DEF SubmissionsInv, Tables
  <1> QED
    BY <1>1, <1>2, <1>3 DEF Grows

LEMMA DeleteAuthorsStep ==
  ASSUME SubmissionsInv, NEW p \in Requests, DeleteAuthors(p)
  PROVE  SubmissionsInv'
  <1>1. PICK q \in WritingStates : q = writing[p] /\ Known(q)
    BY RequestKnown DEF SubmissionsInv
  <1> DEFINE o == [q EXCEPT !.at = "createAuthors"]
  <1>2. /\ writing' = [writing EXCEPT ![p] = o]
        /\ authors' = [authors EXCEPT ![q.abstract] = {}]
        /\ UNCHANGED <<settings, wizard, abstractRow, versions, decisions, revisions>>
        /\ q.at = "deleteAuthors"
    BY <1>1 DEF DeleteAuthors, StepWriting, ElsewhereFromSubmissions
  <1>3. authors' \in [Abstracts -> SUBSET People]
    BY <1>2 DEF SubmissionsInv, Tables
  <1>4. Tables' /\ Grows
    BY <1>2, <1>3, AuthorsChange
  <1>5. /\ o \in WritingStates /\ o.at = "createAuthors" /\ o.abstract = q.abstract
        /\ o.wizard = q.wizard
    BY AtStep DEF WritingSteps
  <1> HIDE DEF o
  <1>6. Known(o)
    BY <1>1, <1>2, <1>5 DEF Known, SubmitSteps, AuthorSteps
  <1>7. Clicks' /\ Work'
    BY <1>2, <1>4, <1>5, <1>6, GoStep DEF SubmissionsInv
  <1> QED
    BY <1>2, <1>4, <1>7 DEF SubmissionsInv

LEMMA CreateAuthorsStep ==
  ASSUME SubmissionsInv, NEW p \in Requests, CreateAuthors(p)
  PROVE  SubmissionsInv'
  <1>1. PICK q \in WritingStates : q = writing[p] /\ Known(q)
    BY RequestKnown DEF SubmissionsInv
  <1>2. /\ q.at = "createAuthors" /\ q.abstract \in Abstracts /\ q.list \in SUBSET People
        /\ UNCHANGED <<settings, abstractRow, versions, decisions, revisions>>
    BY <1>1 DEF CreateAuthors, ElsewhereFromSubmissions, Known, WritingStates
  <1>3. CASE Fail(p) /\ UNCHANGED authors
    BY <1>2, <1>3, ReadingStep DEF submissionTables
  <1>4. CASE ~(Fail(p) /\ UNCHANGED authors)
    <2>1. authors' = [authors EXCEPT ![q.abstract] = @ \cup q.list] /\ Succeed(p)
      BY <1>1, <1>4 DEF CreateAuthors
    <2>2. authors' \in [Abstracts -> SUBSET People]
      BY <1>2, <2>1 DEF SubmissionsInv, Tables
    <2>3. Tables' /\ Grows
      BY <1>2, <2>2, AuthorsChange
    <2>4. Clicks' /\ Work'
      BY <1>1, <1>2, <2>1, <2>3, SucceedStep DEF SubmissionsInv
    <2> QED
      BY <1>2, <2>3, <2>4 DEF SubmissionsInv
  <1> QED
    BY <1>3, <1>4

LEMMA ContinueWritingStep ==
  ASSUME SubmissionsInv, NEW p \in Requests, ContinueWriting(p)
  PROVE  SubmissionsInv'
  BY ReadVersionStep, InsertVersionStep, SetCurrentStep, CheckingStep, ResubmitStep,
     CountNumbersStep, AssignNumberStep, UpdateWithdrawnStep, DeleteAuthorsStep,
     CreateAuthorsStep, UpdateStatusStep
  DEF ContinueWriting
-----------------------------------------------------------------------------
(* The tab, and what needs no request.                                     *)

LEMMA AbortWritingStep ==
  ASSUME SubmissionsInv, NEW p \in Requests, AbortWriting(p)
  PROVE  SubmissionsInv'
  BY ReadingStep DEF AbortWriting, ElsewhereFromSubmissions

LEMMA DraftTables ==
  ASSUME SubmissionsInv, NEW a \in Abstracts, Draft(a)
  PROVE  Tables' /\ Grows /\ UNCHANGED <<settings, writing>>
  <1>1. /\ status' = [status EXCEPT ![a] = "DRAFT"]
        /\ UNCHANGED <<settings, number, current, versions, authors, decisions, revisions, writing>>
    BY DEF Draft, ElsewhereFromSubmissions
  <1>2. number' \in [Abstracts -> Nat]
    BY <1>1 DEF SubmissionsInv, Tables
  <1> QED
    BY <1>1, <1>2, StatusNames, StatusChanges DEF SubmissionsInv

LEMMA GoToStep ==
  ASSUME SubmissionsInv, NEW step \in 0 .. 3, Go(step),
         step < 2 \/ step < wizard.step
  PROVE  SubmissionsInv'
  <1>1. /\ UNCHANGED <<settings, submissionTables, writing>>
        /\ wizard' = [wizard EXCEPT !.step = step]
    BY DEF Go, ElsewhereFromSubmissions
  <1>2. Tables' /\ Grows
    BY <1>1, TablesStay DEF SubmissionsInv
  <1>3. UNCHANGED current
    BY <1>1 DEF submissionTables, abstractRow
  <1>4. step >= 2 => wizard.draft # 0 /\ current'[wizard.draft] # 0
    BY <1>3 DEF SubmissionsInv, Clicks, WizardType, WizardHasSaved
  <1>5. Clicks' /\ wizard'.draft = wizard.draft
    BY <1>1, <1>2, <1>4, ClicksGo DEF SubmissionsInv
  <1>6. Work'
    BY <1>1, <1>2, <1>5, WorkStays DEF SubmissionsInv
  <1> QED
    BY <1>1, <1>2, <1>5, <1>6 DEF SubmissionsInv

LEMMA WizardBasicsNextStep ==
  ASSUME SubmissionsInv, WizardBasicsNext
  PROVE  SubmissionsInv'
  <1>1. CASE wizard.draft # 0 /\ Go(1)
    BY <1>1, GoToStep
  <1>2. CASE wizard.draft = 0
    <2>1. PICK a \in Abstracts :
              /\ Draft(a)
              /\ wizard' = [step |-> 1, draft |-> a] \/ UNCHANGED wizard
      BY <1>2 DEF WizardBasicsNext
    <2>2. Tables' /\ Grows /\ UNCHANGED <<settings, writing>>
      BY <2>1, DraftTables
    <2>3. Clicks'
      <3>1. CASE wizard' = [step |-> 1, draft |-> a]
        BY <3>1 DEF Clicks, WizardType, WizardHasSaved
      <3>2. CASE UNCHANGED wizard
        BY <2>2, <3>2, ClicksStay DEF SubmissionsInv
      <3> QED
        BY <2>1, <3>1, <3>2
    <2>4. ASSUME NEW r \in Requests
          PROVE  Known(writing[r])'
      <3>1. PICK o \in WritingStates : o = writing[r] /\ Known(o)
        BY RequestKnown DEF SubmissionsInv
      <3>2. ~o.wizard
        BY <1>2, <3>1 DEF Known
      <3>3. Known(o)'
        BY <2>2, <3>1, <3>2, KnownStays
      <3> QED
        BY <2>2, <3>1, <3>3
    <2> QED
      BY <2>2, <2>3, <2>4 DEF SubmissionsInv, Work
  <1> QED
    BY <1>1, <1>2 DEF WizardBasicsNext

LEMMA WizardBackStep ==
  ASSUME SubmissionsInv, WizardBack
  PROVE  SubmissionsInv'
  <1>1. PICK step \in 0 .. 3 : Go(step) /\ (step < 2 \/ step < wizard.step)
    BY DEF WizardBack
  <1> QED
    BY <1>1, GoToStep

LEMMA WizardReloadStep ==
  ASSUME SubmissionsInv, NEW a \in Abstracts \cup {0}, WizardReload(a)
  PROVE  SubmissionsInv'
  <1>1. /\ UNCHANGED <<settings, submissionTables>>
        /\ wizard' = [step |-> 0, draft |-> a]
        /\ writing' = [p \in Requests |-> [writing[p] EXCEPT !.wizard = FALSE]]
    BY DEF WizardReload, ElsewhereFromSubmissions
  <1>2. Tables' /\ Grows
    BY <1>1, TablesStay DEF SubmissionsInv
  <1>3. Clicks'
    BY <1>1 DEF Clicks, WizardType, WizardHasSaved
  <1>4. ASSUME NEW r \in Requests
        PROVE  writing'[r] \in WritingStates /\ Known(writing[r])'
    <2>1. PICK o \in WritingStates : o = writing[r] /\ Known(o)
      BY RequestKnown DEF SubmissionsInv
    <2>2. writing'[r] = [o EXCEPT !.wizard = FALSE]
      BY <1>1, <2>1
    <2> QED
      BY <1>2, <2>1, <2>2, Unwatched
  <1> QED
    BY <1>1, <1>2, <1>3, <1>4 DEF SubmissionsInv, Work

LEMMA ChangeSettingStep ==
  ASSUME SubmissionsInv, NEW name \in DOMAIN settings, ChangeSetting(name)
  PROVE  SubmissionsInv'
  <1>1. /\ UNCHANGED <<submissionTables, wizard, writing>>
        /\ settings' = [settings EXCEPT ![name] = ~@]
    BY DEF ChangeSetting
  <1>2. name \in {"deadlinePassed", "authorsRequired", "preventSpeakerOverlap"}
    BY DEF SubmissionsInv, Settings
  <1>3. settings' \in Settings
    BY <1>1, <1>2 DEF SubmissionsInv, Settings
  <1>4. Tables' /\ Grows
    BY <1>1, TablesStay DEF SubmissionsInv
  <1>5. Clicks' /\ Work'
    BY <1>1, <1>4, ClicksStay, WorkStays DEF SubmissionsInv
  <1> QED
    BY <1>3, <1>4, <1>5 DEF SubmissionsInv

LEMMA SubmissionsNextStep ==
  ASSUME SubmissionsInv, SubmissionsNext
  PROVE  SubmissionsInv'
  <1>1. ASSUME NEW a \in Abstracts, CreateDraft(a)
        PROVE  SubmissionsInv'
    <2>1. Tables' /\ Grows /\ UNCHANGED <<settings, writing, wizard>>
      BY <1>1, DraftTables DEF CreateDraft
    <2>2. Clicks' /\ Work'
      BY <2>1, ClicksStay, WorkStays DEF SubmissionsInv
    <2> QED
      BY <2>1, <2>2 DEF SubmissionsInv
  <1> QED
    BY <1>1, BeginSubmissionStep, ContinueWritingStep, AbortWritingStep, WizardBasicsNextStep,
       WizardBackStep, WizardReloadStep, ChangeSettingStep
    DEF SubmissionsNext

(* What the steps of the other services leave alone.                       *)
LEMMA SubmissionsInvStays ==
  ASSUME SubmissionsInv, UNCHANGED submissionVars
  PROVE  SubmissionsInv'
  <1>1. UNCHANGED <<settings, submissionTables, wizard, writing>>
    BY DEF submissionVars
  <1>2. Tables' /\ Grows
    BY <1>1, TablesStay DEF SubmissionsInv
  <1>3. Clicks' /\ Work'
    BY <1>1, <1>2, ClicksStay, WorkStays DEF SubmissionsInv
  <1> QED
    BY <1>1, <1>2, <1>3 DEF SubmissionsInv

LEMMA SubmissionsStep ==
  ASSUME SubmissionsInv, [Next]_vars
  PROVE  SubmissionsInv'
  <1>1. SubmissionsNext \/ UNCHANGED submissionVars
    BY ReviewingElsewhere, ProgrammeElsewhere DEF Next, vars
  <1> QED
    BY <1>1, SubmissionsNextStep, SubmissionsInvStays

LEMMA SubmissionsBegin ==
  ASSUME Init
  PROVE  SubmissionsInv
  <1>1. \A a \in Abstracts : a \in Nat /\ a # 0
    BY EditorialAssumption
  <1>2. scenario \in Scenarios /\ SubmissionsInit
    BY DEF Init
  <1>3. scenario.start \in Starts
    BY <1>2, EditorialAssumption
  <1>4. settings \in Settings
    BY <1>2 DEF SubmissionsInit, Settings
  <1>5. Clicks
    BY <1>2 DEF SubmissionsInit, ClosedWizard, Clicks, WizardType, WizardHasSaved
  <1>6. Work
    BY <1>2, IdleWritingKnown DEF SubmissionsInit, Work
  <1>7. status \in [Abstracts -> AbstractStatuses]
    <2>1. \A a \in Abstracts : status[a] \in {"NONE", "DRAFT", "SUBMITTED", "ACCEPTED"}
      BY <1>2, <1>3 DEF SubmissionsInit, Early, Starts
    <2> QED
      BY <1>2, <2>1 DEF SubmissionsInit, AbstractStatuses, Decisions
  <1>8. /\ number \in [Abstracts -> Nat] /\ current \in [Abstracts -> Nat]
        /\ authors \in [Abstracts -> SUBSET People]
        /\ revisions \in [Abstracts -> BOOLEAN]
    BY <1>1, <1>2 DEF SubmissionsInit
  <1>9. decisions \in [Abstracts -> SUBSET Decisions]
    BY <1>2 DEF SubmissionsInit, Decisions
  <1>10. ASSUME NEW a \in Abstracts
         PROVE  /\ versions[a] \in SUBSET Versions /\ IsFiniteSet(versions[a])
                /\ Numbers(a) = 1 .. Cardinality(versions[a])
    <2> DEFINE first == [number |-> 1, complete |-> TRUE]
    <2>1. versions[a] = {} \/ versions[a] = {first}
      BY <1>2 DEF SubmissionsInit
    <2>2. CASE versions[a] = {}
      <3>1. IsFiniteSet(versions[a]) /\ Cardinality(versions[a]) = 0 /\ Numbers(a) = {}
        BY <2>2, FS_EmptySet DEF Numbers
      <3> QED
        BY <2>2, <3>1
    <2>3. CASE versions[a] = {first}
      <3>1. IsFiniteSet(versions[a]) /\ Cardinality(versions[a]) = 1
        BY <2>3, FS_Singleton
      <3>2. Numbers(a) = {1}
        BY <2>3 DEF Numbers
      <3> QED
        BY <2>3, <3>1, <3>2 DEF Versions
    <2> QED
      BY <2>1, <2>2, <2>3
  <1>11. versions \in [Abstracts -> SUBSET Versions]
    BY <1>2, <1>10 DEF SubmissionsInit
  <1>12. StatusIsEarned
    <2>1. ASSUME NEW a \in Abstracts, a \in Early
          PROVE  /\ scenario.start \in {"drafts", "submitted", "accepted"}
                 /\ current[a] = 1
                 /\ scenario.start = "drafts" => status[a] = "DRAFT"
                 /\ scenario.start = "submitted" => status[a] = "SUBMITTED" /\ number[a] = a
                 /\ scenario.start = "accepted" =>
                        status[a] = "ACCEPTED" /\ "ACCEPTED" \in decisions[a]
      BY <1>2, <1>3, <2>1 DEF SubmissionsInit, Early, Starts
    <2>2. ASSUME NEW a \in Abstracts, a \notin Early
          PROVE  status[a] = "NONE"
      BY <1>2, <2>2 DEF SubmissionsInit
    <2> QED
      BY <1>1, <2>1, <2>2 DEF StatusIsEarned, Decisions
  <1> QED
    BY <1>4, <1>5, <1>6, <1>7, <1>8, <1>9, <1>10, <1>11, <1>12
    DEF SubmissionsInv, Tables, VersionsGapless

LEMMA SubmissionsInvariance == Spec => []SubmissionsInv
  <1>1. Init => SubmissionsInv
    BY SubmissionsBegin
  <1>2. SubmissionsInv /\ [Next]_vars => SubmissionsInv'
    BY SubmissionsStep
  <1> QED
    BY <1>1, <1>2, PTL DEF Spec

(* The versions of an abstract are numbered without gap or repeat: what    *)
(* AbstractsService.saveVersion promises with its unique index, for any    *)
(* number of saves at a time.                                              *)
THEOREM VersionsAreGapless == Spec => []VersionsGapless
  <1>1. SubmissionsInv => VersionsGapless
    BY DEF SubmissionsInv, Tables
  <1> QED
    BY <1>1, SubmissionsInvariance, PTL

(* No status is reached without what it stands for, in whatever order the  *)
(* requests of AbstractsService and DecisionsService overtake each other.  *)
THEOREM StatusIsAlwaysEarned == Spec => []StatusIsEarned
  <1>1. SubmissionsInv => StatusIsEarned
    BY DEF SubmissionsInv, Tables
  <1> QED
    BY <1>1, SubmissionsInvariance, PTL

(* The wizard's review page is reached with a saved version only, however  *)
(* its tab is clicked, left and loaded again.                              *)
THEOREM WizardAlwaysHasSaved == Spec => []WizardHasSaved
  <1>1. SubmissionsInv => WizardHasSaved
    BY DEF SubmissionsInv, Clicks
  <1> QED
    BY <1>1, SubmissionsInvariance, PTL
-----------------------------------------------------------------------------
(* Reviewing: the rows of assignments.                                     *)

Rows ==
    /\ assignments \in Seq(Assignments)
    /\ \A i \in Ids : assignments[i].from <= Len(assignments)
    /\ CompletedHasReview
    /\ ReassignedIsNotOpen

(* Rows are never taken back, nor is a review or the end of a task.        *)
RowsGrow ==
    /\ Len(assignments) \in Nat /\ Len(assignments') \in Nat
    /\ Len(assignments) <= Len(assignments')
    /\ \A i \in 1 .. Len(assignments) :
           /\ assignments[i].status # "PENDING" => assignments'[i].status # "PENDING"
           /\ assignments[i].reviewed => assignments'[i].reviewed

LEMMA RowsStay ==
  ASSUME Rows, UNCHANGED assignments
  PROVE  Rows' /\ RowsGrow
  BY DEF Rows, RowsGrow, Ids, CompletedHasReview, ReassignedIsNotOpen

LEMMA RowType ==
  ASSUME Rows, NEW i \in Ids
  PROVE  i \in 1 .. Len(assignments) /\ assignments[i] \in Assignments
  BY DEF Rows, Ids

(* One row changes.                                                        *)
LEMMA RowChanges ==
  ASSUME Rows, NEW i \in Ids, NEW row \in Assignments,
         assignments' = [assignments EXCEPT ![i] = row],
         row.from = assignments[i].from,
         row.status = "PENDING" => assignments[i].status = "PENDING",
         assignments[i].reviewed => row.reviewed,
         row.status = "COMPLETED" => row.reviewed
  PROVE  Rows' /\ RowsGrow
  <1>1. /\ assignments' \in Seq(Assignments) /\ Len(assignments') = Len(assignments)
        /\ assignments'[i] = row /\ i \in 1 .. Len(assignments)
        /\ \A j \in 1 .. Len(assignments) : j # i => assignments'[j] = assignments[j]
    BY DEF Rows, Ids
  <1>2. Ids = 1 .. Len(assignments) /\ Ids' = 1 .. Len(assignments)
    BY <1>1 DEF Rows, Ids
  <1>3. \A j \in 1 .. Len(assignments) : assignments'[j].from = assignments[j].from
    BY <1>1
  <1>4. \A j \in 1 .. Len(assignments) :
            /\ assignments'[j].status = "PENDING" => assignments[j].status = "PENDING"
            /\ assignments[j].reviewed => assignments'[j].reviewed
    BY <1>1
  <1>5. CompletedHasReview'
    BY <1>1, <1>2 DEF Rows, CompletedHasReview
  <1>6. ReassignedIsNotOpen'
    BY <1>2, <1>3, <1>4 DEF Rows, ReassignedIsNotOpen
  <1>7. \A j \in Ids' : assignments'[j].from <= Len(assignments')
    BY <1>1, <1>2, <1>3 DEF Rows
  <1>8. Len(assignments) \in Nat
    BY DEF Rows
  <1> QED
    BY <1>1, <1>4, <1>5, <1>6, <1>7, <1>8 DEF Rows, RowsGrow

(* A row is added; the one that it succeeds is closed.                     *)
LEMMA RowIsAdded ==
  ASSUME Rows, NEW row \in Assignments, assignments' = Append(assignments, row),
         row.status = "PENDING", row.from \in 0 .. Len(assignments),
         row.from # 0 => assignments[row.from].status # "PENDING"
  PROVE  Rows' /\ RowsGrow
  <1>1. PICK n \in Nat : n = Len(assignments)
    BY DEF Rows
  <1>2. /\ assignments' \in Seq(Assignments) /\ Len(assignments') = n + 1
        /\ assignments'[n + 1] = row
        /\ \A j \in 1 .. n : assignments'[j] = assignments[j]
    BY <1>1 DEF Rows
  <1>3. Ids = 1 .. n /\ Ids' = 1 .. n + 1
    BY <1>1, <1>2 DEF Rows, Ids
  <1>4. \A j \in 1 .. n + 1 : j = n + 1 \/ j \in 1 .. n
    OBVIOUS
  <1>5. ASSUME NEW j \in 1 .. n
        PROVE  assignments[j].from <= n /\ assignments[j].from \in Nat
    <2>1. assignments[j].from <= n
      BY <1>1, <1>3 DEF Rows
    <2>2. assignments[j] \in Assignments
      BY <1>3, RowType
    <2> QED
      BY <2>1, <2>2 DEF Assignments
  <1>6. CompletedHasReview'
    BY <1>2, <1>3, <1>4 DEF Rows, CompletedHasReview
  <1>7. \A j \in 1 .. n + 1 : assignments'[j].from \in 0 .. n
    BY <1>1, <1>2, <1>4, <1>5
  <1>8. ReassignedIsNotOpen'
    <2>1. ASSUME NEW i \in 1 .. n + 1, NEW j \in 1 .. n + 1, assignments'[j].from = i
          PROVE  assignments'[i].status # "PENDING"
      <3>1. i \in 1 .. n /\ assignments'[i] = assignments[i]
        BY <1>2, <1>7, <2>1
      <3>2. CASE j \in 1 .. n
        BY <1>2, <1>3, <2>1, <3>1, <3>2 DEF Rows, ReassignedIsNotOpen
      <3>3. CASE j = n + 1
        BY <1>2, <2>1, <3>1, <3>3
      <3> QED
        BY <1>4, <3>2, <3>3
    <2> QED
      BY <1>3, <2>1 DEF ReassignedIsNotOpen
  <1> QED
    BY <1>1, <1>2, <1>3, <1>6, <1>7, <1>8 DEF Rows, RowsGrow

-----------------------------------------------------------------------------
(* Reviewing: what a request knows.                                        *)

HandSteps == {"checkAssign", "create", "checkReassign", "cancelOld", "createSuccessor"}
RowSteps == {"checkReassign", "cancelOld", "createSuccessor", "insertReview", "complete"}
LoopSteps == {"checkCandidate", "selectReviewers", "createAuto"}

(* The workload of automatic assignment stays even as long as nobody was   *)
(* left out: the abstracts to come have no reviewers yet, every active     *)
(* reviewer is a candidate, and the chosen ones have the lightest load.    *)
EvenSoFar(q) ==
    /\ \A r, s \in q.pool : q.load[r] <= q.load[s] + 1
    /\ q.at \notin {"readAbstracts", "readAssignments"} =>
           \A a \in q.todo, r \in Reviewers : <<a, r>> \notin q.pairs
    /\ q.at \in {"checkCandidate", "selectReviewers"} =>
           /\ \A r \in Reviewers : <<q.abstract, r>> \notin q.pairs
           /\ q.unchecked \cup q.candidates = q.pool
    /\ q.at = "selectReviewers" => q.unchecked = {}
    /\ q.at = "createAuto" =>
           /\ q.chosen \subseteq q.pool
           /\ \A c \in q.chosen, r \in q.pool \ q.chosen : q.load[c] <= q.load[r]

Doing(q) ==
    /\ q.at \in HandSteps => q.abstract \in Abstracts /\ q.reviewer \in Reviewers
    /\ q.at \in RowSteps => q.id \in 1 .. Len(assignments)
    /\ q.at = "createSuccessor" => assignments[q.id].status # "PENDING"
    /\ q.at = "complete" => assignments[q.id].reviewed
    /\ q.at \in LoopSteps => q.abstract \in Abstracts /\ q.abstract \notin q.todo
    /\ q.at = "createAuto" => q.chosen # {}
    /\ q.at \in AutoSteps /\ q.fair => EvenSoFar(q)

ReviewingInv ==
    /\ active \subseteq Reviewers
    /\ institution \in [Reviewers -> Institutions \cup {NoInstitution}]
    /\ Rows
    /\ reviewing \in [Requests -> ReviewingStates]
    /\ \A p \in Requests : Doing(reviewing[p])

LEMMA DoingStays ==
  ASSUME NEW q \in ReviewingStates, Doing(q), RowsGrow
  PROVE  Doing(q)'
  <1>1. q.at \in RowSteps => /\ q.id \in 1 .. Len(assignments)
                             /\ q.id \in 1 .. Len(assignments')
    BY DEF Doing, RowsGrow
  <1>2. q.at = "createSuccessor" => assignments'[q.id].status # "PENDING"
    BY <1>1 DEF Doing, RowsGrow, RowSteps
  <1>3. q.at = "complete" => assignments'[q.id].reviewed
    BY <1>1 DEF Doing, RowsGrow, RowSteps
  <1> QED
    BY <1>1, <1>2, <1>3 DEF Doing

LEMMA IdleReviewingDoing ==
  /\ IdleReviewing \in ReviewingStates /\ IdleReviewing.at = "idle"
  /\ Doing(IdleReviewing) /\ Doing(IdleReviewing)'
  <1>1. IdleReviewing \in ReviewingStates /\ IdleReviewing.at = "idle"
    BY DEF IdleReviewing, ReviewingStates, ReviewingSteps
  <1> QED
    BY <1>1 DEF Doing, HandSteps, RowSteps, LoopSteps, AutoSteps

LEMMA RequestDoing ==
  ASSUME ReviewingInv, NEW p \in Requests
  PROVE  reviewing[p] \in ReviewingStates /\ Doing(reviewing[p])
  BY DEF ReviewingInv

LEMMA OneReviewing ==
  ASSUME ReviewingInv, Rows', RowsGrow, NEW p \in Requests, NEW q \in ReviewingStates,
         reviewing' = [reviewing EXCEPT ![p] = q], Doing(q)',
         UNCHANGED <<active, institution>>
  PROVE  ReviewingInv'
  <1>1. reviewing' \in [Requests -> ReviewingStates] /\ reviewing'[p] = q
    BY DEF ReviewingInv
  <1>2. ASSUME NEW r \in Requests
        PROVE  Doing(reviewing[r])'
    <2>1. CASE r = p
      BY <1>1, <2>1
    <2>2. CASE r # p
      <3>1. PICK o \in ReviewingStates : o = reviewing[r] /\ Doing(o)
        BY RequestDoing
      <3>2. reviewing'[r] = o
        BY <2>2, <3>1 DEF ReviewingInv
      <3>3. Doing(o)'
        BY <3>1, DoingStays
      <3> QED
        BY <3>2, <3>3
    <2> QED
      BY <2>1, <2>2
  <1> QED
    BY <1>1, <1>2 DEF ReviewingInv

(* Requests are as they were, and so is what they know.                    *)
LEMMA ReviewingStays ==
  ASSUME ReviewingInv, Rows', RowsGrow, UNCHANGED reviewing,
         active' \subseteq Reviewers,
         institution' \in [Reviewers -> Institutions \cup {NoInstitution}]
  PROVE  ReviewingInv'
  <1>1. ASSUME NEW r \in Requests
        PROVE  Doing(reviewing[r])'
    <2>1. PICK o \in ReviewingStates : o = reviewing[r] /\ Doing(o)
      BY RequestDoing
    <2>2. Doing(o)'
      BY <2>1, DoingStays
    <2> QED
      BY <2>1, <2>2
  <1> QED
    BY <1>1 DEF ReviewingInv

(* A request goes on with what it knows, or ends, and no row changes.      *)
LEMMA ReadingRowsStep ==
  ASSUME ReviewingInv, NEW p \in Requests, UNCHANGED <<active, institution, assignments>>,
         NEW q \in ReviewingStates, reviewing' = [reviewing EXCEPT ![p] = q], Doing(q)
  PROVE  ReviewingInv'
  <1>1. Rows' /\ RowsGrow
    BY RowsStay DEF ReviewingInv
  <1>2. Doing(q)'
    BY <1>1, DoingStays
  <1> QED
    BY <1>1, <1>2, OneReviewing

LEMMA EndsReviewing ==
  ASSUME ReviewingInv, NEW p \in Requests, UNCHANGED <<active, institution>>, RespondReviewing(p),
         Rows', RowsGrow
  PROVE  ReviewingInv'
  BY IdleReviewingDoing, OneReviewing DEF RespondReviewing

LEMMA AtReviewing ==
  ASSUME NEW q \in ReviewingStates, NEW step \in ReviewingSteps
  PROVE  /\ [q EXCEPT !.at = step] \in ReviewingStates
         /\ [q EXCEPT !.at = step].at = step
         /\ [q EXCEPT !.at = step].abstract = q.abstract
         /\ [q EXCEPT !.at = step].reviewer = q.reviewer
         /\ [q EXCEPT !.at = step].id = q.id
         /\ [q EXCEPT !.at = step].todo = q.todo
         /\ [q EXCEPT !.at = step].pool = q.pool
         /\ [q EXCEPT !.at = step].pairs = q.pairs
         /\ [q EXCEPT !.at = step].load = q.load
         /\ [q EXCEPT !.at = step].unchecked = q.unchecked
         /\ [q EXCEPT !.at = step].candidates = q.candidates
         /\ [q EXCEPT !.at = step].chosen = q.chosen
         /\ [q EXCEPT !.at = step].fair = q.fair
  BY DEF ReviewingStates
-----------------------------------------------------------------------------
(* Assigning by hand, reassigning, refusing and reviewing.                 *)

LEMMA BeginReviewingStep ==
  ASSUME ReviewingInv, NEW p \in Requests, NEW call, NEW q \in ReviewingStates, Doing(q),
         BeginReviewing(p, call, q)
  PROVE  ReviewingInv'
  BY ReadingRowsStep DEF BeginReviewing

LEMMA AssignStep ==
  ASSUME ReviewingInv, NEW p \in Requests, NEW a \in Abstracts, NEW r \in Reviewers,
         Assign(p, a, r)
  PROVE  ReviewingInv'
  <1> DEFINE request == [IdleReviewing EXCEPT !.at = "checkAssign", !.abstract = a, !.reviewer = r]
  <1>1. request \in ReviewingStates
    BY DEF IdleReviewing, ReviewingStates, ReviewingSteps
  <1>2. request.at = "checkAssign" /\ request.abstract = a /\ request.reviewer = r
    BY DEF IdleReviewing
  <1>3. BeginReviewing(p, "assign", request)
    BY DEF Assign
  <1> HIDE DEF request
  <1>4. Doing(request)
    BY <1>2 DEF Doing, HandSteps, RowSteps, LoopSteps, AutoSteps
  <1> QED
    BY <1>1, <1>3, <1>4, BeginReviewingStep

LEMMA AutoAssignStep ==
  ASSUME ReviewingInv, NEW p \in Requests, AutoAssign(p)
  PROVE  ReviewingInv'
  <1> DEFINE request(pool) == [IdleReviewing EXCEPT !.at = "readAbstracts", !.pool = pool]
  <1>1. PICK pool \in SUBSET Reviewers : pool = active
    BY DEF ReviewingInv
  <1>2. request(pool) \in ReviewingStates
    BY DEF IdleReviewing, ReviewingStates, ReviewingSteps, AutoSteps
  <1>3. /\ request(pool).at = "readAbstracts" /\ request(pool).pool = pool
        /\ request(pool).load = [r \in Reviewers |-> 0]
    BY DEF IdleReviewing
  <1>4. BeginReviewing(p, "autoAssign", request(pool))
    BY <1>1 DEF AutoAssign
  <1> HIDE DEF request
  <1>5. EvenSoFar(request(pool))
    BY <1>3 DEF EvenSoFar
  <1>6. Doing(request(pool))
    BY <1>3, <1>5 DEF Doing, HandSteps, RowSteps, LoopSteps
  <1> QED
    BY <1>2, <1>4, <1>6, BeginReviewingStep

LEMMA ReassignStep ==
  ASSUME ReviewingInv, NEW p \in Requests, NEW i \in Ids, NEW r \in Reviewers, Reassign(p, i, r)
  PROVE  ReviewingInv'
  <1> DEFINE request(a) == [IdleReviewing EXCEPT !.at = "checkReassign", !.id = i, !.reviewer = r,
                                                 !.abstract = a]
  <1>1. i \in Nat /\ i \in 1 .. Len(assignments) /\ assignments[i] \in Assignments
    BY RowType DEF ReviewingInv
  <1>2. PICK a \in Abstracts : a = assignments[i].abstract
    BY <1>1 DEF Assignments
  <1>3. request(a) \in ReviewingStates
    BY <1>1 DEF IdleReviewing, ReviewingStates, ReviewingSteps
  <1>4. /\ request(a).at = "checkReassign" /\ request(a).abstract = a /\ request(a).reviewer = r
        /\ request(a).id = i
    BY DEF IdleReviewing
  <1>5. BeginReviewing(p, "reassign", request(a))
    BY <1>2 DEF Reassign
  <1> HIDE DEF request
  <1>6. Doing(request(a))
    BY <1>1, <1>4 DEF Doing, HandSteps, RowSteps, LoopSteps, AutoSteps
  <1> QED
    BY <1>3, <1>5, <1>6, BeginReviewingStep

LEMMA SubmitReviewStep ==
  ASSUME ReviewingInv, NEW p \in Requests, NEW i \in Ids, SubmitReview(p, i)
  PROVE  ReviewingInv'
  <1> DEFINE request == [IdleReviewing EXCEPT !.at = "insertReview", !.id = i]
  <1>1. i \in Nat /\ i \in 1 .. Len(assignments)
    BY RowType DEF ReviewingInv
  <1>2. request \in ReviewingStates
    BY <1>1 DEF IdleReviewing, ReviewingStates, ReviewingSteps
  <1>3. request.at = "insertReview" /\ request.id = i
    BY DEF IdleReviewing
  <1>4. BeginReviewing(p, "submitReview", request)
    BY DEF SubmitReview
  <1> HIDE DEF request
  <1>5. Doing(request)
    BY <1>1, <1>3 DEF Doing, HandSteps, RowSteps, LoopSteps, AutoSteps
  <1> QED
    BY <1>2, <1>4, <1>5, BeginReviewingStep

LEMMA CheckStep ==
  ASSUME ReviewingInv, NEW p \in Requests, CheckAssign(p) \/ CheckReassign(p)
  PROVE  ReviewingInv'
  <1>1. PICK q \in ReviewingStates : q = reviewing[p] /\ Doing(q)
    BY RequestDoing
  <1>2. UNCHANGED <<active, institution, assignments>>
    BY DEF CheckAssign, CheckReassign, Check
  <1>3. Rows' /\ RowsGrow
    BY <1>2, RowsStay DEF ReviewingInv
  <1>4. CASE RespondReviewing(p)
    BY <1>2, <1>3, <1>4, EndsReviewing
  <1>5. CASE ~RespondReviewing(p)
    <2> DEFINE o(s) == [q EXCEPT !.at = s]
    <2>1. PICK s \in {"create", "cancelOld"} :
              /\ reviewing' = [reviewing EXCEPT ![p] = o(s)]
              /\ q.at \in {"checkAssign", "checkReassign"}
              /\ s = "cancelOld" => q.at = "checkReassign"
      BY <1>1, <1>5 DEF CheckAssign, CheckReassign, Check, GotoReviewing
    <2>2. /\ o(s) \in ReviewingStates /\ o(s).at = s /\ o(s).abstract = q.abstract
          /\ o(s).reviewer = q.reviewer /\ o(s).id = q.id
      BY AtReviewing DEF ReviewingSteps
    <2> HIDE DEF o
    <2>3. Doing(o(s))
      BY <1>1, <2>1, <2>2 DEF Doing, HandSteps, RowSteps, LoopSteps, AutoSteps
    <2> QED
      BY <1>2, <2>1, <2>2, <2>3, ReadingRowsStep
  <1> QED
    BY <1>4, <1>5

LEMMA NewAssignmentType ==
  ASSUME NEW a \in Abstracts, NEW r \in Reviewers, NEW from \in Nat
  PROVE  /\ NewAssignment(a, r, from, FALSE) \in Assignments
         /\ NewAssignment(a, r, from, FALSE).status = "PENDING"
         /\ NewAssignment(a, r, from, FALSE).from = from
         /\ NewAssignment(a, r, from, TRUE) \in Assignments
         /\ NewAssignment(a, r, from, TRUE).status = "PENDING"
         /\ NewAssignment(a, r, from, TRUE).from = from
  BY DEF NewAssignment, Assignments, AssignmentStatuses

LEMMA CreateAssignmentStep ==
  ASSUME ReviewingInv, NEW p \in Requests, CreateAssignment(p)
  PROVE  ReviewingInv'
  <1>1. PICK q \in ReviewingStates : q = reviewing[p] /\ Doing(q)
    BY RequestDoing
  <1>2. q.abstract \in Abstracts /\ q.reviewer \in Reviewers
    BY <1>1 DEF CreateAssignment, Doing, HandSteps
  <1> DEFINE row == NewAssignment(q.abstract, q.reviewer, 0, FALSE)
  <1>3. row \in Assignments /\ row.status = "PENDING" /\ row.from = 0
    BY <1>2, NewAssignmentType
  <1>4. assignments' = Append(assignments, row)
    BY <1>1 DEF CreateAssignment, Insert
  <1>5. Len(assignments) \in Nat
    BY DEF ReviewingInv, Rows
  <1> HIDE DEF row
  <1>6. Rows' /\ RowsGrow
    BY <1>3, <1>4, <1>5, RowIsAdded DEF ReviewingInv
  <1> QED
    BY <1>6, EndsReviewing DEF CreateAssignment

LEMMA CreateSuccessorStep ==
  ASSUME ReviewingInv, NEW p \in Requests, CreateSuccessor(p)
  PROVE  ReviewingInv'
  <1>1. PICK q \in ReviewingStates : q = reviewing[p] /\ Doing(q)
    BY RequestDoing
  <1>2. /\ q.abstract \in Abstracts /\ q.reviewer \in Reviewers /\ q.id \in 1 .. Len(assignments)
        /\ assignments[q.id].status # "PENDING"
    BY <1>1 DEF CreateSuccessor, Doing, HandSteps, RowSteps
  <1> DEFINE row == NewAssignment(q.abstract, q.reviewer, q.id, FALSE)
  <1>3. row \in Assignments /\ row.status = "PENDING" /\ row.from = q.id
    <2>1. q.id \in Nat
      BY DEF ReviewingStates
    <2> QED
      BY <1>2, <2>1, NewAssignmentType
  <1>4. assignments' = Append(assignments, row)
    BY <1>1 DEF CreateSuccessor, Insert
  <1>5. Len(assignments) \in Nat
    BY DEF ReviewingInv, Rows
  <1> HIDE DEF row
  <1>6. Rows' /\ RowsGrow
    BY <1>2, <1>3, <1>4, <1>5, RowIsAdded DEF ReviewingInv
  <1> QED
    BY <1>6, EndsReviewing DEF CreateSuccessor

(* The status of a row becomes one that ends the task.                     *)
LEMMA UpdateStep ==
  ASSUME ReviewingInv, NEW i \in Ids, NEW value \in AssignmentStatuses \ {"PENDING"},
         Update(i, value), value = "COMPLETED" => assignments[i].reviewed
  PROVE  Rows' /\ RowsGrow /\ i \in 1 .. Len(assignments) /\ assignments'[i].status = value
  <1>1. PICK o \in Assignments : o = assignments[i]
    BY RowType DEF ReviewingInv
  <1> DEFINE row == [o EXCEPT !.status = value]
  <1>2. assignments' = [assignments EXCEPT ![i] = row]
    BY <1>1 DEF Update
  <1>3. row \in Assignments /\ row.status = value /\ row.from = o.from /\ row.reviewed = o.reviewed
    BY DEF Assignments
  <1> HIDE DEF row
  <1>4. Rows' /\ RowsGrow
    BY <1>1, <1>2, <1>3, RowChanges DEF ReviewingInv
  <1>5. assignments'[i] = row /\ i \in 1 .. Len(assignments)
    BY <1>2 DEF ReviewingInv, Rows, Ids
  <1> QED
    BY <1>3, <1>4, <1>5

LEMMA CancelOldStep ==
  ASSUME ReviewingInv, NEW p \in Requests, CancelOld(p)
  PROVE  ReviewingInv'
  <1>1. PICK q \in ReviewingStates : q = reviewing[p] /\ Doing(q)
    BY RequestDoing
  <1>2. /\ q.at = "cancelOld" /\ q.abstract \in Abstracts /\ q.reviewer \in Reviewers
        /\ q.id \in 1 .. Len(assignments)
    BY <1>1 DEF CancelOld, Doing, HandSteps, RowSteps
  <1>3. q.id \in Ids
    BY <1>2 DEF Ids, ReviewingInv, Rows
  <1>4. Update(q.id, "CANCELLED")
    BY <1>1 DEF CancelOld
  <1>5. Rows' /\ RowsGrow /\ assignments'[q.id].status = "CANCELLED"
    BY <1>3, <1>4, UpdateStep DEF AssignmentStatuses
  <1> DEFINE o == [q EXCEPT !.at = "createSuccessor"]
  <1>6. reviewing' = [reviewing EXCEPT ![p] = o] /\ UNCHANGED <<active, institution>>
    BY <1>1 DEF CancelOld, GotoReviewing
  <1>7. /\ o \in ReviewingStates /\ o.at = "createSuccessor" /\ o.abstract = q.abstract
        /\ o.reviewer = q.reviewer /\ o.id = q.id
    BY AtReviewing DEF ReviewingSteps
  <1> HIDE DEF o
  <1>8. q.id \in 1 .. Len(assignments')
    BY <1>2, <1>5 DEF RowsGrow
  <1>9. Doing(o)'
    BY <1>2, <1>5, <1>7, <1>8 DEF Doing, LoopSteps, AutoSteps
  <1> QED
    BY <1>5, <1>6, <1>7, <1>9, OneReviewing

LEMMA CompleteStep ==
  ASSUME ReviewingInv, NEW p \in Requests, Complete(p)
  PROVE  ReviewingInv'
  <1>1. PICK q \in ReviewingStates : q = reviewing[p] /\ Doing(q)
    BY RequestDoing
  <1>2. q.id \in 1 .. Len(assignments) /\ assignments[q.id].reviewed
    BY <1>1 DEF Complete, Doing, RowSteps
  <1>3. q.id \in Ids
    BY <1>2 DEF Ids, ReviewingInv, Rows
  <1>4. Update(q.id, "COMPLETED")
    BY <1>1 DEF Complete
  <1>5. Rows' /\ RowsGrow
    BY <1>2, <1>3, <1>4, UpdateStep DEF AssignmentStatuses
  <1> QED
    BY <1>5, EndsReviewing DEF Complete

LEMMA InsertReviewStep ==
  ASSUME ReviewingInv, NEW p \in Requests, InsertReview(p)
  PROVE  ReviewingInv'
  <1>1. PICK q \in ReviewingStates : q = reviewing[p] /\ Doing(q)
    BY RequestDoing
  <1>2. q.at = "insertReview" /\ q.id \in 1 .. Len(assignments)
    BY <1>1 DEF InsertReview, Doing, RowSteps
  <1>3. q.id \in Ids
    BY <1>2 DEF Ids, ReviewingInv, Rows
  <1>4. UNCHANGED <<active, institution>>
    BY DEF InsertReview
  <1>5. CASE RespondReviewing(p) /\ UNCHANGED assignments
    <2>1. Rows' /\ RowsGrow
      BY <1>5, RowsStay DEF ReviewingInv
    <2> QED
      BY <1>4, <1>5, <2>1, EndsReviewing
  <1>6. CASE ~(RespondReviewing(p) /\ UNCHANGED assignments)
    <2> DEFINE o == [q EXCEPT !.at = "complete"]
               row(old) == [old EXCEPT !.reviewed = TRUE]
    <2>1. PICK old \in Assignments : old = assignments[q.id]
      BY <1>3, RowType DEF ReviewingInv
    <2>2. /\ assignments' = [assignments EXCEPT ![q.id] = row(old)]
          /\ reviewing' = [reviewing EXCEPT ![p] = o]
      BY <1>1, <1>6, <2>1 DEF InsertReview, GotoReviewing
    <2>3. /\ row(old) \in Assignments /\ row(old).status = old.status
          /\ row(old).from = old.from /\ row(old).reviewed
      BY DEF Assignments
    <2>4. /\ o \in ReviewingStates /\ o.at = "complete" /\ o.id = q.id
      BY AtReviewing DEF ReviewingSteps
    <2> HIDE DEF o, row
    <2>5. Rows' /\ RowsGrow
      BY <1>3, <2>1, <2>2, <2>3, RowChanges DEF ReviewingInv
    <2>6. assignments'[q.id] = row(old) /\ q.id \in 1 .. Len(assignments')
      BY <1>2, <1>3, <2>2, <2>5 DEF ReviewingInv, Rows, RowsGrow, Ids
    <2>7. Doing(o)'
      BY <2>3, <2>4, <2>6 DEF Doing, HandSteps, LoopSteps, AutoSteps
    <2> QED
      BY <1>4, <2>2, <2>4, <2>5, <2>7, OneReviewing
  <1> QED
    BY <1>5, <1>6

LEMMA RefuseStep ==
  ASSUME ReviewingInv, NEW i \in Ids, Decline(i) \/ DeclareConflict(i)
  PROVE  ReviewingInv'
  <1>1. UNCHANGED <<active, institution, reviewing>>
    BY DEF Decline, DeclareConflict
  <1>2. Rows' /\ RowsGrow
    <2>1. CASE Decline(i)
      BY <2>1, UpdateStep DEF Decline, AssignmentStatuses
    <2>2. CASE DeclareConflict(i)
      <3>1. PICK o \in Assignments : o = assignments[i]
        BY RowType DEF ReviewingInv
      <3> DEFINE row == [o EXCEPT !.status = "CANCELLED", !.conflict = TRUE]
      <3>2. assignments' = [assignments EXCEPT ![i] = row]
        BY <2>2, <3>1 DEF DeclareConflict
      <3>3. /\ row \in Assignments /\ row.status = "CANCELLED" /\ row.from = o.from
            /\ row.reviewed = o.reviewed
        BY DEF Assignments, AssignmentStatuses
      <3> HIDE DEF row
      <3> QED
        BY <3>1, <3>2, <3>3, RowChanges DEF ReviewingInv
    <2> QED
      BY <2>1, <2>2
  <1> QED
    BY <1>1, <1>2, ReviewingStays DEF ReviewingInv
-----------------------------------------------------------------------------
(* Automatic assignment: its request after each of its steps.              *)

Snapshot(q, pairs, load, fair) ==
    [q EXCEPT !.at = "nextAbstract", !.pairs = pairs, !.load = load, !.fair = fair]
Visit(q, a, todo, unchecked) ==
    [q EXCEPT !.at = "checkCandidate", !.todo = todo, !.abstract = a, !.unchecked = unchecked,
              !.candidates = {}]
Judge(q, unchecked, candidates, fair) ==
    [q EXCEPT !.unchecked = unchecked, !.candidates = candidates, !.fair = fair]
Give(q, pairs, load, chosen, step) ==
    [q EXCEPT !.pairs = pairs, !.load = load, !.chosen = chosen, !.at = step]

LEMMA SnapshotType ==
  ASSUME NEW q \in ReviewingStates, NEW pairs \in SUBSET (Abstracts \X Reviewers),
         NEW load \in [Reviewers -> Nat], NEW fair \in BOOLEAN
  PROVE  /\ Snapshot(q, pairs, load, fair) \in ReviewingStates
         /\ Snapshot(q, pairs, load, fair).at = "nextAbstract"
         /\ Snapshot(q, pairs, load, fair).todo = q.todo
         /\ Snapshot(q, pairs, load, fair).pool = q.pool
         /\ Snapshot(q, pairs, load, fair).pairs = pairs
         /\ Snapshot(q, pairs, load, fair).load = load
         /\ Snapshot(q, pairs, load, fair).fair = fair
  <1>1. Snapshot(q, pairs, load, fair) \in ReviewingStates
    BY DEF ReviewingStates, Snapshot, ReviewingSteps, AutoSteps
  <1>2. /\ Snapshot(q, pairs, load, fair).at = "nextAbstract"
        /\ Snapshot(q, pairs, load, fair).todo = q.todo
        /\ Snapshot(q, pairs, load, fair).pool = q.pool
        /\ Snapshot(q, pairs, load, fair).pairs = pairs
        /\ Snapshot(q, pairs, load, fair).load = load
        /\ Snapshot(q, pairs, load, fair).fair = fair
    BY DEF ReviewingStates, Snapshot
  <1> QED
    BY <1>1, <1>2

LEMMA VisitType ==
  ASSUME NEW q \in ReviewingStates, NEW a \in Abstracts, NEW todo \in SUBSET Abstracts,
         NEW unchecked \in SUBSET Reviewers
  PROVE  /\ Visit(q, a, todo, unchecked) \in ReviewingStates
         /\ Visit(q, a, todo, unchecked).at = "checkCandidate"
         /\ Visit(q, a, todo, unchecked).todo = todo
         /\ Visit(q, a, todo, unchecked).abstract = a
         /\ Visit(q, a, todo, unchecked).unchecked = unchecked
         /\ Visit(q, a, todo, unchecked).candidates = {}
         /\ Visit(q, a, todo, unchecked).pool = q.pool
         /\ Visit(q, a, todo, unchecked).pairs = q.pairs
         /\ Visit(q, a, todo, unchecked).load = q.load
         /\ Visit(q, a, todo, unchecked).fair = q.fair
  <1>1. Visit(q, a, todo, unchecked) \in ReviewingStates
    BY DEF ReviewingStates, Visit, ReviewingSteps, AutoSteps
  <1>2. /\ Visit(q, a, todo, unchecked).at = "checkCandidate"
        /\ Visit(q, a, todo, unchecked).todo = todo
        /\ Visit(q, a, todo, unchecked).abstract = a
        /\ Visit(q, a, todo, unchecked).unchecked = unchecked
        /\ Visit(q, a, todo, unchecked).candidates = {}
        /\ Visit(q, a, todo, unchecked).pool = q.pool
        /\ Visit(q, a, todo, unchecked).pairs = q.pairs
        /\ Visit(q, a, todo, unchecked).load = q.load
        /\ Visit(q, a, todo, unchecked).fair = q.fair
    BY DEF ReviewingStates, Visit
  <1> QED
    BY <1>1, <1>2

LEMMA JudgeType ==
  ASSUME NEW q \in ReviewingStates, NEW c \in SUBSET Reviewers, NEW fair \in BOOLEAN,
         NEW unchecked \in SUBSET Reviewers
  PROVE  /\ Judge(q, unchecked, c, fair) \in ReviewingStates
         /\ Judge(q, unchecked, c, fair).at = q.at
         /\ Judge(q, unchecked, c, fair).abstract = q.abstract
         /\ Judge(q, unchecked, c, fair).todo = q.todo
         /\ Judge(q, unchecked, c, fair).pool = q.pool
         /\ Judge(q, unchecked, c, fair).pairs = q.pairs
         /\ Judge(q, unchecked, c, fair).load = q.load
         /\ Judge(q, unchecked, c, fair).unchecked = unchecked
         /\ Judge(q, unchecked, c, fair).candidates = c
         /\ Judge(q, unchecked, c, fair).fair = fair
  <1>1. Judge(q, unchecked, c, fair) \in ReviewingStates
    BY DEF ReviewingStates, Judge
  <1>2. /\ Judge(q, unchecked, c, fair).at = q.at
        /\ Judge(q, unchecked, c, fair).abstract = q.abstract
        /\ Judge(q, unchecked, c, fair).todo = q.todo
        /\ Judge(q, unchecked, c, fair).pool = q.pool
        /\ Judge(q, unchecked, c, fair).pairs = q.pairs
        /\ Judge(q, unchecked, c, fair).load = q.load
        /\ Judge(q, unchecked, c, fair).unchecked = unchecked
        /\ Judge(q, unchecked, c, fair).candidates = c
        /\ Judge(q, unchecked, c, fair).fair = fair
    BY DEF ReviewingStates, Judge
  <1> QED
    BY <1>1, <1>2

LEMMA GiveType ==
  ASSUME NEW q \in ReviewingStates, NEW pairs \in SUBSET (Abstracts \X Reviewers),
         NEW load \in [Reviewers -> Nat], NEW chosen \in SUBSET Reviewers,
         NEW step \in ReviewingSteps
  PROVE  /\ Give(q, pairs, load, chosen, step) \in ReviewingStates
         /\ Give(q, pairs, load, chosen, step).at = step
         /\ Give(q, pairs, load, chosen, step).abstract = q.abstract
         /\ Give(q, pairs, load, chosen, step).todo = q.todo
         /\ Give(q, pairs, load, chosen, step).pool = q.pool
         /\ Give(q, pairs, load, chosen, step).pairs = pairs
         /\ Give(q, pairs, load, chosen, step).load = load
         /\ Give(q, pairs, load, chosen, step).chosen = chosen
         /\ Give(q, pairs, load, chosen, step).fair = q.fair
  <1>1. Give(q, pairs, load, chosen, step) \in ReviewingStates
    BY DEF ReviewingStates, Give
  <1>2. /\ Give(q, pairs, load, chosen, step).at = step
        /\ Give(q, pairs, load, chosen, step).abstract = q.abstract
        /\ Give(q, pairs, load, chosen, step).todo = q.todo
        /\ Give(q, pairs, load, chosen, step).pool = q.pool
        /\ Give(q, pairs, load, chosen, step).pairs = pairs
        /\ Give(q, pairs, load, chosen, step).load = load
        /\ Give(q, pairs, load, chosen, step).chosen = chosen
        /\ Give(q, pairs, load, chosen, step).fair = q.fair
    BY DEF ReviewingStates, Give
  <1> QED
    BY <1>1, <1>2

(* A run that goes on or ends, with the rows as they are.                  *)
LEMMA EndsReadingRows ==
  ASSUME ReviewingInv, NEW p \in Requests, UNCHANGED <<active, institution, assignments>>,
         RespondReviewing(p)
  PROVE  ReviewingInv'
  BY RowsStay, EndsReviewing DEF ReviewingInv

LEMMA ReadAbstractsStep ==
  ASSUME ReviewingInv, NEW p \in Requests, ReadAbstracts(p)
  PROVE  ReviewingInv'
  <1>1. PICK q \in ReviewingStates : q = reviewing[p] /\ Doing(q)
    BY RequestDoing
  <1> DEFINE o(t) == [q EXCEPT !.at = "readAssignments", !.todo = t]
  <1>2. PICK t \in SUBSET Abstracts :
            t = {a \in Abstracts : status[a] \notin {"NONE", "DRAFT", "WITHDRAWN"}}
    OBVIOUS
  <1>3. UNCHANGED <<active, institution, assignments>> /\ q.at = "readAbstracts"
    BY <1>1 DEF ReadAbstracts
  <1>4. CASE RespondReviewing(p)
    BY <1>3, <1>4, EndsReadingRows
  <1>5. CASE reviewing' = [reviewing EXCEPT ![p] = o(t)]
    <2>1. o(t) \in ReviewingStates
      BY DEF ReviewingStates, ReviewingSteps, AutoSteps
    <2>2. /\ o(t).at = "readAssignments" /\ o(t).pool = q.pool /\ o(t).load = q.load
          /\ o(t).fair = q.fair
      BY DEF ReviewingStates
    <2>3. q.fair => \A r, s \in q.pool : q.load[r] <= q.load[s] + 1
      BY <1>1, <1>3 DEF Doing, EvenSoFar, AutoSteps
    <2> HIDE DEF o
    <2>4. Doing(o(t))
      BY <2>2, <2>3 DEF Doing, EvenSoFar, HandSteps, RowSteps, LoopSteps
    <2> QED
      BY <1>3, <1>5, <2>1, <2>4, ReadingRowsStep
  <1> QED
    BY <1>1, <1>2, <1>4, <1>5 DEF ReadAbstracts

LEMMA ReadAssignmentsStep ==
  ASSUME ReviewingInv, NEW p \in Requests, ReadAssignments(p)
  PROVE  ReviewingInv'
  <1>1. PICK q \in ReviewingStates : q = reviewing[p] /\ Doing(q)
    BY RequestDoing
  <1>2. IsFiniteSet(Ids) /\ Counted \subseteq Ids
    <2>1. Ids = 1 .. Len(assignments) /\ Len(assignments) \in Nat
      BY DEF Ids, ReviewingInv, Rows
    <2> QED
      BY <2>1, FS_Interval DEF Counted
  <1>3. PICK pairs \in SUBSET (Abstracts \X Reviewers) :
            pairs = {<<assignments[i].abstract, assignments[i].reviewer>> : i \in Counted}
    <2> DEFINE Pair(i) == <<assignments[i].abstract, assignments[i].reviewer>>
    <2>1. ASSUME NEW i \in Counted
          PROVE  Pair(i) \in Abstracts \X Reviewers
      <3>1. assignments[i] \in Assignments
        BY <1>2, RowType DEF ReviewingInv
      <3> QED
        BY <3>1 DEF Assignments
    <2>2. {Pair(i) : i \in Counted} \in SUBSET (Abstracts \X Reviewers)
      <3> HIDE DEF Pair
      <3> QED
        BY <2>1
    <2> QED
      BY <2>2
  <1> DEFINE Of(r) == {i \in Counted : assignments[i].reviewer = r}
  <1>4. PICK load \in [Reviewers -> Nat] : load = [r \in Reviewers |-> Cardinality(Of(r))]
    <2>1. ASSUME NEW r \in Reviewers
          PROVE  Cardinality(Of(r)) \in Nat
      <3>1. Of(r) \subseteq Ids
        BY <1>2
      <3> HIDE DEF Of
      <3>2. IsFiniteSet(Of(r))
        BY <1>2, <3>1, FS_Subset
      <3> QED
        BY <3>2, FS_CardinalityType
    <2> HIDE DEF Of
    <2> QED
      BY <2>1
  <1>5. PICK fair \in BOOLEAN : fair = (Counted = {})
    OBVIOUS
  <1>6. /\ UNCHANGED <<active, institution, assignments>> /\ q.at = "readAssignments"
        /\ reviewing' = [reviewing EXCEPT ![p] = Snapshot(q, pairs, load, fair)]
    BY <1>1, <1>3, <1>4, <1>5 DEF ReadAssignments, Snapshot
  <1>7. fair => pairs = {} /\ load = [r \in Reviewers |-> 0]
    <2>1. CASE Counted = {}
      <3>1. pairs = {}
        BY <1>3, <2>1
      <3>2. \A r \in Reviewers : Of(r) = {}
        BY <2>1
      <3>3. Cardinality({}) = 0
        BY FS_EmptySet
      <3>4. \A r \in Reviewers : Cardinality(Of(r)) = 0
        BY <3>2, <3>3
      <3> HIDE DEF Of
      <3> QED
        BY <1>4, <3>1, <3>4
    <2> QED
      BY <1>5, <2>1
  <1> DEFINE o == Snapshot(q, pairs, load, fair)
  <1>8. /\ o \in ReviewingStates /\ o.at = "nextAbstract" /\ o.pool = q.pool
        /\ o.pairs = pairs /\ o.load = load /\ o.fair = fair
    BY SnapshotType
  <1>9. q.pool \subseteq Reviewers
    BY DEF ReviewingStates
  <1> HIDE DEF o
  <1>10. fair => EvenSoFar(o)
    BY <1>7, <1>8, <1>9 DEF EvenSoFar
  <1>11. Doing(o)
    BY <1>8, <1>10 DEF Doing, HandSteps, RowSteps, LoopSteps
  <1> QED
    BY <1>6, <1>8, <1>11, ReadingRowsStep DEF o

LEMMA NextAbstractStep ==
  ASSUME ReviewingInv, NEW p \in Requests, NextAbstract(p)
  PROVE  ReviewingInv'
  <1>1. PICK q \in ReviewingStates : q = reviewing[p] /\ Doing(q)
    BY RequestDoing
  <1>2. UNCHANGED <<active, institution, assignments>> /\ q.at = "nextAbstract"
    BY <1>1 DEF NextAbstract
  <1>3. CASE q.todo = {}
    BY <1>1, <1>2, <1>3, EndsReadingRows DEF NextAbstract
  <1>4. CASE q.todo # {}
    <2>1. q.todo \subseteq Abstracts /\ q.todo \subseteq Nat
      <3>1. q.todo \subseteq Abstracts
        BY DEF ReviewingStates
      <3> QED
        BY <3>1, EditorialAssumption
    <2>2. PICK a \in Abstracts : a = Least(q.todo) /\ a \in q.todo
      BY <1>4, <2>1, LeastOf
    <2>3. q.fair => EvenSoFar(q)
      BY <1>1, <1>2 DEF Doing, AutoSteps
    <2> DEFINE left == q.todo \ {a}
               skipped == [q EXCEPT !.todo = left]
               fresh == {r \in q.pool : <<a, r>> \notin q.pairs}
               visiting(l, f) == Visit(q, a, l, f)
    <2>4. \/ reviewing' = [reviewing EXCEPT ![p] = skipped]
          \/ reviewing' = [reviewing EXCEPT ![p] = visiting(left, fresh)]
      <3>1. \/ reviewing' = [reviewing EXCEPT ![p].todo = @ \ {a}]
            \/ reviewing' = [reviewing EXCEPT
                    ![p].at = "checkCandidate", ![p].todo = @ \ {a}, ![p].abstract = a,
                    ![p].unchecked = {r \in reviewing[p].pool : <<a, r>> \notin reviewing[p].pairs},
                    ![p].candidates = {}]
        BY <1>1, <1>4, <2>2, Zenon DEF NextAbstract
      <3>2. ASSUME reviewing' = [reviewing EXCEPT ![p].todo = @ \ {a}]
            PROVE  reviewing' = [reviewing EXCEPT ![p] = skipped]
        BY <1>1, <3>2
      <3>3. ASSUME reviewing' = [reviewing EXCEPT
                    ![p].at = "checkCandidate", ![p].todo = @ \ {a}, ![p].abstract = a,
                    ![p].unchecked = {r \in reviewing[p].pool : <<a, r>> \notin reviewing[p].pairs},
                    ![p].candidates = {}]
            PROVE  reviewing' = [reviewing EXCEPT ![p] = visiting(left, fresh)]
        BY <1>1, <3>3, Zenon DEF Visit
      <3> QED
        BY <3>1, <3>2, <3>3
    <2>5. CASE reviewing' = [reviewing EXCEPT ![p] = skipped]
      <3>1. skipped \in ReviewingStates
        BY DEF ReviewingStates
      <3>2. /\ skipped.at = q.at /\ skipped.todo = left /\ skipped.pool = q.pool
            /\ skipped.pairs = q.pairs /\ skipped.load = q.load /\ skipped.fair = q.fair
        BY DEF ReviewingStates
      <3> HIDE DEF skipped
      <3>3. q.fair => EvenSoFar(skipped)
        BY <1>2, <2>3, <3>2 DEF EvenSoFar
      <3>4. Doing(skipped)
        BY <1>2, <3>2, <3>3 DEF Doing, HandSteps, RowSteps, LoopSteps
      <3> QED
        BY <1>2, <2>5, <3>1, <3>4, ReadingRowsStep
    <2>6. CASE reviewing' = [reviewing EXCEPT ![p] = visiting(left, fresh)]
      <3>1. left \in SUBSET Abstracts /\ fresh \in SUBSET Reviewers
        BY DEF ReviewingStates
      <3>2. PICK l \in SUBSET Abstracts : l = left
        BY <3>1
      <3>3. PICK f \in SUBSET Reviewers : f = fresh
        BY <3>1
      <3> DEFINE o == visiting(l, f)
      <3>4. /\ o \in ReviewingStates /\ o.at = "checkCandidate" /\ o.todo = l /\ o.abstract = a
            /\ o.unchecked = f /\ o.candidates = {} /\ o.pool = q.pool /\ o.pairs = q.pairs
            /\ o.load = q.load /\ o.fair = q.fair
        BY VisitType
      <3>5. reviewing' = [reviewing EXCEPT ![p] = o]
        BY <2>6, <3>2, <3>3
      <3> HIDE DEF o
      <3>6. ASSUME q.fair
            PROVE  EvenSoFar(o)
        <4>1. \A r \in Reviewers : <<a, r>> \notin q.pairs
          BY <1>2, <2>2, <2>3, <3>6 DEF EvenSoFar
        <4>2. f = q.pool
          BY <3>3, <4>1 DEF ReviewingStates
        <4>3. l \subseteq q.todo
          BY <3>2
        <4> QED
          BY <1>2, <2>3, <3>4, <3>6, <4>1, <4>2, <4>3 DEF EvenSoFar
      <3>7. a \notin l
        BY <3>2
      <3>8. Doing(o)
        BY <3>4, <3>6, <3>7 DEF Doing, HandSteps, RowSteps, LoopSteps
      <3> QED
        BY <1>2, <3>4, <3>5, <3>8, ReadingRowsStep
    <2> QED
      BY <2>4, <2>5, <2>6
  <1> QED
    BY <1>3, <1>4
(* What is known of a scenario.                                            *)
ScenarioKnown == scenario \in Scenarios

LEMMA CheckCandidateStep ==
  ASSUME ReviewingInv, NEW p \in Requests, CheckCandidate(p)
  PROVE  ReviewingInv'
  <1>1. PICK q \in ReviewingStates : q = reviewing[p] /\ Doing(q)
    BY RequestDoing
  <1>2. UNCHANGED <<active, institution, assignments>> /\ q.at = "checkCandidate"
    BY <1>1 DEF CheckCandidate
  <1>3. /\ q.fair => EvenSoFar(q)
        /\ q.abstract \in Abstracts /\ q.abstract \notin q.todo
    BY <1>1, <1>2 DEF Doing, AutoSteps, LoopSteps
  <1>4. q.unchecked \subseteq Reviewers /\ q.candidates \subseteq Reviewers /\ q.fair \in BOOLEAN
    BY DEF ReviewingStates
  <1>5. CASE q.unchecked = {}
    <2> DEFINE o == [q EXCEPT !.at = "selectReviewers"]
    <2>1. reviewing' = [reviewing EXCEPT ![p] = o]
      BY <1>1, <1>5 DEF CheckCandidate, GotoReviewing
    <2>2. "selectReviewers" \in ReviewingSteps
      BY DEF ReviewingSteps, AutoSteps
    <2>3. /\ o \in ReviewingStates /\ o.at = "selectReviewers" /\ o.abstract = q.abstract
          /\ o.todo = q.todo /\ o.pool = q.pool /\ o.pairs = q.pairs /\ o.load = q.load
          /\ o.unchecked = q.unchecked /\ o.candidates = q.candidates /\ o.fair = q.fair
      BY <2>2, AtReviewing
    <2> HIDE DEF o
    <2>4. q.fair => EvenSoFar(o)
      BY <1>2, <1>3, <1>5, <2>3 DEF EvenSoFar
    <2>5. Doing(o)
      BY <1>3, <2>3, <2>4 DEF Doing, HandSteps, RowSteps
    <2> QED
      BY <1>2, <2>1, <2>3, <2>5, ReadingRowsStep
  <1>6. CASE q.unchecked # {}
    <2>1. PICK r \in q.unchecked : r = Least(q.unchecked)
      BY <1>4, <1>6, EditorialAssumption, LeastOf
    <2>2. PICK conflict \in BOOLEAN : conflict = HasConflict(r, q.abstract)
      BY DEF HasConflict
    <2>3. PICK c \in SUBSET Reviewers :
              c = IF conflict THEN q.candidates ELSE q.candidates \cup {r}
      BY <1>4, <2>1
    <2>4. PICK fair \in BOOLEAN : fair = (q.fair /\ ~conflict)
      BY <1>4
    <2>5. PICK left \in SUBSET Reviewers : left = q.unchecked \ {r}
      BY <1>4
    <2> DEFINE o == Judge(q, left, c, fair)
    <2>6. reviewing' = [reviewing EXCEPT ![p].unchecked = @ \ {r},
                            ![p].candidates = IF conflict THEN @ ELSE @ \cup {r},
                            ![p].fair = @ /\ ~conflict]
      BY <1>1, <1>6, <2>1, <2>2, Zenon DEF CheckCandidate
    <2>7. reviewing' = [reviewing EXCEPT ![p] =
                            Judge(q, q.unchecked \ {r},
                                  IF conflict THEN q.candidates ELSE q.candidates \cup {r},
                                  q.fair /\ ~conflict)]
      BY <1>1, <2>6, Zenon DEF Judge
    <2>8. reviewing' = [reviewing EXCEPT ![p] = o]
      BY <2>3, <2>4, <2>5, <2>7, Zenon
    <2>9. /\ o \in ReviewingStates /\ o.at = q.at /\ o.abstract = q.abstract /\ o.todo = q.todo
          /\ o.pool = q.pool /\ o.pairs = q.pairs /\ o.load = q.load /\ o.unchecked = left
          /\ o.candidates = c /\ o.fair = fair
      BY JudgeType
    <2> HIDE DEF o
    <2>10. ASSUME fair
           PROVE  EvenSoFar(o)
      <3>1. q.fair /\ ~conflict
        BY <2>4, <2>10
      <3>2. left \cup c = q.unchecked \cup q.candidates
        BY <2>1, <2>3, <2>5, <3>1
      <3> QED
        BY <1>2, <1>3, <2>9, <3>1, <3>2 DEF EvenSoFar
    <2>11. Doing(o)
      BY <1>2, <1>3, <2>9, <2>10 DEF Doing, HandSteps, RowSteps
    <2> QED
      BY <1>2, <2>8, <2>9, <2>11, ReadingRowsStep
  <1> QED
    BY <1>5, <1>6

(* candidates.sort: whoever has less to do than a chosen reviewer is       *)
(* chosen too.                                                             *)
LEMMA LightestAreChosen ==
  ASSUME NEW load \in [Reviewers -> Nat], NEW C \in SUBSET Reviewers, NEW slots \in Int,
         NEW c \in C, NEW r \in C, load[r] < load[c],
         Cardinality({s \in C : Before(load, s, c)}) < slots
  PROVE  Cardinality({s \in C : Before(load, s, r)}) < slots
  <1> DEFINE Ahead(x) == {s \in C : Before(load, s, x)}
  <1>1. IsFiniteSet(C)
    BY EditorialAssumption, FS_Subset
  <1>2. Ahead(r) \subseteq Ahead(c)
    <2>1. \A s \in C : load[s] \in Nat /\ load[r] \in Nat /\ load[c] \in Nat
      OBVIOUS
    <2> QED
      BY <2>1 DEF Before
  <1>3. Ahead(c) \subseteq C
    OBVIOUS
  <1> HIDE DEF Ahead
  <1>4. IsFiniteSet(Ahead(c))
    BY <1>1, <1>3, FS_Subset
  <1>5. /\ Cardinality(Ahead(r)) <= Cardinality(Ahead(c))
        /\ Cardinality(Ahead(c)) \in Nat /\ Cardinality(Ahead(r)) \in Nat
    BY <1>2, <1>4, FS_Subset, FS_CardinalityType
  <1> QED
    BY <1>5 DEF Ahead

LEMMA SelectReviewersStep ==
  ASSUME ReviewingInv, ScenarioKnown, NEW p \in Requests, SelectReviewers(p)
  PROVE  ReviewingInv'
  <1>1. PICK q \in ReviewingStates : q = reviewing[p] /\ Doing(q)
    BY RequestDoing
  <1>2. UNCHANGED <<active, institution, assignments>> /\ q.at = "selectReviewers"
    BY <1>1 DEF SelectReviewers
  <1>3. /\ q.fair => EvenSoFar(q)
        /\ q.abstract \in Abstracts /\ q.abstract \notin q.todo
    BY <1>1, <1>2 DEF Doing, AutoSteps, LoopSteps
  <1>4. /\ q.candidates \in SUBSET Reviewers /\ q.load \in [Reviewers -> Nat]
        /\ q.pool \in SUBSET Reviewers
    BY DEF ReviewingStates
  <1>5. PICK slots \in Int : slots = scenario.perAbstract - Cardinality(AssignedTo(p, q.abstract))
    <2>1. IsFiniteSet(AssignedTo(p, q.abstract))
      BY EditorialAssumption, FS_Subset DEF AssignedTo
    <2>2. scenario.perAbstract \in Nat
      BY EditorialAssumption DEF ScenarioKnown
    <2> QED
      BY <2>1, <2>2, FS_CardinalityType
  <1> DEFINE Ahead(r) == {s \in q.candidates : Before(q.load, s, r)}
  <1>6. PICK chosen \in SUBSET Reviewers :
            chosen = {r \in q.candidates : Cardinality(Ahead(r)) < slots}
    BY <1>4
  <1>7. PICK step \in {"nextAbstract", "createAuto"} :
            step = IF chosen = {} THEN "nextAbstract" ELSE "createAuto"
    OBVIOUS
  <1> DEFINE o == [q EXCEPT !.chosen = chosen, !.at = step]
  <1>8. reviewing' = [reviewing EXCEPT ![p] = o]
    BY <1>1, <1>5, <1>6, <1>7 DEF SelectReviewers
  <1>9. o \in ReviewingStates
    <2>1. step \in ReviewingSteps
      BY DEF ReviewingSteps, AutoSteps
    <2> QED
      BY <2>1 DEF ReviewingStates
  <1>10. /\ o.at = step /\ o.abstract = q.abstract /\ o.todo = q.todo /\ o.pool = q.pool
         /\ o.pairs = q.pairs /\ o.load = q.load /\ o.chosen = chosen /\ o.fair = q.fair
    BY DEF ReviewingStates
  <1>11. ASSUME q.fair, step = "createAuto"
         PROVE  /\ chosen \subseteq q.pool
                /\ \A c \in chosen, r \in q.pool \ chosen : q.load[c] <= q.load[r]
    <2>1. q.candidates = q.pool
      BY <1>2, <1>3, <1>11 DEF EvenSoFar
    <2>2. ASSUME NEW c \in chosen, NEW r \in q.pool \ chosen, ~(q.load[c] <= q.load[r])
          PROVE  FALSE
      <3>1. q.load[r] < q.load[c] /\ r \in q.candidates /\ c \in q.candidates
        BY <1>4, <1>6, <2>1, <2>2
      <3>2. Cardinality(Ahead(c)) < slots
        BY <1>6
      <3>3. Cardinality(Ahead(r)) < slots
        BY <1>4, <3>1, <3>2, LightestAreChosen
      <3> QED
        BY <1>6, <3>1, <3>3
    <2> QED
      BY <1>6, <2>1, <2>2
  <1> HIDE DEF o
  <1>12. q.fair => EvenSoFar(o)
    BY <1>2, <1>3, <1>10, <1>11 DEF EvenSoFar
  <1>13. Doing(o)
    BY <1>3, <1>7, <1>10, <1>12 DEF Doing, HandSteps, RowSteps
  <1> QED
    BY <1>2, <1>8, <1>9, <1>13, ReadingRowsStep

(* Of a set of reviewers one comes before the others.                      *)
LEMMA FirstReviewer ==
  ASSUME NEW load \in [Reviewers -> Nat], NEW C \in SUBSET Reviewers, C # {}
  PROVE  \E c \in C : \A r \in C \ {c} : Before(load, c, r)
  <1> DEFINE loads == {load[r] : r \in C}
  <1>1. loads \subseteq Nat /\ loads # {}
    OBVIOUS
  <1>2. PICK m \in Nat : m \in loads /\ \A k \in loads : m <= k
    <2> HIDE DEF loads
    <2> QED
      BY <1>1, LeastOf
  <1> DEFINE light == {r \in C : load[r] = m}
  <1>3. light \subseteq Nat /\ light # {}
    BY <1>2, EditorialAssumption
  <1>4. PICK c \in light : \A r \in light : c <= r
    <2> HIDE DEF light
    <2> QED
      BY <1>3, LeastOf
  <1>5. ASSUME NEW r \in C \ {c}
        PROVE  Before(load, c, r)
    <2>1. r \in Nat /\ c \in Nat /\ load[r] \in Nat /\ load[c] = m /\ m <= load[r]
      BY <1>2, EditorialAssumption
    <2>2. CASE load[r] = m
      <3>1. c <= r /\ c # r
        BY <1>4, <2>2
      <3> QED
        BY <2>1, <2>2, <3>1 DEF Before
    <2>3. CASE load[r] # m
      BY <2>1, <2>3 DEF Before
    <2> QED
      BY <2>2, <2>3
  <1> QED
    BY <1>5

(* Loads of a pool that differ by one at most, and lightest where chosen.  *)
EvenLoad(load, pool, chosen) ==
    /\ \A r, s \in pool : load[r] <= load[s] + 1
    /\ \A d \in chosen, r \in pool \ chosen : load[d] <= load[r]

ComesFirst(load, chosen, c) == \A r \in chosen \ {c} : Before(load, c, r)

(* The next reviewer of the abstract gets one more: the workload stays     *)
(* even, for none of the active reviewers has less to do.                  *)
LEMMA StillEven ==
  ASSUME NEW load \in [Reviewers -> Nat], NEW pool \in SUBSET Reviewers,
         NEW chosen \in SUBSET pool, NEW c \in chosen,
         EvenLoad(load, pool, chosen), ComesFirst(load, chosen, c)
  PROVE  EvenLoad([load EXCEPT ![c] = load[c] + 1], pool, chosen \ {c})
  <1> DEFINE more == [load EXCEPT ![c] = load[c] + 1]
  <1>1. c \in Reviewers /\ c \in pool
    OBVIOUS
  <1>2. /\ more \in [Reviewers -> Nat] /\ more[c] = load[c] + 1
        /\ \A r \in Reviewers \ {c} : more[r] = load[r]
    BY <1>1
  <1> HIDE DEF more
  <1>3. \A r \in Reviewers : load[r] \in Nat
    OBVIOUS
  <1>4. ASSUME NEW r \in pool
        PROVE  load[c] <= load[r]
    <2>1. CASE r = c
      BY <1>1, <1>3, <2>1
    <2>2. CASE r \in chosen \ {c}
      BY <1>1, <1>3, <2>2 DEF Before, ComesFirst
    <2>3. CASE r \notin chosen
      BY <2>3 DEF EvenLoad
    <2> QED
      BY <2>1, <2>2, <2>3
  <1>5. ASSUME NEW r \in pool, NEW s \in pool
        PROVE  more[r] <= more[s] + 1
    <2>1. load[r] \in Nat /\ load[s] \in Nat /\ load[c] \in Nat
      BY <1>1, <1>3
    <2>2. load[r] <= load[s] + 1 /\ load[c] <= load[s]
      BY <1>4 DEF EvenLoad
    <2>3. more[r] = load[r] \/ (r = c /\ more[r] = load[c] + 1)
      BY <1>2
    <2>4. more[s] = load[s] \/ (s = c /\ more[s] = load[s] + 1)
      BY <1>2
    <2> QED
      BY <2>1, <2>2, <2>3, <2>4
  <1>6. ASSUME NEW d \in chosen \ {c}, NEW r \in pool \ (chosen \ {c})
        PROVE  more[d] <= more[r]
    <2>1. load[r] \in Nat /\ load[d] \in Nat /\ load[c] \in Nat /\ more[d] = load[d]
      BY <1>1, <1>2, <1>3
    <2>2. CASE r = c
      <3>1. load[d] <= load[c] + 1
        BY <1>1 DEF EvenLoad
      <3> QED
        BY <1>2, <2>1, <2>2, <3>1
    <2>3. CASE r # c
      <3>1. r \in pool \ chosen
        BY <2>3
      <3>2. load[d] <= load[r] /\ more[r] = load[r]
        BY <1>2, <2>3, <3>1 DEF EvenLoad
      <3> QED
        BY <2>1, <3>2
    <2> QED
      BY <2>2, <2>3
  <1> QED
    BY <1>5, <1>6 DEF EvenLoad, more
LEMMA CreateAutoStep ==
  ASSUME ReviewingInv, NEW p \in Requests, CreateAuto(p)
  PROVE  ReviewingInv'
  <1>1. PICK q \in ReviewingStates : q = reviewing[p] /\ Doing(q)
    BY RequestDoing
  <1>2. UNCHANGED <<active, institution>> /\ q.at = "createAuto"
    BY <1>1 DEF CreateAuto
  <1>3. /\ q.fair => EvenSoFar(q)
        /\ q.abstract \in Abstracts /\ q.abstract \notin q.todo /\ q.chosen # {}
    BY <1>1, <1>2 DEF Doing, AutoSteps, LoopSteps
  <1>4. /\ q.chosen \in SUBSET Reviewers /\ q.load \in [Reviewers -> Nat]
        /\ q.pool \in SUBSET Reviewers /\ q.pairs \in SUBSET (Abstracts \X Reviewers)
        /\ q.todo \in SUBSET Abstracts
    BY DEF ReviewingStates
  <1> DEFINE first == CHOOSE c \in q.chosen : \A s \in q.chosen \ {c} : Before(q.load, c, s)
  <1>5. PICK r \in q.chosen : r = first /\ \A s \in q.chosen \ {r} : Before(q.load, r, s)
    BY <1>3, <1>4, FirstReviewer
  <1> HIDE DEF first
  <1>6. r \in Reviewers
    BY <1>4
  <1>a. PICK a \in Abstracts : a = q.abstract
    BY <1>3
  <1>b. PICK busy \in [Reviewers -> Nat] : busy = q.load
    BY <1>4
  <1>c. 0 \in Nat
    OBVIOUS
  <1> DEFINE row == NewAssignment(a, r, 0, TRUE)
  <1>7. row \in Assignments /\ row.status = "PENDING" /\ row.from = 0
    BY <1>6, <1>c, NewAssignmentType
  <1>8. assignments' = Append(assignments, row)
    BY <1>1, <1>5, <1>a DEF CreateAuto, Insert, first
  <1>9. Len(assignments) \in Nat
    BY DEF ReviewingInv, Rows
  <1>10. Rows' /\ RowsGrow
    <2> HIDE DEF row
    <2> QED
      BY <1>7, <1>8, <1>9, RowIsAdded DEF ReviewingInv
  <1>11. PICK pairs \in SUBSET (Abstracts \X Reviewers) : pairs = q.pairs \cup {<<q.abstract, r>>}
    <2>1. <<q.abstract, r>> \in Abstracts \X Reviewers
      BY <1>3, <1>6
    <2>2. q.pairs \cup {<<q.abstract, r>>} \in SUBSET (Abstracts \X Reviewers)
      BY <1>4, <2>1
    <2> QED
      BY <2>2
  <1>12. PICK load \in [Reviewers -> Nat] : load = [busy EXCEPT ![r] = busy[r] + 1]
    <2>1. busy[r] + 1 \in Nat
      BY <1>6
    <2>2. [busy EXCEPT ![r] = busy[r] + 1] \in [Reviewers -> Nat]
      BY <1>6, <2>1
    <2> QED
      BY <2>2
  <1>13. PICK chosen \in SUBSET Reviewers : chosen = q.chosen \ {r}
    BY <1>4
  <1>14. PICK step \in {"nextAbstract", "createAuto"} :
             step = IF q.chosen = {r} THEN "nextAbstract" ELSE "createAuto"
    OBVIOUS
  <1> DEFINE o == Give(q, pairs, load, chosen, step)
  <1>15. reviewing' = [reviewing EXCEPT ![p] = o]
    <2>1. reviewing' = [reviewing EXCEPT
              ![p].pairs = @ \cup {<<q.abstract, r>>},
              ![p].load[r] = @ + 1,
              ![p].chosen = @ \ {r},
              ![p].at = IF q.chosen = {r} THEN "nextAbstract" ELSE "createAuto"]
      BY <1>1, <1>5, Zenon DEF CreateAuto, first
    <2>2. reviewing' = [reviewing EXCEPT
              ![p].pairs = @ \cup {<<q.abstract, r>>},
              ![p].load[r] = @ + 1,
              ![p].chosen = @ \ {r},
              ![p].at = step]
      BY <2>1, <1>14, Zenon
    <2>3. reviewing' = [reviewing EXCEPT ![p] =
              Give(q, q.pairs \cup {<<q.abstract, r>>}, [q.load EXCEPT ![r] = @ + 1],
                   q.chosen \ {r}, step)]
      BY <1>1, <2>2, Zenon DEF Give
    <2> QED
      BY <1>11, <1>12, <1>13, <1>b, <2>3, Zenon
  <1>16. /\ o \in ReviewingStates /\ o.at = step /\ o.abstract = q.abstract /\ o.todo = q.todo
         /\ o.pool = q.pool /\ o.pairs = pairs /\ o.load = load /\ o.chosen = chosen
         /\ o.fair = q.fair
    <2>1. step \in ReviewingSteps
      BY DEF ReviewingSteps, AutoSteps
    <2> QED
      BY <2>1, GiveType
  <1> HIDE DEF o
  <1>17. ASSUME q.fair
         PROVE  EvenSoFar(o)
    <2>1. /\ q.chosen \subseteq q.pool
          /\ \A s, t \in q.pool : q.load[s] <= q.load[t] + 1
          /\ \A d \in q.chosen, s \in q.pool \ q.chosen : q.load[d] <= q.load[s]
          /\ \A x \in q.todo, s \in Reviewers : <<x, s>> \notin q.pairs
      BY <1>2, <1>3, <1>17 DEF EvenSoFar
    <2>2. /\ \A s, t \in q.pool : load[s] <= load[t] + 1
          /\ \A d \in q.chosen \ {r}, s \in q.pool \ (q.chosen \ {r}) : load[d] <= load[s]
      <3>1. PICK pool \in SUBSET Reviewers : pool = q.pool
        BY <1>4
      <3>2. PICK some \in SUBSET pool : some = q.chosen
        BY <2>1, <3>1
      <3>3. r \in some /\ EvenLoad(busy, pool, some) /\ ComesFirst(busy, some, r)
        BY <1>5, <1>b, <2>1, <3>1, <3>2 DEF EvenLoad, ComesFirst
      <3>4. EvenLoad(load, pool, some \ {r})
        BY <1>12, <3>3, StillEven
      <3> QED
        BY <3>1, <3>2, <3>4 DEF EvenLoad
    <2>3. \A x \in q.todo, s \in Reviewers : <<x, s>> \notin pairs
      BY <1>3, <1>11, <2>1
    <2>4. chosen \subseteq q.pool
      BY <1>13, <2>1
    <2> QED
      BY <1>13, <1>16, <2>2, <2>3, <2>4 DEF EvenSoFar
  <1>18. step = "createAuto" => chosen # {}
    BY <1>13, <1>14
  <1>19. Doing(o)
    BY <1>3, <1>16, <1>17, <1>18 DEF Doing, HandSteps, RowSteps
  <1>20. Doing(o)'
    BY <1>10, <1>16, <1>19, DoingStays
  <1> QED
    BY <1>2, <1>10, <1>15, <1>16, <1>20, OneReviewing

-----------------------------------------------------------------------------
(* Reviewing as a whole.                                                   *)

LEMMA ReviewingNextStep ==
  ASSUME ReviewingInv, ScenarioKnown, ReviewingNext
  PROVE  ReviewingInv'
  <1>1. ASSUME NEW p \in Requests, BeginReview(p)
        PROVE  ReviewingInv'
    BY <1>1, AssignStep, AutoAssignStep, ReassignStep, SubmitReviewStep DEF BeginReview
  <1>2. ASSUME NEW p \in Requests, ContinueReviewing(p)
        PROVE  ReviewingInv'
    BY <1>2, CheckStep, CreateAssignmentStep, ReadAbstractsStep, ReadAssignmentsStep,
       NextAbstractStep, CheckCandidateStep, SelectReviewersStep, CreateAutoStep,
       CancelOldStep, CreateSuccessorStep, InsertReviewStep, CompleteStep
    DEF ContinueReviewing
  <1>3. ASSUME NEW p \in Requests, AbortReviewing(p)
        PROVE  ReviewingInv'
    BY <1>3, EndsReadingRows DEF AbortReviewing
  <1>4. ASSUME NEW r \in Reviewers, AddReviewer(r)
        PROVE  ReviewingInv'
    <2>1. /\ UNCHANGED <<institution, assignments, reviewing>>
          /\ active' \subseteq Reviewers
      BY <1>4 DEF AddReviewer, ReviewingInv
    <2> QED
      BY <2>1, RowsStay, ReviewingStays DEF ReviewingInv
  <1>5. ASSUME NEW r \in Reviewers, NEW i \in Institutions, UpdateProfile(r, i)
        PROVE  ReviewingInv'
    <2>1. /\ UNCHANGED <<active, assignments, reviewing>>
          /\ institution' \in [Reviewers -> Institutions \cup {NoInstitution}]
      BY <1>5 DEF UpdateProfile, ReviewingInv
    <2> QED
      BY <2>1, RowsStay, ReviewingStays DEF ReviewingInv
  <1> QED
    BY <1>1, <1>2, <1>3, <1>4, <1>5, RefuseStep DEF ReviewingNext

LEMMA ReviewingInvStays ==
  ASSUME ReviewingInv, UNCHANGED reviewVars
  PROVE  ReviewingInv'
  <1>1. UNCHANGED <<active, institution, assignments, reviewing>>
    BY DEF reviewVars
  <1> QED
    BY <1>1, RowsStay, ReviewingStays DEF ReviewingInv

LEMMA ScenarioStays ==
  ASSUME ScenarioKnown, [Next]_vars
  PROVE  ScenarioKnown'
  BY SubmissionsElsewhere, ReviewingElsewhere, ProgrammeElsewhere DEF Next, vars, ScenarioKnown

LEMMA ReviewingStep ==
  ASSUME ReviewingInv, ScenarioKnown, [Next]_vars
  PROVE  ReviewingInv'
  <1>1. ReviewingNext \/ UNCHANGED reviewVars
    BY SubmissionsElsewhere, ProgrammeElsewhere DEF Next, vars
  <1> QED
    BY <1>1, ReviewingNextStep, ReviewingInvStays

LEMMA ReviewingBegin ==
  ASSUME Init
  PROVE  ReviewingInv /\ ScenarioKnown
  <1>1. ScenarioKnown /\ ReviewingInit
    BY DEF Init, ScenarioKnown
  <1>2. scenario.reviewers \subseteq Reviewers
    BY <1>1, EditorialAssumption DEF ScenarioKnown
  <1>3. Rows
    <2>1. assignments = <<>>
      BY <1>1 DEF ReviewingInit
    <2> QED
      BY <2>1 DEF Rows, Ids, CompletedHasReview, ReassignedIsNotOpen
  <1>4. \A p \in Requests : reviewing[p] \in ReviewingStates /\ Doing(reviewing[p])
    BY <1>1, IdleReviewingDoing DEF ReviewingInit
  <1> QED
    BY <1>1, <1>2, <1>3, <1>4 DEF ReviewingInit, ReviewingInv

LEMMA ReviewingInvariance == Spec => []ReviewingInv
  <1>1. Init => ReviewingInv /\ ScenarioKnown
    BY ReviewingBegin
  <1>2. ReviewingInv /\ ScenarioKnown /\ [Next]_vars => (ReviewingInv /\ ScenarioKnown)'
    BY ReviewingStep, ScenarioStays
  <1> QED
    BY <1>1, <1>2, PTL DEF Spec

(* What counts as completed has a review, although ReviewsService writes   *)
(* the review and the status of its assignment by two statements.          *)
THEOREM WhatIsCompletedHasReview == Spec => []CompletedHasReview
  <1>1. ReviewingInv => CompletedHasReview
    BY DEF ReviewingInv, Rows
  <1> QED
    BY <1>1, ReviewingInvariance, PTL

(* What ReviewAssignmentsService.reassign has given to somebody else is    *)
(* not open for the first reviewer, whatever else is done to it.           *)
THEOREM WhatIsReassignedIsNotOpen == Spec => []ReassignedIsNotOpen
  <1>1. ReviewingInv => ReassignedIsNotOpen
    BY DEF ReviewingInv, Rows
  <1> QED
    BY <1>1, ReviewingInvariance, PTL

(* autoAssign distributes evenly among any number of reviewers, as long as *)
(* no conflict of interest leaves one of them out.                         *)
THEOREM AutoAssignmentIsAlwaysEven == Spec => []AutoAssignmentIsEven
  <1>1. ASSUME ReviewingInv, NEW p \in Requests,
               reviewing[p].at \in AutoSteps, reviewing[p].fair
        PROVE  \A q, r \in reviewing[p].pool : reviewing[p].load[q] <= reviewing[p].load[r] + 1
    BY <1>1 DEF ReviewingInv, Doing, EvenSoFar
  <1>2. ReviewingInv => AutoAssignmentIsEven
    BY <1>1 DEF AutoAssignmentIsEven
  <1> QED
    BY <1>2, ReviewingInvariance, PTL
-----------------------------------------------------------------------------
(* Open reviewers: those of an abstract whom automatic assignment has given*)
(* it, and the places for which the runs under way may still choose one,   *)
(* are together no more than all the requests have places.                 *)

Deciding == LoopSteps \cup {"nextAbstract"}

(* The reviewers that a run knows an abstract to have, and the places for  *)
(* which it may still choose one.                                          *)
Has(q, a) == {r \in Reviewers : <<a, r>> \in q.pairs}
Visits(q, a) ==
    q.at \in Deciding /\ (a \in q.todo \/ (q.at \in LoopSteps /\ a = q.abstract))
Room(q, a) ==
    {k \in 1 .. scenario.perAbstract : Visits(q, a) /\ Cardinality(Has(q, a)) < k}

Places == Requests \X (1 .. scenario.perAbstract)
Rooms(a) == {x \in Places : x[2] \in Room(reviewing[x[1]], a)}

RoomLeft(a) ==
    Cardinality(AutoReviewers(a)) + Cardinality(Rooms(a))
        <= scenario.perAbstract * Cardinality(Requests)

(* A run chooses reviewers that the abstract does not have, and no more    *)
(* than there are places.                                                  *)
Picking(q) ==
    /\ q.at = "checkCandidate" =>
           (q.unchecked \cup q.candidates) \cap Has(q, q.abstract) = {}
    /\ q.at = "selectReviewers" => q.candidates \cap Has(q, q.abstract) = {}
    /\ q.at = "createAuto" =>
           /\ q.chosen \cap Has(q, q.abstract) = {}
           /\ Cardinality(q.chosen) + Cardinality(Has(q, q.abstract)) <= scenario.perAbstract

RoomInv ==
    /\ \A a \in Abstracts : RoomLeft(a)
    /\ \A p \in Requests : Picking(reviewing[p])

(* Nothing that automatic assignment has given becomes open.               *)
NothingGiven ==
    \A i \in Ids' : assignments'[i].auto /\ assignments'[i].status = "PENDING" =>
        /\ i \in Ids /\ assignments[i].auto /\ assignments[i].status = "PENDING"
        /\ assignments'[i].abstract = assignments[i].abstract
        /\ assignments'[i].reviewer = assignments[i].reviewer

LEMMA PlacesFinite ==
  ASSUME ScenarioKnown
  PROVE  /\ scenario.perAbstract \in Nat
         /\ IsFiniteSet(Places)
         /\ Cardinality(Places) = scenario.perAbstract * Cardinality(Requests)
         /\ Cardinality(Places) \in Nat
  <1>1. PICK n \in Nat : n = scenario.perAbstract
    BY EditorialAssumption DEF ScenarioKnown
  <1>2. IsFiniteSet(1 .. n) /\ Cardinality(1 .. n) = n
    BY FS_Interval
  <1>3. IsFiniteSet(Requests) /\ Cardinality(Requests) \in Nat
    BY EditorialAssumption, FS_CardinalityType
  <1>4. /\ IsFiniteSet(Requests \X (1 .. n))
        /\ Cardinality(Requests \X (1 .. n)) = Cardinality(Requests) * Cardinality(1 .. n)
    BY <1>2, <1>3, FS_Product
  <1>5. Cardinality(Requests \X (1 .. n)) \in Nat
    BY <1>4, FS_CardinalityType
  <1>6. Cardinality(Requests) * n = n * Cardinality(Requests)
    BY <1>3
  <1> QED
    BY <1>1, <1>2, <1>4, <1>5, <1>6 DEF Places

LEMMA RoomsFinite ==
  ASSUME ScenarioKnown, ReviewingInv, NEW a
  PROVE  /\ IsFiniteSet(AutoReviewers(a)) /\ Cardinality(AutoReviewers(a)) \in Nat
         /\ AutoReviewers(a) \subseteq Reviewers
         /\ IsFiniteSet(Rooms(a)) /\ Cardinality(Rooms(a)) \in Nat
  <1>1. AutoReviewers(a) \subseteq Reviewers
    <2>1. ASSUME NEW i \in Ids
          PROVE  assignments[i].reviewer \in Reviewers
      BY RowType DEF ReviewingInv, Assignments
    <2> QED
      BY <2>1 DEF AutoReviewers
  <1>2. IsFiniteSet(AutoReviewers(a))
    BY <1>1, EditorialAssumption, FS_Subset
  <1>3. Rooms(a) \subseteq Places
    BY DEF Rooms
  <1>4. IsFiniteSet(Rooms(a))
    BY <1>3, PlacesFinite, FS_Subset
  <1> QED
    BY <1>1, <1>2, <1>4, FS_CardinalityType

LEMMA RoomShrinks ==
  ASSUME ScenarioKnown, ReviewingInv, UNCHANGED scenario, NEW a, RoomLeft(a),
         AutoReviewers(a)' \subseteq AutoReviewers(a), Rooms(a)' \subseteq Rooms(a)
  PROVE  RoomLeft(a)'
  <1>1. /\ IsFiniteSet(AutoReviewers(a)) /\ Cardinality(AutoReviewers(a)) \in Nat
        /\ IsFiniteSet(Rooms(a)) /\ Cardinality(Rooms(a)) \in Nat
    BY RoomsFinite
  <1>2. /\ IsFiniteSet(AutoReviewers(a)') /\ IsFiniteSet(Rooms(a)')
        /\ Cardinality(AutoReviewers(a)') <= Cardinality(AutoReviewers(a))
        /\ Cardinality(Rooms(a)') <= Cardinality(Rooms(a))
    BY <1>1, FS_Subset
  <1>3. Cardinality(AutoReviewers(a)') \in Nat /\ Cardinality(Rooms(a)') \in Nat
    BY <1>2, FS_CardinalityType
  <1>4. PICK total \in Nat : total = scenario.perAbstract * Cardinality(Requests)
    BY PlacesFinite
  <1>5. Cardinality(AutoReviewers(a)') + Cardinality(Rooms(a)') <= total
    BY <1>1, <1>2, <1>3, <1>4 DEF RoomLeft
  <1> QED
    BY <1>4, <1>5 DEF RoomLeft

LEMMA NothingIsAdded ==
  ASSUME NothingGiven, NEW a
  PROVE  AutoReviewers(a)' \subseteq AutoReviewers(a)
  <1> DEFINE open == {j \in Ids : /\ assignments[j].abstract = a
                                  /\ assignments[j].auto
                                  /\ assignments[j].status = "PENDING"}
  <1>1. ASSUME NEW i \in open'
        PROVE  i \in open /\ assignments'[i].reviewer = assignments[i].reviewer
    BY <1>1 DEF NothingGiven
  <1> QED
    BY <1>1 DEF AutoReviewers

LEMMA PickingStays ==
  ASSUME NEW q, Picking(q), UNCHANGED scenario
  PROVE  Picking(q)'
  BY DEF Picking, Has

LEMMA RequestsStayPicking ==
  ASSUME ReviewingInv, RoomInv, UNCHANGED scenario, NEW r \in Requests,
         reviewing'[r] = reviewing[r]
  PROVE  Picking(reviewing[r])'
  <1>1. PICK q : q = reviewing[r] /\ Picking(q)
    BY DEF RoomInv
  <1> QED
    BY <1>1, PickingStays

(* One run goes on, and gets no room that it did not have.                 *)
LEMMA OneRoom ==
  ASSUME ScenarioKnown, ReviewingInv, RoomInv, UNCHANGED scenario, NothingGiven,
         NEW p \in Requests, \A r \in Requests \ {p} : reviewing'[r] = reviewing[r],
         NEW q, q = reviewing[p], NEW o, o = reviewing'[p],
         Picking(o), \A a \in Abstracts : Room(o, a) \subseteq Room(q, a)
  PROVE  RoomInv'
  <1>1. ASSUME NEW a \in Abstracts
        PROVE  RoomLeft(a)'
    <2>1. \A r \in Requests : Room(reviewing[r], a)' \subseteq Room(reviewing[r], a)
      <3>1. ASSUME NEW r \in Requests
            PROVE  Room(reviewing[r], a)' \subseteq Room(reviewing[r], a)
        <4>1. CASE r = p
          <5>1. Room(o, a)' = Room(o, a)
            BY DEF Room, Visits, Has
          <5> QED
            BY <4>1, <5>1
        <4>2. CASE r # p
          <5>1. PICK b : b = reviewing[r] /\ b = reviewing'[r]
            BY <4>2
          <5>2. Room(b, a)' = Room(b, a)
            BY DEF Room, Visits, Has
          <5> QED
            BY <5>1, <5>2
        <4> QED
          BY <4>1, <4>2
      <3> QED
        BY <3>1
    <2>2. Rooms(a)' \subseteq Rooms(a)
      BY <2>1 DEF Rooms, Places
    <2> QED
      BY <2>2, NothingIsAdded, RoomShrinks DEF RoomInv
  <1>2. ASSUME NEW r \in Requests
        PROVE  Picking(reviewing[r])'
    <2>1. CASE r = p
      BY <2>1, PickingStays
    <2>2. CASE r # p
      BY <2>2, RequestsStayPicking
    <2> QED
      BY <2>1, <2>2
  <1> QED
    BY <1>1, <1>2 DEF RoomInv

LEMMA NobodyDecides ==
  ASSUME NEW q, q.at \notin Deciding
  PROVE  Picking(q) /\ \A a : Room(q, a) = {}
  BY DEF Picking, Room, Visits, Deciding, LoopSteps

(* A request that is not about to choose, or ends.                         *)
LEMMA ElsewhereGoes ==
  ASSUME ScenarioKnown, ReviewingInv, RoomInv, UNCHANGED scenario, NothingGiven,
         NEW p \in Requests, NEW o, reviewing' = [reviewing EXCEPT ![p] = o],
         o.at \notin Deciding
  PROVE  RoomInv'
  <1>1. o = reviewing'[p] /\ \A r \in Requests \ {p} : reviewing'[r] = reviewing[r]
    BY DEF ReviewingInv
  <1>2. PICK q : q = reviewing[p]
    OBVIOUS
  <1>3. Picking(o) /\ \A a : Room(o, a) = {}
    BY NobodyDecides
  <1> QED
    BY <1>1, <1>2, <1>3, OneRoom

LEMMA RequestEnds ==
  ASSUME ScenarioKnown, ReviewingInv, RoomInv, UNCHANGED scenario, NothingGiven,
         NEW p \in Requests, RespondReviewing(p)
  PROVE  RoomInv'
  <1>1. IdleReviewing.at \notin Deciding
    BY DEF IdleReviewing, Deciding, LoopSteps
  <1> QED
    BY <1>1, ElsewhereGoes DEF RespondReviewing

LEMMA RequestGoes ==
  ASSUME ScenarioKnown, ReviewingInv, RoomInv, UNCHANGED scenario, NothingGiven,
         NEW p \in Requests, NEW step \in ReviewingSteps \ Deciding, GotoReviewing(p, step)
  PROVE  RoomInv'
  <1>1. PICK q \in ReviewingStates : q = reviewing[p]
    BY RequestDoing
  <1> DEFINE o == [q EXCEPT !.at = step]
  <1>2. reviewing' = [reviewing EXCEPT ![p] = o]
    BY <1>1 DEF GotoReviewing
  <1>3. o.at = step
    BY DEF ReviewingStates
  <1> HIDE DEF o
  <1> QED
    BY <1>2, <1>3, ElsewhereGoes

LEMMA RequestsStay ==
  ASSUME ScenarioKnown, ReviewingInv, RoomInv, UNCHANGED <<scenario, reviewing>>, NothingGiven
  PROVE  RoomInv'
  <1>1. ASSUME NEW a \in Abstracts
        PROVE  RoomLeft(a)'
    <2>1. Rooms(a)' = Rooms(a)
      BY DEF Rooms, Room, Visits, Has, Places
    <2> QED
      BY <2>1, NothingIsAdded, RoomShrinks DEF RoomInv
  <1>2. \A r \in Requests : Picking(reviewing[r])'
    BY RequestsStayPicking
  <1> QED
    BY <1>1, <1>2 DEF RoomInv

LEMMA RowsAreNotGiven ==
  ASSUME UNCHANGED assignments
  PROVE  NothingGiven
  BY DEF NothingGiven, Ids

(* Every change of status is one that closes the assignment.               *)
LEMMA ClosedIsNotGiven ==
  ASSUME ReviewingInv, NEW i \in Ids, NEW value, value # "PENDING", Update(i, value)
  PROVE  NothingGiven
  <1>1. PICK row \in Assignments : row = assignments[i]
    BY RowType DEF ReviewingInv
  <1> DEFINE new == [row EXCEPT !.status = value]
  <1>2. assignments' = [assignments EXCEPT ![i] = new]
    BY <1>1 DEF Update
  <1>3. new.status = value
    BY DEF Assignments
  <1> HIDE DEF new
  <1>4. assignments \in Seq(Assignments)
    BY DEF ReviewingInv, Rows
  <1>5. Ids' = Ids /\ \A j \in Ids : assignments'[j] = IF j = i THEN new ELSE assignments[j]
    BY <1>2, <1>4 DEF Ids
  <1> QED
    BY <1>3, <1>5 DEF NothingGiven

LEMMA ByHandIsNotGiven ==
  ASSUME ReviewingInv, NEW row, ~row.auto, Insert(row)
  PROVE  NothingGiven
  <1>1. PICK n \in Nat : n = Len(assignments)
    BY DEF ReviewingInv, Rows
  <1>2. assignments' = Append(assignments, row)
    BY DEF Insert
  <1>3. assignments \in Seq(Assignments)
    BY DEF ReviewingInv, Rows
  <1>4. /\ Ids = 1 .. n /\ Ids' = 1 .. (n + 1)
        /\ assignments'[n + 1] = row
        /\ \A j \in 1 .. n : assignments'[j] = assignments[j]
    BY <1>1, <1>2, <1>3 DEF Ids
  <1>5. \A j \in Ids' : j = n + 1 \/ j \in 1 .. n
    BY <1>4
  <1> QED
    BY <1>4, <1>5 DEF NothingGiven

LEMMA RequestBegins ==
  ASSUME ScenarioKnown, ReviewingInv, RoomInv, UNCHANGED scenario, NEW p \in Requests, NEW call,
         NEW o, BeginReviewing(p, call, o), o.at \notin Deciding
  PROVE  RoomInv'
  BY RowsAreNotGiven, ElsewhereGoes DEF BeginReviewing

LEMMA BeginKeepsRoom ==
  ASSUME ScenarioKnown, ReviewingInv, RoomInv, UNCHANGED scenario, NEW p \in Requests,
         BeginReview(p)
  PROVE  RoomInv'
  <1>1. ASSUME NEW a \in Abstracts, NEW r \in Reviewers, Assign(p, a, r)
        PROVE  RoomInv'
    <2> DEFINE o == [IdleReviewing EXCEPT !.at = "checkAssign", !.abstract = a, !.reviewer = r]
    <2>1. BeginReviewing(p, "assign", o)
      BY <1>1 DEF Assign
    <2>2. o.at \notin Deciding
      BY DEF IdleReviewing, Deciding, LoopSteps
    <2> HIDE DEF o
    <2> QED
      BY <2>1, <2>2, RequestBegins
  <1>2. CASE AutoAssign(p)
    <2> DEFINE o == [IdleReviewing EXCEPT !.at = "readAbstracts", !.pool = active]
    <2>1. BeginReviewing(p, "autoAssign", o)
      BY <1>2 DEF AutoAssign
    <2>2. o.at \notin Deciding
      BY DEF IdleReviewing, Deciding, LoopSteps
    <2> HIDE DEF o
    <2> QED
      BY <2>1, <2>2, RequestBegins
  <1>3. ASSUME NEW i \in Ids, NEW r \in Reviewers, Reassign(p, i, r)
        PROVE  RoomInv'
    <2>1. PICK a : a = assignments[i].abstract
      OBVIOUS
    <2> DEFINE o == [IdleReviewing EXCEPT !.at = "checkReassign", !.id = i, !.reviewer = r,
                                          !.abstract = a]
    <2>2. BeginReviewing(p, "reassign", o)
      BY <1>3, <2>1 DEF Reassign
    <2>3. o.at \notin Deciding
      BY DEF IdleReviewing, Deciding, LoopSteps
    <2> HIDE DEF o
    <2> QED
      BY <2>2, <2>3, RequestBegins
  <1>4. ASSUME NEW i \in Ids, SubmitReview(p, i)
        PROVE  RoomInv'
    <2> DEFINE o == [IdleReviewing EXCEPT !.at = "insertReview", !.id = i]
    <2>1. BeginReviewing(p, "submitReview", o)
      BY <1>4 DEF SubmitReview
    <2>2. o.at \notin Deciding
      BY DEF IdleReviewing, Deciding, LoopSteps
    <2> HIDE DEF o
    <2> QED
      BY <2>1, <2>2, RequestBegins
  <1> QED
    BY <1>1, <1>2, <1>3, <1>4 DEF BeginReview

LEMMA HandsKeepRoom ==
  ASSUME ScenarioKnown, ReviewingInv, RoomInv, UNCHANGED scenario, NEW p \in Requests,
         \/ CheckAssign(p) \/ CreateAssignment(p) \/ CheckReassign(p) \/ CancelOld(p)
         \/ CreateSuccessor(p) \/ InsertReview(p) \/ Complete(p) \/ AbortReviewing(p)
  PROVE  RoomInv'
  <1>1. \A step \in HandSteps \cup {"complete"} : step \in ReviewingSteps \ Deciding
    BY DEF HandSteps, ReviewingSteps, Deciding, LoopSteps
  <1>2. CASE CheckAssign(p) \/ CheckReassign(p)
    <2>1. PICK step \in HandSteps : RespondReviewing(p) \/ GotoReviewing(p, step)
      BY <1>2 DEF CheckAssign, CheckReassign, Check, HandSteps
    <2>2. UNCHANGED assignments
      BY <1>2 DEF CheckAssign, CheckReassign, Check
    <2> QED
      BY <1>1, <2>1, <2>2, RowsAreNotGiven, RequestEnds, RequestGoes
  <1>3. CASE CreateAssignment(p) \/ CreateSuccessor(p)
    <2>1. PICK row : ~row.auto /\ Insert(row) /\ RespondReviewing(p)
      BY <1>3 DEF CreateAssignment, CreateSuccessor, NewAssignment
    <2> QED
      BY <2>1, ByHandIsNotGiven, RequestEnds
  <1>4. ASSUME reviewing[p].at \in RowSteps
        PROVE  reviewing[p].id \in Ids
    <2>1. PICK q \in ReviewingStates : q = reviewing[p] /\ Doing(q)
      BY RequestDoing
    <2>2. assignments \in Seq(Assignments)
      BY DEF ReviewingInv, Rows
    <2> QED
      BY <1>4, <2>1, <2>2 DEF Doing, Ids
  <1>5. CASE CancelOld(p)
    <2>1. /\ reviewing[p].at \in RowSteps /\ Update(reviewing[p].id, "CANCELLED")
          /\ GotoReviewing(p, "createSuccessor")
      BY <1>5 DEF CancelOld, RowSteps
    <2>2. NothingGiven
      BY <1>4, <2>1, ClosedIsNotGiven
    <2>3. "createSuccessor" \in ReviewingSteps \ Deciding
      BY <1>1 DEF HandSteps
    <2> QED
      BY <2>1, <2>2, <2>3, RequestGoes
  <1>6. CASE Complete(p)
    <2>1. /\ reviewing[p].at \in RowSteps /\ Update(reviewing[p].id, "COMPLETED")
          /\ RespondReviewing(p)
      BY <1>6 DEF Complete, RowSteps
    <2>2. NothingGiven
      BY <1>4, <2>1, ClosedIsNotGiven
    <2> QED
      BY <2>1, <2>2, RequestEnds
  <1>7. CASE InsertReview(p)
    <2>1. reviewing[p].at \in RowSteps
      BY <1>7 DEF InsertReview, RowSteps
    <2>2. PICK i \in Ids : i = reviewing[p].id
      BY <1>4, <2>1
    <2>3. CASE RespondReviewing(p) /\ UNCHANGED assignments
      BY <2>3, RowsAreNotGiven, RequestEnds
    <2>4. CASE /\ assignments' = [assignments EXCEPT ![i].reviewed = TRUE]
               /\ GotoReviewing(p, "complete")
      <3>1. PICK row \in Assignments : row = assignments[i]
        BY RowType DEF ReviewingInv
      <3> DEFINE new == [row EXCEPT !.reviewed = TRUE]
      <3>2. assignments' = [assignments EXCEPT ![i] = new]
        BY <2>4, <3>1
      <3>3. /\ new.status = row.status /\ new.auto = row.auto /\ new.abstract = row.abstract
            /\ new.reviewer = row.reviewer
        BY DEF Assignments
      <3> HIDE DEF new
      <3>4. assignments \in Seq(Assignments)
        BY DEF ReviewingInv, Rows
      <3>5. Ids' = Ids /\ \A j \in Ids : assignments'[j] = IF j = i THEN new ELSE assignments[j]
        BY <3>2, <3>4 DEF Ids
      <3>6. NothingGiven
        BY <3>1, <3>3, <3>5 DEF NothingGiven
      <3> QED
        BY <1>1, <2>4, <3>6, RequestGoes
    <2> QED
      BY <1>7, <2>2, <2>3, <2>4 DEF InsertReview
  <1>8. CASE AbortReviewing(p)
    BY <1>8, RowsAreNotGiven, RequestEnds DEF AbortReviewing
  <1> QED
    BY <1>2, <1>3, <1>5, <1>6, <1>7, <1>8

LEMMA RefusalsKeepRoom ==
  ASSUME ScenarioKnown, ReviewingInv, RoomInv, UNCHANGED scenario, NEW i \in Ids,
         Decline(i) \/ DeclareConflict(i)
  PROVE  RoomInv'
  <1>1. NothingGiven
    <2>1. CASE Decline(i)
      BY <2>1, ClosedIsNotGiven DEF Decline
    <2>2. CASE DeclareConflict(i)
      <3>1. PICK row \in Assignments : row = assignments[i]
        BY RowType DEF ReviewingInv
      <3> DEFINE new == [row EXCEPT !.status = "CANCELLED", !.conflict = TRUE]
      <3>2. assignments' = [assignments EXCEPT ![i] = new]
        BY <2>2, <3>1 DEF DeclareConflict
      <3>3. new.status = "CANCELLED"
        BY DEF Assignments
      <3> HIDE DEF new
      <3>4. assignments \in Seq(Assignments)
        BY DEF ReviewingInv, Rows
      <3>5. Ids' = Ids /\ \A j \in Ids : assignments'[j] = IF j = i THEN new ELSE assignments[j]
        BY <3>2, <3>4 DEF Ids
      <3> QED
        BY <3>3, <3>5 DEF NothingGiven
    <2> QED
      BY <2>1, <2>2
  <1> QED
    BY <1>1, RequestsStay DEF Decline, DeclareConflict

-----------------------------------------------------------------------------
(* The steps of automatic assignment.                                      *)

LEMMA ReadsKeepRoom ==
  ASSUME ScenarioKnown, ReviewingInv, RoomInv, UNCHANGED scenario, NEW p \in Requests,
         ReadAbstracts(p)
  PROVE  RoomInv'
  <1>1. UNCHANGED assignments
    BY DEF ReadAbstracts
  <1>2. PICK q \in ReviewingStates : q = reviewing[p]
    BY RequestDoing
  <1>3. PICK t : t = {a \in Abstracts : status[a] \notin {"NONE", "DRAFT", "WITHDRAWN"}}
    OBVIOUS
  <1> DEFINE o == [q EXCEPT !.at = "readAssignments", !.todo = t]
  <1>4. RespondReviewing(p) \/ reviewing' = [reviewing EXCEPT ![p] = o]
    BY <1>2, <1>3 DEF ReadAbstracts
  <1>5. o.at \notin Deciding
    BY DEF ReviewingStates, Deciding, LoopSteps
  <1> HIDE DEF o
  <1> QED
    BY <1>1, <1>4, <1>5, RowsAreNotGiven, RequestEnds, ElsewhereGoes

(* One request's record becomes another that has no more room.             *)
LEMMA RunGoes ==
  ASSUME ScenarioKnown, ReviewingInv, RoomInv, UNCHANGED <<scenario, assignments>>,
         NEW p \in Requests, NEW q, q = reviewing[p],
         NEW o, reviewing' = [reviewing EXCEPT ![p] = o], Picking(o),
         \A a \in Abstracts : Visits(o, a) => Visits(q, a), o.pairs = q.pairs
  PROVE  RoomInv'
  <1>1. o = reviewing'[p] /\ \A r \in Requests \ {p} : reviewing'[r] = reviewing[r]
    BY DEF ReviewingInv
  <1>2. \A a \in Abstracts : Room(o, a) \subseteq Room(q, a)
    BY DEF Room, Has
  <1> QED
    BY <1>1, <1>2, RowsAreNotGiven, OneRoom

LEMMA NextAbstractKeepsRoom ==
  ASSUME ScenarioKnown, ReviewingInv, RoomInv, UNCHANGED scenario, NEW p \in Requests,
         NextAbstract(p)
  PROVE  RoomInv'
  <1>1. PICK q \in ReviewingStates : q = reviewing[p] /\ Doing(q)
    BY RequestDoing
  <1>2. UNCHANGED assignments /\ q.at = "nextAbstract"
    BY <1>1 DEF NextAbstract
  <1>3. CASE q.todo = {}
    BY <1>1, <1>2, <1>3, RowsAreNotGiven, RequestEnds DEF NextAbstract
  <1>4. CASE q.todo # {}
    <2>1. q.todo \subseteq Abstracts /\ q.todo \subseteq Nat
      <3>1. q.todo \subseteq Abstracts
        BY DEF ReviewingStates
      <3> QED
        BY <3>1, EditorialAssumption
    <2>2. PICK a \in Abstracts : a = Least(q.todo) /\ a \in q.todo
      BY <1>4, <2>1, LeastOf
    <2>3. PICK left \in SUBSET Abstracts : left = q.todo \ {a}
      BY <2>1
    <2>4. PICK fresh \in SUBSET Reviewers : fresh = {r \in q.pool : <<a, r>> \notin q.pairs}
      BY DEF ReviewingStates
    <2> DEFINE skipped == [q EXCEPT !.todo = left]
               visiting == Visit(q, a, left, fresh)
    <2>5. \/ reviewing' = [reviewing EXCEPT ![p] = skipped]
          \/ reviewing' = [reviewing EXCEPT ![p] = visiting]
      <3>1. \/ reviewing' = [reviewing EXCEPT ![p].todo = @ \ {a}]
            \/ reviewing' = [reviewing EXCEPT
                    ![p].at = "checkCandidate", ![p].todo = @ \ {a}, ![p].abstract = a,
                    ![p].unchecked = {r \in reviewing[p].pool : <<a, r>> \notin reviewing[p].pairs},
                    ![p].candidates = {}]
        BY <1>1, <1>4, <2>2, Zenon DEF NextAbstract
      <3>2. ASSUME reviewing' = [reviewing EXCEPT ![p].todo = @ \ {a}]
            PROVE  reviewing' = [reviewing EXCEPT ![p] = skipped]
        BY <1>1, <2>3, <3>2
      <3>3. ASSUME reviewing' = [reviewing EXCEPT
                    ![p].at = "checkCandidate", ![p].todo = @ \ {a}, ![p].abstract = a,
                    ![p].unchecked = {r \in reviewing[p].pool : <<a, r>> \notin reviewing[p].pairs},
                    ![p].candidates = {}]
            PROVE  reviewing' = [reviewing EXCEPT ![p] = visiting]
        <4>1. reviewing' = [reviewing EXCEPT ![p] =
                  Visit(q, a, q.todo \ {a}, {r \in q.pool : <<a, r>> \notin q.pairs})]
          BY <1>1, <3>3, Zenon DEF Visit
        <4> QED
          BY <2>3, <2>4, <4>1, Zenon
      <3> QED
        BY <3>1, <3>2, <3>3
    <2>6. CASE reviewing' = [reviewing EXCEPT ![p] = skipped]
      <3>1. skipped.at = "nextAbstract" /\ skipped.todo = left /\ skipped.pairs = q.pairs
        BY <1>2 DEF ReviewingStates
      <3> HIDE DEF skipped
      <3>2. Picking(skipped)
        BY <3>1 DEF Picking
      <3>3. \A b \in Abstracts : Visits(skipped, b) => Visits(q, b)
        BY <1>2, <2>3, <3>1 DEF Visits, LoopSteps
      <3> QED
        BY <1>1, <1>2, <2>6, <3>1, <3>2, <3>3, RunGoes
    <2>7. CASE reviewing' = [reviewing EXCEPT ![p] = visiting]
      <3>1. /\ visiting.at = "checkCandidate" /\ visiting.todo = left /\ visiting.abstract = a
            /\ visiting.unchecked = fresh /\ visiting.candidates = {}
            /\ visiting.pairs = q.pairs
        BY VisitType
      <3> HIDE DEF visiting
      <3>2. Picking(visiting)
        BY <2>4, <3>1 DEF Picking, Has
      <3>3. \A b \in Abstracts : Visits(visiting, b) => Visits(q, b)
        BY <1>2, <2>2, <2>3, <3>1 DEF Visits, Deciding, LoopSteps
      <3> QED
        BY <1>1, <1>2, <2>7, <3>1, <3>2, <3>3, RunGoes
    <2> QED
      BY <2>5, <2>6, <2>7
  <1> QED
    BY <1>3, <1>4

LEMMA CheckCandidateKeepsRoom ==
  ASSUME ScenarioKnown, ReviewingInv, RoomInv, UNCHANGED scenario, NEW p \in Requests,
         CheckCandidate(p)
  PROVE  RoomInv'
  <1>1. PICK q \in ReviewingStates : q = reviewing[p] /\ Doing(q) /\ Picking(q)
    BY RequestDoing DEF RoomInv
  <1>2. UNCHANGED assignments /\ q.at = "checkCandidate"
    BY <1>1 DEF CheckCandidate
  <1>3. (q.unchecked \cup q.candidates) \cap Has(q, q.abstract) = {}
    BY <1>1, <1>2 DEF Picking
  <1>4. q.unchecked \subseteq Reviewers /\ q.candidates \subseteq Reviewers /\ q.fair \in BOOLEAN
    BY DEF ReviewingStates
  <1>5. CASE q.unchecked = {}
    <2> DEFINE o == [q EXCEPT !.at = "selectReviewers"]
    <2>1. reviewing' = [reviewing EXCEPT ![p] = o]
      BY <1>1, <1>5 DEF CheckCandidate, GotoReviewing
    <2>2. "selectReviewers" \in ReviewingSteps
      BY DEF ReviewingSteps, AutoSteps
    <2>3. /\ o.at = "selectReviewers" /\ o.abstract = q.abstract /\ o.todo = q.todo
          /\ o.pairs = q.pairs /\ o.candidates = q.candidates
      BY <2>2, AtReviewing
    <2> HIDE DEF o
    <2>4. Picking(o)
      BY <1>3, <2>3 DEF Picking, Has
    <2>5. \A b \in Abstracts : Visits(o, b) => Visits(q, b)
      BY <1>2, <2>3 DEF Visits, Deciding, LoopSteps
    <2> QED
      BY <1>1, <1>2, <2>1, <2>3, <2>4, <2>5, RunGoes
  <1>6. CASE q.unchecked # {}
    <2>1. PICK r \in q.unchecked : r = Least(q.unchecked)
      BY <1>4, <1>6, EditorialAssumption, LeastOf
    <2>2. PICK conflict \in BOOLEAN : conflict = HasConflict(r, q.abstract)
      BY DEF HasConflict
    <2>3. PICK c \in SUBSET Reviewers :
              c = IF conflict THEN q.candidates ELSE q.candidates \cup {r}
      BY <1>4, <2>1
    <2>4. PICK fair \in BOOLEAN : fair = (q.fair /\ ~conflict)
      BY <1>4
    <2>5. PICK left \in SUBSET Reviewers : left = q.unchecked \ {r}
      BY <1>4
    <2> DEFINE o == Judge(q, left, c, fair)
    <2>6. reviewing' = [reviewing EXCEPT ![p].unchecked = @ \ {r},
                            ![p].candidates = IF conflict THEN @ ELSE @ \cup {r},
                            ![p].fair = @ /\ ~conflict]
      BY <1>1, <1>6, <2>1, <2>2, Zenon DEF CheckCandidate
    <2>7. reviewing' = [reviewing EXCEPT ![p] =
                            Judge(q, q.unchecked \ {r},
                                  IF conflict THEN q.candidates ELSE q.candidates \cup {r},
                                  q.fair /\ ~conflict)]
      BY <1>1, <2>6, Zenon DEF Judge
    <2>8. reviewing' = [reviewing EXCEPT ![p] = o]
      BY <2>3, <2>4, <2>5, <2>7, Zenon
    <2>9. /\ o.at = q.at /\ o.abstract = q.abstract /\ o.todo = q.todo /\ o.pairs = q.pairs
          /\ o.unchecked = left /\ o.candidates = c
      BY JudgeType
    <2> HIDE DEF o
    <2>10. left \cup c \subseteq q.unchecked \cup q.candidates
      BY <2>1, <2>3, <2>5
    <2>11. Picking(o)
      BY <1>2, <1>3, <2>9, <2>10 DEF Picking, Has
    <2>12. \A b \in Abstracts : Visits(o, b) => Visits(q, b)
      BY <2>9 DEF Visits
    <2> QED
      BY <1>1, <1>2, <2>8, <2>9, <2>11, <2>12, RunGoes
  <1> QED
    BY <1>5, <1>6

(* Whoever comes last of those before whom there are fewer than so many    *)
(* has all the others of them before it: they are no more than so many.    *)
LEMMA FewAreChosen ==
  ASSUME NEW load \in [Reviewers -> Nat], NEW C \in SUBSET Reviewers, NEW slots \in Int,
         NEW chosen, chosen # {},
         chosen = {r \in C : Cardinality({s \in C : Before(load, s, r)}) < slots}
  PROVE  Cardinality(chosen) <= slots
  <1> DEFINE Ahead(r) == {s \in C : Before(load, s, r)}
  <1>1. IsFiniteSet(C)
    BY EditorialAssumption, FS_Subset
  <1>2. ASSUME NEW r \in C
        PROVE  IsFiniteSet(Ahead(r)) /\ Cardinality(Ahead(r)) \in Nat
    <2>1. Ahead(r) \subseteq C
      OBVIOUS
    <2> HIDE DEF Ahead
    <2> QED
      BY <1>1, <2>1, FS_Subset, FS_CardinalityType
  <1>3. \A r \in C : r \in chosen <=> Cardinality(Ahead(r)) < slots
    OBVIOUS
  <1>4. chosen \subseteq C
    OBVIOUS
  <1> DEFINE after == {slots - Cardinality(Ahead(r)) : r \in chosen}
  <1>5. after \subseteq Nat /\ after # {}
    <2> HIDE DEF Ahead
    <2>1. ASSUME NEW r \in chosen
          PROVE  slots - Cardinality(Ahead(r)) \in Nat
      <3>1. Cardinality(Ahead(r)) < slots /\ Cardinality(Ahead(r)) \in Nat
        BY <1>2, <1>3, <1>4
      <3> QED
        BY <3>1
    <2> QED
      BY <2>1
  <1>6. PICK n \in after : \A k \in after : n <= k
    <2> HIDE DEF after
    <2> QED
      BY <1>5, LeastOf
  <1> HIDE DEF Ahead
  <1>7. PICK m \in chosen : n = slots - Cardinality(Ahead(m))
    BY <1>6
  <1>8. ASSUME NEW r \in chosen
        PROVE  Cardinality(Ahead(r)) <= Cardinality(Ahead(m))
    <2>1. slots - Cardinality(Ahead(m)) <= slots - Cardinality(Ahead(r))
      BY <1>6, <1>7
    <2>2. Cardinality(Ahead(r)) \in Nat /\ Cardinality(Ahead(m)) \in Nat
      BY <1>2, <1>4
    <2> QED
      BY <2>1, <2>2
  <1> HIDE DEF after
  <1>9. \A r \in C : r \in Nat /\ load[r] \in Nat
    BY EditorialAssumption
  <1>10. ASSUME NEW r \in chosen, r # m
         PROVE  r \in Ahead(m)
    <2>1. r \in C /\ m \in C
      BY <1>4
    <2>2. CASE Before(load, r, m)
      BY <2>1, <2>2 DEF Ahead
    <2>3. CASE ~Before(load, r, m)
      <3>1. Before(load, m, r)
        BY <1>9, <1>10, <2>1, <2>3 DEF Before
      <3>2. Ahead(m) \cup {m} \subseteq Ahead(r)
        BY <1>9, <2>1, <3>1 DEF Before, Ahead
      <3>3. m \notin Ahead(m)
        BY <1>9, <2>1 DEF Before, Ahead
      <3>4. /\ IsFiniteSet(Ahead(m)) /\ IsFiniteSet(Ahead(r))
            /\ Cardinality(Ahead(m)) \in Nat /\ Cardinality(Ahead(r)) \in Nat
        BY <1>2, <2>1
      <3>5. /\ IsFiniteSet(Ahead(m) \cup {m})
            /\ Cardinality(Ahead(m) \cup {m}) = Cardinality(Ahead(m)) + 1
        BY <3>3, <3>4, FS_AddElement
      <3>6. Cardinality(Ahead(m) \cup {m}) <= Cardinality(Ahead(r))
        BY <3>2, <3>4, FS_Subset
      <3>7. Cardinality(Ahead(r)) <= Cardinality(Ahead(m))
        BY <1>8
      <3> QED
        BY <3>4, <3>5, <3>6, <3>7
    <2> QED
      BY <2>2, <2>3
  <1>11. m \in C /\ chosen \subseteq Ahead(m) \cup {m}
    BY <1>4, <1>10
  <1>12. m \notin Ahead(m)
    BY <1>9, <1>11 DEF Before, Ahead
  <1>13. IsFiniteSet(Ahead(m)) /\ Cardinality(Ahead(m)) \in Nat /\ Cardinality(Ahead(m)) < slots
    BY <1>2, <1>3, <1>11
  <1>14. /\ IsFiniteSet(Ahead(m) \cup {m})
         /\ Cardinality(Ahead(m) \cup {m}) = Cardinality(Ahead(m)) + 1
    BY <1>12, <1>13, FS_AddElement
  <1>15. IsFiniteSet(chosen) /\ Cardinality(chosen) <= Cardinality(Ahead(m) \cup {m})
    BY <1>11, <1>14, FS_Subset
  <1>16. Cardinality(chosen) \in Nat
    BY <1>15, FS_CardinalityType
  <1> QED
    BY <1>13, <1>14, <1>15, <1>16

LEMMA HasFinite ==
  ASSUME NEW q, NEW a
  PROVE  IsFiniteSet(Has(q, a)) /\ Cardinality(Has(q, a)) \in Nat
  BY EditorialAssumption, FS_Subset, FS_CardinalityType DEF Has

LEMMA SelectReviewersKeepsRoom ==
  ASSUME ScenarioKnown, ReviewingInv, RoomInv, UNCHANGED scenario, NEW p \in Requests,
         SelectReviewers(p)
  PROVE  RoomInv'
  <1>1. PICK q \in ReviewingStates : q = reviewing[p] /\ Doing(q) /\ Picking(q)
    BY RequestDoing DEF RoomInv
  <1>2. UNCHANGED assignments /\ q.at = "selectReviewers"
    BY <1>1 DEF SelectReviewers
  <1>3. q.candidates \cap Has(q, q.abstract) = {}
    BY <1>1, <1>2 DEF Picking
  <1>4. q.candidates \in SUBSET Reviewers /\ q.load \in [Reviewers -> Nat]
    BY DEF ReviewingStates
  <1>a. AssignedTo(p, q.abstract) = Has(q, q.abstract)
    BY <1>1 DEF AssignedTo, Has
  <1>5. PICK slots \in Int : slots = scenario.perAbstract - Cardinality(AssignedTo(p, q.abstract))
    BY <1>a, HasFinite, PlacesFinite
  <1> DEFINE Ahead(r) == {s \in q.candidates : Before(q.load, s, r)}
  <1>6. PICK chosen \in SUBSET Reviewers :
            chosen = {r \in q.candidates : Cardinality(Ahead(r)) < slots}
    BY <1>4
  <1>7. PICK step \in {"nextAbstract", "createAuto"} :
            step = IF chosen = {} THEN "nextAbstract" ELSE "createAuto"
    OBVIOUS
  <1> DEFINE o == [q EXCEPT !.chosen = chosen, !.at = step]
  <1>8. reviewing' = [reviewing EXCEPT ![p] = o]
    BY <1>1, <1>5, <1>6, <1>7 DEF SelectReviewers
  <1>9. /\ o.at = step /\ o.abstract = q.abstract /\ o.todo = q.todo /\ o.pairs = q.pairs
        /\ o.chosen = chosen
    BY DEF ReviewingStates
  <1> HIDE DEF o
  <1>10. Has(o, o.abstract) = Has(q, q.abstract)
    BY <1>9 DEF Has
  <1>11. ASSUME step = "createAuto"
         PROVE  Cardinality(chosen) + Cardinality(Has(q, q.abstract)) <= scenario.perAbstract
    <2>1. Cardinality(chosen) <= slots
      <3>1. chosen # {}
        BY <1>7, <1>11
      <3>2. PICK C \in SUBSET Reviewers : C = q.candidates
        BY <1>4
      <3>3. PICK load \in [Reviewers -> Nat] : load = q.load
        BY <1>4
      <3>4. chosen = {r \in C : Cardinality({s \in C : Before(load, s, r)}) < slots}
        BY <1>6, <3>2, <3>3, Zenon
      <3> QED
        BY <3>1, <3>4, FewAreChosen
    <2>2. IsFiniteSet(chosen) /\ Cardinality(chosen) \in Nat
      BY EditorialAssumption, FS_Subset, FS_CardinalityType
    <2>3. Cardinality(Has(q, q.abstract)) \in Nat /\ scenario.perAbstract \in Nat
      BY HasFinite, PlacesFinite
    <2> QED
      BY <1>5, <1>a, <2>1, <2>2, <2>3
  <1>12. Picking(o)
    BY <1>3, <1>6, <1>9, <1>10, <1>11 DEF Picking
  <1>13. \A b \in Abstracts : Visits(o, b) => Visits(q, b)
    BY <1>2, <1>9 DEF Visits, Deciding, LoopSteps
  <1> QED
    BY <1>1, <1>2, <1>8, <1>9, <1>12, <1>13, RunGoes

(* A run that reads the assignments gets as much room as an abstract has   *)
(* no open reviewers.                                                      *)
LEMMA ReadAssignmentsKeepsRoom ==
  ASSUME ScenarioKnown, ReviewingInv, RoomInv, UNCHANGED scenario, NEW p \in Requests,
         ReadAssignments(p)
  PROVE  RoomInv'
  <1>1. PICK q \in ReviewingStates : q = reviewing[p]
    BY RequestDoing
  <1>2. UNCHANGED assignments /\ q.at = "readAssignments"
    BY <1>1 DEF ReadAssignments
  <1>3. PICK pairs : pairs = {<<assignments[i].abstract, assignments[i].reviewer>> : i \in Counted}
    OBVIOUS
  <1>4. PICK load : load = [r \in Reviewers |->
                               Cardinality({i \in Counted : assignments[i].reviewer = r})]
    OBVIOUS
  <1>5. PICK fair : fair = (Counted = {})
    OBVIOUS
  <1> DEFINE o == Snapshot(q, pairs, load, fair)
  <1>6. reviewing' = [reviewing EXCEPT ![p] = o]
    BY <1>1, <1>3, <1>4, <1>5 DEF ReadAssignments, Snapshot
  <1>7. o.at = "nextAbstract" /\ o.pairs = pairs
    BY DEF Snapshot, ReviewingStates
  <1> HIDE DEF o
  <1>8. \A r \in Requests : reviewing'[r] = IF r = p THEN o ELSE reviewing[r]
    BY <1>6 DEF ReviewingInv
  <1>9. Picking(o)
    BY <1>7 DEF Picking
  <1>10. ASSUME NEW r \in Requests
         PROVE  Picking(reviewing[r])'
    <2>1. CASE r = p
      BY <1>8, <1>9, <2>1, PickingStays
    <2>2. CASE r # p
      BY <1>8, <2>2, RequestsStayPicking
    <2> QED
      BY <2>1, <2>2
  <1>11. ASSUME NEW a \in Abstracts
         PROVE  RoomLeft(a)'
    <2>1. PICK n \in Nat : n = Cardinality(Has(o, a))
      BY HasFinite
    <2>2. AutoReviewers(a)' = AutoReviewers(a)
      BY <1>2 DEF AutoReviewers, Ids
    <2>3. Rooms(a)' = {x \in Places : x[2] \in IF x[1] = p THEN Room(o, a)
                                               ELSE Room(reviewing[x[1]], a)}
      <3>1. ASSUME NEW r \in Requests
            PROVE  Room(reviewing[r], a)' = IF r = p THEN Room(o, a) ELSE Room(reviewing[r], a)
        <4>1. PICK b : b = reviewing'[r]
          OBVIOUS
        <4>2. Room(b, a)' = Room(b, a)
          BY DEF Room, Visits, Has
        <4> QED
          BY <1>8, <4>1, <4>2
      <3> QED
        BY <3>1 DEF Rooms, Places
    <2>4. CASE Room(o, a) = {}
      <3>1. Rooms(a)' \subseteq Rooms(a)
        BY <2>3, <2>4 DEF Rooms
      <3> QED
        BY <2>2, <3>1, RoomShrinks DEF RoomInv
    <2>5. CASE Room(o, a) # {}
      <3>1. PICK per \in Nat : per = scenario.perAbstract
        BY PlacesFinite
      <3>2. n < per /\ \A k \in Room(o, a) : n < k
        <4>1. PICK k \in 1 .. per : n < k
          BY <2>1, <2>5, <3>1 DEF Room
        <4>2. n < per
          BY <4>1
        <4> QED
          BY <2>1, <4>2 DEF Room
      <3>3. AutoReviewers(a) \subseteq Has(o, a)
        <4>1. ASSUME NEW i \in Ids, assignments[i].abstract = a,
                     assignments[i].status = "PENDING"
              PROVE  assignments[i].reviewer \in Has(o, a)
          <5>1. i \in Counted
            BY <4>1 DEF Counted
          <5>2. <<a, assignments[i].reviewer>> \in o.pairs
            BY <1>3, <1>7, <4>1, <5>1
          <5>3. assignments[i].reviewer \in Reviewers
            BY RowType DEF ReviewingInv, Assignments
          <5> QED
            BY <5>2, <5>3 DEF Has
        <4> QED
          BY <4>1 DEF AutoReviewers
      <3>4. Cardinality(AutoReviewers(a)) <= n /\ Cardinality(AutoReviewers(a)) \in Nat
        BY <2>1, <3>3, HasFinite, FS_Subset, RoomsFinite
      <3> DEFINE taken == {p} \X (1 .. n)
      <3>5. IsFiniteSet(taken) /\ Cardinality(taken) = n
        <4>1. IsFiniteSet({p}) /\ Cardinality({p}) = 1
          BY FS_Singleton
        <4>2. IsFiniteSet(1 .. n) /\ Cardinality(1 .. n) = n
          BY FS_Interval
        <4>3. /\ IsFiniteSet({p} \X (1 .. n))
              /\ Cardinality({p} \X (1 .. n)) = Cardinality({p}) * Cardinality(1 .. n)
          BY <4>1, <4>2, FS_Product
        <4> QED
          BY <4>1, <4>2, <4>3
      <3>6. Rooms(a)' \subseteq Places
        BY <2>3
      <3>7. Rooms(a)' \cap taken = {}
        <4>1. ASSUME NEW x \in Rooms(a)', x \in taken
              PROVE  FALSE
          <5>1. x[1] = p /\ x[2] \in 1 .. n
            BY <4>1
          <5>2. x[2] \in Room(o, a)
            BY <2>3, <5>1
          <5> QED
            BY <3>2, <5>1, <5>2
        <4> QED
          BY <4>1
      <3>8. taken \subseteq Places
        <4>1. 1 .. n \subseteq 1 .. per
          BY <3>2
        <4> QED
          BY <3>1, <4>1 DEF Places
      <3> HIDE DEF taken
      <3>9. IsFiniteSet(Rooms(a)') /\ Cardinality(Rooms(a)') \in Nat
        BY <3>6, PlacesFinite, FS_Subset, FS_CardinalityType
      <3>10. Cardinality(Rooms(a)' \cup taken) = Cardinality(Rooms(a)') + n
        <4>1. Cardinality(Rooms(a)' \cup taken) =
                  Cardinality(Rooms(a)') + Cardinality(taken) - Cardinality(Rooms(a)' \cap taken)
          BY <3>5, <3>9, FS_Union
        <4>2. Cardinality(Rooms(a)' \cap taken) = 0
          BY <3>7, FS_EmptySet
        <4> QED
          BY <3>5, <3>9, <4>1, <4>2
      <3>11. Cardinality(Rooms(a)' \cup taken) <= Cardinality(Places)
        <4>1. Rooms(a)' \cup taken \subseteq Places
          BY <3>6, <3>8
        <4> QED
          BY <4>1, PlacesFinite, FS_Subset
      <3>12. Cardinality(AutoReviewers(a)) + Cardinality(Rooms(a)') <= Cardinality(Places)
        <4>1. Cardinality(Places) \in Nat
          BY PlacesFinite
        <4> QED
          BY <3>4, <3>9, <3>10, <3>11, <4>1
      <3>13. Cardinality(Places) = scenario.perAbstract * Cardinality(Requests)
        BY PlacesFinite
      <3> QED
        BY <2>2, <3>12, <3>13 DEF RoomLeft
    <2> QED
      BY <2>4, <2>5
  <1> QED
    BY <1>10, <1>11 DEF RoomInv

LEMMA OneMore ==
  ASSUME NEW S, IsFiniteSet(S), NEW x, NEW T, T \subseteq S \cup {x}
  PROVE  /\ IsFiniteSet(T) /\ Cardinality(T) \in Nat
         /\ Cardinality(T) <= Cardinality(S) + 1
  <1>1. PICK U : U = S \cup {x}
    OBVIOUS
  <1>2. IsFiniteSet(U) /\ Cardinality(U) = IF x \in S THEN Cardinality(S) ELSE Cardinality(S) + 1
    BY <1>1, FS_AddElement
  <1>3. IsFiniteSet(T) /\ Cardinality(T) <= Cardinality(U)
    BY <1>1, <1>2, FS_Subset
  <1>4. Cardinality(S) \in Nat /\ Cardinality(T) \in Nat /\ Cardinality(U) \in Nat
    BY <1>2, <1>3, FS_CardinalityType
  <1> QED
    BY <1>2, <1>3, <1>4

(* What the insertion of an automatic assignment does to its run.          *)
LEMMA AutoGives ==
  ASSUME ReviewingInv, NEW p \in Requests, NEW q \in ReviewingStates, q = reviewing[p], Doing(q),
         CreateAuto(p)
  PROVE  /\ q.at = "createAuto" /\ q.abstract \in Abstracts
         /\ \E r \in q.chosen : \E o :
               /\ assignments' = Append(assignments, NewAssignment(q.abstract, r, 0, TRUE))
               /\ reviewing' = [reviewing EXCEPT ![p] = o]
               /\ o.at = IF q.chosen = {r} THEN "nextAbstract" ELSE "createAuto"
               /\ o.abstract = q.abstract /\ o.todo = q.todo
               /\ o.pairs = q.pairs \cup {<<q.abstract, r>>} /\ o.chosen = q.chosen \ {r}
  <1>1. q.at = "createAuto"
    BY DEF CreateAuto
  <1>2. q.abstract \in Abstracts /\ q.chosen # {}
    BY <1>1 DEF Doing, LoopSteps
  <1>3. q.chosen \in SUBSET Reviewers /\ q.load \in [Reviewers -> Nat]
    BY DEF ReviewingStates
  <1> DEFINE first == CHOOSE c \in q.chosen : \A s \in q.chosen \ {c} : Before(q.load, c, s)
  <1>4. PICK r \in q.chosen : r = first
    BY <1>2, <1>3, FirstReviewer
  <1>5. assignments' = Append(assignments, NewAssignment(q.abstract, r, 0, TRUE))
    BY <1>4 DEF CreateAuto, Insert, first
  <1>6. reviewing' = [reviewing EXCEPT
            ![p].pairs = @ \cup {<<q.abstract, r>>},
            ![p].load[r] = @ + 1,
            ![p].chosen = @ \ {r},
            ![p].at = IF q.chosen = {r} THEN "nextAbstract" ELSE "createAuto"]
    BY <1>4, Zenon DEF CreateAuto, first
  <1> HIDE DEF first
  <1>7. PICK step : step = IF q.chosen = {r} THEN "nextAbstract" ELSE "createAuto"
    OBVIOUS
  <1>8. PICK pairs : pairs = q.pairs \cup {<<q.abstract, r>>}
    OBVIOUS
  <1>9. PICK load : load = [q.load EXCEPT ![r] = @ + 1]
    OBVIOUS
  <1>10. PICK chosen : chosen = q.chosen \ {r}
    OBVIOUS
  <1> DEFINE o == Give(q, pairs, load, chosen, step)
  <1>11. reviewing' = [reviewing EXCEPT ![p] = o]
    <2>1. reviewing' = [reviewing EXCEPT
              ![p].pairs = @ \cup {<<q.abstract, r>>},
              ![p].load[r] = @ + 1,
              ![p].chosen = @ \ {r},
              ![p].at = step]
      BY <1>6, <1>7, Zenon
    <2>2. reviewing' = [reviewing EXCEPT ![p] =
              Give(q, q.pairs \cup {<<q.abstract, r>>}, [q.load EXCEPT ![r] = @ + 1],
                   q.chosen \ {r}, step)]
      BY <2>1, Zenon DEF Give
    <2> QED
      BY <1>8, <1>9, <1>10, <2>2, Zenon
  <1>12. /\ o.at = step /\ o.abstract = q.abstract /\ o.todo = q.todo /\ o.pairs = pairs
         /\ o.chosen = chosen
    BY DEF ReviewingStates, Give
  <1> HIDE DEF o
  <1> QED
    BY <1>1, <1>2, <1>5, <1>7, <1>8, <1>10, <1>11, <1>12

(* The abstract has one open reviewer more, and its run one place less.    *)
LEMMA CreateAutoKeepsRoom ==
  ASSUME ScenarioKnown, ReviewingInv, RoomInv, UNCHANGED scenario, NEW p \in Requests,
         CreateAuto(p)
  PROVE  RoomInv'
  <1>1. PICK q \in ReviewingStates : q = reviewing[p] /\ Doing(q) /\ Picking(q)
    BY RequestDoing DEF RoomInv
  <1>2. q.at = "createAuto" /\ q.abstract \in Abstracts
    BY <1>1, AutoGives
  <1>a. PICK r \in q.chosen : \E o :
            /\ assignments' = Append(assignments, NewAssignment(q.abstract, r, 0, TRUE))
            /\ reviewing' = [reviewing EXCEPT ![p] = o]
            /\ o.at = IF q.chosen = {r} THEN "nextAbstract" ELSE "createAuto"
            /\ o.abstract = q.abstract /\ o.todo = q.todo
            /\ o.pairs = q.pairs \cup {<<q.abstract, r>>} /\ o.chosen = q.chosen \ {r}
    BY <1>1, AutoGives
  <1>3. PICK o :
            /\ assignments' = Append(assignments, NewAssignment(q.abstract, r, 0, TRUE))
            /\ reviewing' = [reviewing EXCEPT ![p] = o]
            /\ o.at = IF q.chosen = {r} THEN "nextAbstract" ELSE "createAuto"
            /\ o.abstract = q.abstract /\ o.todo = q.todo
            /\ o.pairs = q.pairs \cup {<<q.abstract, r>>} /\ o.chosen = q.chosen \ {r}
    BY <1>a
  <1>4. PICK a \in Abstracts : a = q.abstract
    BY <1>2
  <1>5. q.chosen \subseteq Reviewers /\ r \in Reviewers
    <2>1. q.chosen \subseteq Reviewers
      BY DEF ReviewingStates
    <2> QED
      BY <2>1
  <1>6. PICK n \in Nat : n = Cardinality(Has(q, a))
    BY HasFinite
  <1>7. PICK c \in Nat : c = Cardinality(q.chosen)
    BY <1>5, EditorialAssumption, FS_Subset, FS_CardinalityType
  <1>8. PICK per \in Nat : per = scenario.perAbstract
    BY PlacesFinite
  <1>9. c + n <= per /\ r \notin Has(q, a)
    BY <1>1, <1>2, <1>4, <1>6, <1>7, <1>8 DEF Picking
  <1>10. IsFiniteSet(q.chosen) /\ Cardinality(q.chosen \ {r}) = c - 1 /\ c # 0
    <2>1. IsFiniteSet(q.chosen)
      BY <1>5, EditorialAssumption, FS_Subset
    <2>2. c # 0
      BY <1>7, <2>1, FS_EmptySet
    <2> QED
      BY <1>7, <2>1, <2>2, FS_RemoveElement
  <1>11. Has(o, a) = Has(q, a) \cup {r} /\ Cardinality(Has(o, a)) = n + 1
    <2>1. Has(o, a) = Has(q, a) \cup {r}
      BY <1>3, <1>4, <1>5 DEF Has
    <2> QED
      BY <1>6, <1>9, <2>1, HasFinite, FS_AddElement
  <1>12. \A b \in Abstracts : b # a => Has(o, b) = Has(q, b)
    BY <1>3, <1>4 DEF Has
  <1>13. \A b \in Abstracts : Visits(o, b) => Visits(q, b)
    BY <1>2, <1>3 DEF Visits, Deciding, LoopSteps
  <1>14. Picking(o)
    <2>1. (q.chosen \ {r}) \cap Has(o, a) = {}
      BY <1>1, <1>2, <1>4, <1>11 DEF Picking
    <2>2. Cardinality(o.chosen) + Cardinality(Has(o, a)) <= per
      BY <1>3, <1>9, <1>10, <1>11
    <2> QED
      BY <1>3, <1>4, <1>8, <2>1, <2>2 DEF Picking
  <1>15. \A s \in Requests : reviewing'[s] = IF s = p THEN o ELSE reviewing[s]
    BY <1>3 DEF ReviewingInv
  <1>16. ASSUME NEW s \in Requests
         PROVE  Picking(reviewing[s])'
    <2>1. CASE s = p
      BY <1>14, <1>15, <2>1, PickingStays
    <2>2. CASE s # p
      BY <1>15, <2>2, RequestsStayPicking
    <2> QED
      BY <2>1, <2>2
  <1>17. ASSUME NEW b \in Abstracts
         PROVE  Rooms(b)' = {x \in Places : x[2] \in IF x[1] = p THEN Room(o, b)
                                                    ELSE Room(reviewing[x[1]], b)}
    <2>1. ASSUME NEW s \in Requests
          PROVE  Room(reviewing[s], b)' = IF s = p THEN Room(o, b) ELSE Room(reviewing[s], b)
      <3>1. PICK d : d = reviewing'[s]
        OBVIOUS
      <3>2. Room(d, b)' = Room(d, b)
        BY DEF Room, Visits, Has
      <3> QED
        BY <1>15, <3>1, <3>2
    <2> QED
      BY <2>1 DEF Rooms, Places
  <1>18. ASSUME NEW b \in Abstracts
         PROVE  AutoReviewers(b)' \subseteq AutoReviewers(b) \cup (IF b = a THEN {r} ELSE {})
    <2> DEFINE row == NewAssignment(q.abstract, r, 0, TRUE)
    <2>1. row.abstract = a /\ row.reviewer = r
      BY <1>4 DEF NewAssignment
    <2> HIDE DEF row
    <2>2. PICK l \in Nat : l = Len(assignments)
      BY DEF ReviewingInv, Rows
    <2>3. assignments \in Seq(Assignments) /\ assignments' = Append(assignments, row)
      BY <1>3 DEF ReviewingInv, Rows, row
    <2>4. /\ Ids = 1 .. l /\ Ids' = 1 .. (l + 1)
          /\ assignments'[l + 1] = row
          /\ \A j \in 1 .. l : assignments'[j] = assignments[j]
      BY <2>2, <2>3 DEF Ids
    <2>5. \A j \in Ids' : j = l + 1 \/ j \in Ids
      BY <2>4
    <2> QED
      BY <2>1, <2>4, <2>5 DEF AutoReviewers
  <1>19. ASSUME NEW b \in Abstracts, b # a
         PROVE  RoomLeft(b)'
    <2>1. Room(o, b) \subseteq Room(q, b)
      BY <1>12, <1>13, <1>19 DEF Room
    <2>2. Rooms(b)' \subseteq Rooms(b)
      BY <1>1, <1>17, <2>1 DEF Rooms
    <2>3. AutoReviewers(b)' \subseteq AutoReviewers(b)
      BY <1>18, <1>19
    <2> QED
      BY <2>2, <2>3, RoomShrinks DEF RoomInv
  <1>20. RoomLeft(a)'
    <2>1. /\ IsFiniteSet(AutoReviewers(a)) /\ Cardinality(AutoReviewers(a)) \in Nat
          /\ IsFiniteSet(Rooms(a)) /\ Cardinality(Rooms(a)) \in Nat
      BY RoomsFinite
    <2>2. /\ IsFiniteSet(AutoReviewers(a)') /\ Cardinality(AutoReviewers(a)') \in Nat
          /\ Cardinality(AutoReviewers(a)') <= Cardinality(AutoReviewers(a)) + 1
      <3>1. AutoReviewers(a)' \subseteq AutoReviewers(a) \cup {r}
        BY <1>18
      <3> QED
        BY <2>1, <3>1, OneMore
    <2> DEFINE place == <<p, n + 1>>
    <2>3. n + 1 \in Room(q, a)
      <3>1. n + 1 \in 1 .. per
        BY <1>9, <1>10
      <3>2. Visits(q, a)
        BY <1>2, <1>4 DEF Visits, Deciding, LoopSteps
      <3> QED
        BY <1>6, <1>8, <3>1, <3>2 DEF Room
    <2>4. place \in Rooms(a)
      BY <1>1, <2>3 DEF Rooms, Room, Places
    <2>5. Rooms(a)' \subseteq Rooms(a) \ {place}
      <3>1. Room(o, a) \subseteq Room(q, a) \ {n + 1}
        BY <1>6, <1>11, <1>13 DEF Room
      <3>2. ASSUME NEW x \in Rooms(a)'
            PROVE  x \in Rooms(a) /\ x # place
        <4>1. CASE x[1] = p
          BY <1>1, <1>17, <3>1, <4>1 DEF Rooms
        <4>2. CASE x[1] # p
          BY <1>17, <4>2 DEF Rooms
        <4> QED
          BY <4>1, <4>2
      <3> QED
        BY <3>2
    <2> HIDE DEF place
    <2>6. /\ IsFiniteSet(Rooms(a) \ {place})
          /\ Cardinality(Rooms(a) \ {place}) = Cardinality(Rooms(a)) - 1
      BY <2>1, <2>4, FS_RemoveElement
    <2>7. /\ IsFiniteSet(Rooms(a)') /\ Cardinality(Rooms(a)') <= Cardinality(Rooms(a) \ {place})
      BY <2>5, <2>6, FS_Subset
    <2>8. Cardinality(Rooms(a)') \in Nat
      BY <2>7, FS_CardinalityType
    <2>9. PICK total \in Nat : total = scenario.perAbstract * Cardinality(Requests)
      BY PlacesFinite
    <2>10. Cardinality(AutoReviewers(a)) + Cardinality(Rooms(a)) <= total
      BY <2>9 DEF RoomInv, RoomLeft
    <2>11. Cardinality(AutoReviewers(a)') + Cardinality(Rooms(a)') <= total
      BY <2>1, <2>2, <2>6, <2>7, <2>8, <2>10
    <2> QED
      BY <2>9, <2>11 DEF RoomLeft
  <1> QED
    BY <1>16, <1>19, <1>20 DEF RoomInv

-----------------------------------------------------------------------------
LEMMA ReviewingKeepsRoom ==
  ASSUME ScenarioKnown, ReviewingInv, RoomInv, ReviewingNext
  PROVE  RoomInv'
  <1>1. UNCHANGED scenario
    BY ReviewingElsewhere
  <1>2. ASSUME \/ \E r \in Reviewers : AddReviewer(r)
               \/ \E r \in Reviewers, i \in Institutions : UpdateProfile(r, i)
        PROVE  RoomInv'
    <2>1. UNCHANGED <<assignments, reviewing>>
      BY <1>2 DEF AddReviewer, UpdateProfile
    <2> QED
      BY <1>1, <2>1, RowsAreNotGiven, RequestsStay
  <1> QED
    BY <1>1, <1>2, BeginKeepsRoom, HandsKeepRoom, RefusalsKeepRoom, ReadsKeepRoom,
       ReadAssignmentsKeepsRoom, NextAbstractKeepsRoom, CheckCandidateKeepsRoom,
       SelectReviewersKeepsRoom, CreateAutoKeepsRoom
    DEF ReviewingNext, ContinueReviewing

LEMMA RoomStep ==
  ASSUME ScenarioKnown, ReviewingInv, RoomInv, [Next]_vars
  PROVE  RoomInv'
  <1>1. ReviewingNext \/ UNCHANGED <<scenario, reviewVars>>
    BY SubmissionsElsewhere, ProgrammeElsewhere DEF Next, vars
  <1>2. ASSUME UNCHANGED <<scenario, reviewVars>>
        PROVE  RoomInv'
    BY <1>2, RowsAreNotGiven, RequestsStay DEF reviewVars
  <1> QED
    BY <1>1, <1>2, ReviewingKeepsRoom

LEMMA RoomBegins ==
  ASSUME Init
  PROVE  RoomInv
  <1>1. /\ ScenarioKnown /\ ReviewingInv
        /\ assignments = <<>> /\ reviewing = [p \in Requests |-> IdleReviewing]
    BY ReviewingBegin DEF Init, ReviewingInit
  <1>2. IdleReviewing.at \notin Deciding
    BY DEF IdleReviewing, Deciding, LoopSteps
  <1>3. ASSUME NEW a \in Abstracts
        PROVE  RoomLeft(a)
    <2>1. AutoReviewers(a) = {}
      BY <1>1 DEF AutoReviewers, Ids
    <2>2. Rooms(a) = {}
      BY <1>1, <1>2, NobodyDecides DEF Rooms, Places
    <2>3. Cardinality(AutoReviewers(a)) = 0 /\ Cardinality(Rooms(a)) = 0
      BY <2>1, <2>2, FS_EmptySet
    <2>4. PICK total \in Nat : total = scenario.perAbstract * Cardinality(Requests)
      BY <1>1, PlacesFinite
    <2> QED
      BY <2>3, <2>4 DEF RoomLeft
  <1>4. \A p \in Requests : Picking(reviewing[p])
    BY <1>1, <1>2, NobodyDecides
  <1> QED
    BY <1>3, <1>4 DEF RoomInv

LEMMA RoomInvariance == Spec => [](RoomInv /\ ScenarioKnown)
  <1>1. Init => RoomInv /\ ScenarioKnown
    BY RoomBegins, ReviewingBegin
  <1>2. RoomInv /\ ScenarioKnown /\ ReviewingInv /\ [Next]_vars => (RoomInv /\ ScenarioKnown)'
    BY RoomStep, ScenarioStays
  <1> QED
    BY <1>1, <1>2, ReviewingInvariance, PTL DEF Spec

(* Runs of autoAssign that do not see each other's assignments give an     *)
(* abstract at most as many times the reviewers wanted as there are        *)
(* requests at work, whatever is refused, reassigned and assigned again.   *)
THEOREM OpenReviewersAreAlwaysBounded == Spec => []OpenReviewersBounded
  <1>1. ASSUME ScenarioKnown, ReviewingInv, RoomInv, NEW a \in Abstracts
        PROVE  Cardinality(AutoReviewers(a)) <= scenario.perAbstract * Cardinality(Requests)
    <2>1. PICK total \in Nat : total = scenario.perAbstract * Cardinality(Requests)
      BY <1>1, PlacesFinite
    <2>2. Cardinality(AutoReviewers(a)) \in Nat /\ Cardinality(Rooms(a)) \in Nat
      BY <1>1, RoomsFinite
    <2>3. Cardinality(AutoReviewers(a)) + Cardinality(Rooms(a)) <= total
      BY <1>1, <2>1 DEF RoomInv, RoomLeft
    <2> QED
      BY <2>1, <2>2, <2>3
  <1>2. ScenarioKnown /\ ReviewingInv /\ RoomInv => OpenReviewersBounded
    BY <1>1 DEF OpenReviewersBounded
  <1> QED
    BY <1>2, ReviewingInvariance, RoomInvariance, PTL

-----------------------------------------------------------------------------
(* The programme: what a request knows of the session and the abstract     *)
(* that it has read.                                                       *)

Accepted(a) == a # 0 => "ACCEPTED" \in decisions[a]
PresentationSteps == {"doubleBooking", "createPresentation", "updatePresentation"}

Planned(q) ==
    /\ q.at # "idle" => q.session \in Sessions
    /\ q.at \in PresentationSteps => Accepted(q.abstract)
    /\ q.at \in PresentationSteps \cup {"updateSession"} => q.window \in Windows

Programmed ==
    /\ sessions \in [Sessions -> SessionRows]
    /\ roles \in [Sessions -> SUBSET (Speakers \X Roles)]
    /\ chairs \in [Sessions -> [ChairRoles -> Speakers \cup {Nobody}]]
    /\ scheduleVersion \in Nat
    /\ ChairIsSpeaker

Presented == presentations \in Seq(PresentationRows) /\ ScheduledWasAccepted

Scheduled ==
    /\ scheduling \in [Requests -> SchedulingStates]
    /\ \A p \in Requests : Planned(scheduling[p])

ProgrammeInv == Programmed /\ Presented /\ Scheduled

(* Decisions are never taken back.                                         *)
DecisionsGrow == \A a \in Abstracts : decisions[a] \subseteq decisions'[a]

LEMMA DecisionsAreKept ==
  ASSUME SubmissionsInv, SubmissionsNext
  PROVE  DecisionsGrow
  <1>1. ASSUME NEW p \in Requests, NEW a \in Abstracts, NEW d \in Decisions,
               RecordDecision(p, a, d)
        PROVE  DecisionsGrow
    <2>1. decisions' = [decisions EXCEPT ![a] = @ \cup {d}]
      BY <1>1 DEF RecordDecision
    <2> QED
      BY <2>1 DEF SubmissionsInv, Tables, DecisionsGrow
  <1>2. ASSUME NEW p \in Requests, BeginSubmission(p)
        PROVE  DecisionsGrow
    <2>1. ASSUME UNCHANGED decisions
          PROVE  DecisionsGrow
      BY <2>1 DEF DecisionsGrow
    <2> QED
      BY <1>1, <1>2, <2>1
      DEF BeginSubmission, SaveVersion, Submit, ForceSubmit, Withdraw, SetAuthors,
          RequestRevision, WizardSave, WizardSetAuthors, WizardSubmit, Save, SaveAuthors,
          BeginSubmit, BeginWriting, submissionTables
  <1>3. ASSUME NEW p \in Requests, ContinueWriting(p) \/ AbortWriting(p)
        PROVE  UNCHANGED decisions
    BY <1>3 DEF ContinueWriting, ReadVersion, InsertVersion, SetCurrent, ReadDeadline,
                ReadForm, CountAuthors, Resubmit, CountNumbers, AssignNumber, AbortWriting,
                UpdateWithdrawn, DeleteAuthors, CreateAuthors, UpdateStatus, submissionTables
  <1>4. ASSUME \/ \E a \in Abstracts : CreateDraft(a)
               \/ WizardBasicsNext \/ WizardBack
               \/ \E a \in Abstracts \cup {0} : WizardReload(a)
               \/ \E name \in DOMAIN settings : ChangeSetting(name)
        PROVE  UNCHANGED decisions
    BY <1>4 DEF CreateDraft, WizardBasicsNext, WizardBack, WizardReload, ChangeSetting, Draft,
                Go, submissionTables
  <1> QED
    BY <1>2, <1>3, <1>4 DEF SubmissionsNext, DecisionsGrow

LEMMA PlannedStays ==
  ASSUME NEW q \in SchedulingStates, Planned(q), DecisionsGrow
  PROVE  Planned(q)'
  <1>1. q.abstract \in Abstracts \cup {0}
    BY DEF SchedulingStates
  <1>2. Accepted(q.abstract) => Accepted(q.abstract)'
    BY <1>1 DEF Accepted, DecisionsGrow
  <1> QED
    BY <1>2 DEF Planned

LEMMA RequestPlanned ==
  ASSUME Scheduled, NEW p \in Requests
  PROVE  scheduling[p] \in SchedulingStates /\ Planned(scheduling[p])
  BY DEF Scheduled

LEMMA IdleSchedulingPlanned ==
  /\ IdleScheduling \in SchedulingStates /\ IdleScheduling.at = "idle"
  /\ Planned(IdleScheduling)
  <1>1. IdleScheduling \in SchedulingStates
    BY DEF IdleScheduling, SchedulingStates, SchedulingSteps
  <1>2. IdleScheduling.at = "idle"
    BY DEF IdleScheduling
  <1> QED
    BY <1>1, <1>2 DEF Planned, PresentationSteps

(* One request goes on.                                                    *)
LEMMA OneScheduling ==
  ASSUME Scheduled, NEW p \in Requests, NEW q \in SchedulingStates, Planned(q),
         scheduling' = [scheduling EXCEPT ![p] = q], UNCHANGED decisions
  PROVE  Scheduled'
  <1>1. scheduling' \in [Requests -> SchedulingStates] /\ scheduling'[p] = q
    BY DEF Scheduled
  <1>2. ASSUME NEW r \in Requests
        PROVE  Planned(scheduling[r])'
    <2>1. PICK o \in SchedulingStates : o = scheduling'[r]
      BY <1>1
    <2>2. Planned(o)
      BY <1>1, <2>1, RequestPlanned DEF Scheduled
    <2>3. Planned(o)'
      BY <2>2, PlannedStays DEF DecisionsGrow
    <2> QED
      BY <2>1, <2>3
  <1> QED
    BY <1>1, <1>2 DEF Scheduled

LEMMA EndsScheduling ==
  ASSUME Scheduled, NEW p \in Requests, RespondScheduling(p), UNCHANGED decisions
  PROVE  Scheduled'
  BY IdleSchedulingPlanned, OneScheduling DEF RespondScheduling

LEMMA AtScheduling ==
  ASSUME NEW q \in SchedulingStates, NEW step \in SchedulingSteps
  PROVE  /\ [q EXCEPT !.at = step] \in SchedulingStates
         /\ [q EXCEPT !.at = step].at = step
         /\ [q EXCEPT !.at = step].session = q.session
         /\ [q EXCEPT !.at = step].abstract = q.abstract
         /\ [q EXCEPT !.at = step].window = q.window
  BY DEF SchedulingStates

LEMMA GoesScheduling ==
  ASSUME Scheduled, NEW p \in Requests, NEW step \in SchedulingSteps, UNCHANGED decisions,
         scheduling[p].at # "idle", GotoScheduling(p, step), step # "updateSession",
         step \in PresentationSteps => scheduling[p].at \in PresentationSteps
  PROVE  Scheduled'
  <1>1. PICK q \in SchedulingStates : q = scheduling[p] /\ Planned(q)
    BY RequestPlanned
  <1> DEFINE o == [q EXCEPT !.at = step]
  <1>2. scheduling' = [scheduling EXCEPT ![p] = o]
    BY <1>1 DEF GotoScheduling
  <1>3. /\ o \in SchedulingStates /\ o.at = step /\ o.session = q.session
        /\ o.abstract = q.abstract /\ o.window = q.window
    BY AtScheduling
  <1> HIDE DEF o
  <1>4. Planned(o)
    BY <1>1, <1>3 DEF Planned
  <1> QED
    BY <1>2, <1>3, <1>4, OneScheduling

LEMMA ProgrammedStays ==
  ASSUME Programmed, UNCHANGED programme
  PROVE  Programmed'
  BY DEF Programmed, programme, ChairIsSpeaker

LEMMA PresentedStays ==
  ASSUME Presented, UNCHANGED presentations, DecisionsGrow
  PROVE  Presented'
  <1>1. ASSUME NEW i \in DOMAIN presentations, presentations[i].abstract # 0
        PROVE  "ACCEPTED" \in decisions'[presentations[i].abstract]
    <2>1. presentations[i] \in PresentationRows
      BY DEF Presented
    <2>2. presentations[i].abstract \in Abstracts
      BY <1>1, <2>1 DEF PresentationRows
    <2>3. "ACCEPTED" \in decisions[presentations[i].abstract]
      BY <1>1 DEF Presented, ScheduledWasAccepted
    <2> QED
      BY <2>2, <2>3 DEF DecisionsGrow
  <1> QED
    BY <1>1 DEF Presented, ScheduledWasAccepted

(* What the steps of the other services leave alone.                       *)
LEMMA ProgrammeInvStays ==
  ASSUME ProgrammeInv, UNCHANGED programmeVars, DecisionsGrow
  PROVE  ProgrammeInv'
  <1>1. UNCHANGED <<sessions, roles, chairs, scheduleVersion, presentations, scheduling>>
    BY DEF programmeVars
  <1>2. Programmed' /\ Presented'
    BY <1>1, ProgrammedStays, PresentedStays DEF ProgrammeInv, programme
  <1>3. ASSUME NEW r \in Requests
        PROVE  Planned(scheduling[r])'
    <2>1. PICK o \in SchedulingStates : o = scheduling[r] /\ Planned(o)
      BY RequestPlanned DEF ProgrammeInv
    <2> QED
      BY <1>1, <2>1, PlannedStays
  <1> QED
    BY <1>1, <1>2, <1>3 DEF ProgrammeInv, Scheduled
(* A row of the programme keeps its abstract.                              *)
LEMMA PresentationChanges ==
  ASSUME Presented, NEW i \in DOMAIN presentations, NEW row \in PresentationRows,
         row.abstract = presentations[i].abstract, UNCHANGED decisions,
         presentations' = [presentations EXCEPT ![i] = row]
  PROVE  Presented'
  <1>1. presentations \in Seq(PresentationRows)
    BY DEF Presented
  <1>2. /\ presentations' \in Seq(PresentationRows)
        /\ DOMAIN presentations' = DOMAIN presentations
        /\ \A j \in DOMAIN presentations :
               presentations'[j] = IF j = i THEN row ELSE presentations[j]
    BY <1>1, ExceptSeq
  <1>3. ASSUME NEW j \in DOMAIN presentations', presentations'[j].abstract # 0
        PROVE  "ACCEPTED" \in decisions'[presentations'[j].abstract]
    <2>1. j \in DOMAIN presentations /\ presentations'[j].abstract = presentations[j].abstract
      BY <1>2
    <2> QED
      BY <1>3, <2>1 DEF Presented, ScheduledWasAccepted
  <1>4. ScheduledWasAccepted'
    BY <1>3 DEF ScheduledWasAccepted
  <1> QED
    BY <1>2, <1>4 DEF Presented

LEMMA SchedulingStays ==
  ASSUME Scheduled, UNCHANGED <<scheduling, decisions>>
  PROVE  Scheduled'
  <1>1. ASSUME NEW r \in Requests
        PROVE  Planned(scheduling[r])'
    <2>1. PICK o \in SchedulingStates : o = scheduling[r] /\ Planned(o)
      BY RequestPlanned
    <2> QED
      BY <2>1, PlannedStays DEF DecisionsGrow
  <1> QED
    BY <1>1 DEF Scheduled

LEMMA SessionsChange ==
  ASSUME ProgrammeInv, sessions' \in [Sessions -> SessionRows],
         UNCHANGED <<roles, chairs, scheduleVersion, presentations, scheduling, decisions>>
  PROVE  ProgrammeInv'
  <1>1. Programmed'
    BY DEF ProgrammeInv, Programmed, ChairIsSpeaker
  <1>2. Presented' /\ Scheduled'
    BY PresentedStays, SchedulingStays DEF ProgrammeInv, DecisionsGrow
  <1> QED
    BY <1>1, <1>2 DEF ProgrammeInv

-----------------------------------------------------------------------------
(* What requests begin with.                                               *)

LEMMA WindowsOfScenario ==
  ASSUME ScenarioKnown
  PROVE  /\ scenario.windows \subseteq Windows /\ scenario.window \in Windows
         /\ Windows \subseteq [from : Nat, to : Nat]
  BY EditorialAssumption DEF ScenarioKnown

LEMMA NothingScheduled ==
  ASSUME ProgrammeInv, Scheduled', UNCHANGED <<programme, presentations, decisions>>
  PROVE  ProgrammeInv'
  BY ProgrammedStays, PresentedStays DEF ProgrammeInv, DecisionsGrow

LEMMA SchedulingBegins ==
  ASSUME ProgrammeInv, NEW p \in Requests, NEW call, NEW q \in SchedulingStates, Planned(q),
         BeginScheduling(p, call, q), UNCHANGED decisions
  PROVE  ProgrammeInv'
  <1>1. UNCHANGED <<programme, presentations>> /\ scheduling' = [scheduling EXCEPT ![p] = q]
    BY DEF BeginScheduling
  <1>2. Scheduled'
    BY <1>1, OneScheduling DEF ProgrammeInv
  <1> QED
    BY <1>1, <1>2, NothingScheduled

LEMMA UpdateSessionStep ==
  ASSUME ProgrammeInv, ScenarioKnown, NEW p \in Requests, NEW s \in Sessions,
         NEW w \in scenario.windows, UpdateSession(p, s, w), UNCHANGED decisions
  PROVE  ProgrammeInv'
  <1>1. PICK published \in BOOLEAN : published = (sessions[s].status = "PUBLISHED")
    OBVIOUS
  <1> DEFINE q == [IdleScheduling EXCEPT !.at = "updateSession", !.session = s, !.window = w,
                                         !.published = published]
  <1>2. w \in Windows /\ w \in [from : Nat, to : Nat]
    BY WindowsOfScenario
  <1>3. q \in SchedulingStates
    BY <1>1, <1>2, IdleSchedulingPlanned DEF SchedulingStates, SchedulingSteps
  <1>4. q.at = "updateSession" /\ q.session = s /\ q.window = w
    BY DEF IdleScheduling
  <1>5. BeginScheduling(p, "updateSession", q)
    BY <1>1 DEF UpdateSession
  <1> HIDE DEF q
  <1>6. Planned(q)
    BY <1>2, <1>4 DEF Planned, PresentationSteps
  <1> QED
    BY <1>3, <1>5, <1>6, SchedulingBegins

LEMMA AssignSpeakersStep ==
  ASSUME ProgrammeInv, NEW p \in Requests, NEW s \in Sessions,
         NEW list \in SpeakerLists, AssignSpeakers(p, s, list), UNCHANGED decisions
  PROVE  ProgrammeInv'
  <1>1. PICK w \in Windows : w = sessions[s].window
    BY DEF ProgrammeInv, Programmed, SessionRows
  <1>2. w \in [from : Nat, to : Nat]
    BY EditorialAssumption
  <1>3. PICK step \in {"speakerOverlap", "deleteRoles"} :
            step = IF settings.preventSpeakerOverlap THEN "speakerOverlap" ELSE "deleteRoles"
    OBVIOUS
  <1>4. list \in SUBSET (Speakers \X Roles)
    BY SpeakerListsAssumption
  <1>5. PICK todo \in SUBSET Speakers : todo = {x[1] : x \in list}
    BY <1>4
  <1> DEFINE q == [IdleScheduling EXCEPT !.session = s, !.window = w, !.list = list,
                                         !.at = step, !.todo = todo]
  <1>6. q \in SchedulingStates
    BY <1>2, <1>4, IdleSchedulingPlanned DEF SchedulingStates, SchedulingSteps
  <1>7. q.at = step /\ q.session = s
    BY DEF IdleScheduling
  <1>8. BeginScheduling(p, "assignSpeakers", q)
    BY <1>1, <1>3, <1>5, Zenon DEF AssignSpeakers
  <1> HIDE DEF q
  <1>9. Planned(q)
    BY <1>7 DEF Planned, PresentationSteps
  <1> QED
    BY <1>6, <1>8, <1>9, SchedulingBegins

LEMMA AssignPresentationStep ==
  ASSUME ProgrammeInv, SubmissionsInv, ScenarioKnown, NEW p \in Requests, NEW s \in Sessions,
         NEW a \in Abstracts \cup {0}, NEW w \in scenario.windows,
         AssignPresentation(p, s, a, w), UNCHANGED decisions
  PROVE  ProgrammeInv'
  <1>1. w \in Windows /\ w \in [from : Nat, to : Nat]
    BY WindowsOfScenario
  <1>2. PICK step \in {"createPresentation", "doubleBooking"} :
            step = IF a = 0 THEN "createPresentation" ELSE "doubleBooking"
    OBVIOUS
  <1>3. Accepted(a)
    <2>1. a # 0 => a \in Abstracts /\ status[a] = "ACCEPTED"
      BY DEF AssignPresentation, MayBeScheduled
    <2> QED
      BY <2>1 DEF SubmissionsInv, Tables, StatusIsEarned, Accepted, Decisions
  <1> DEFINE q == [IdleScheduling EXCEPT !.session = s, !.abstract = a, !.window = w,
                                         !.at = step]
  <1>4. q \in SchedulingStates
    BY <1>1, IdleSchedulingPlanned DEF SchedulingStates, SchedulingSteps
  <1>5. q.at = step /\ q.session = s /\ q.abstract = a /\ q.window = w
    BY DEF IdleScheduling
  <1>6. BeginScheduling(p, IF a = 0 THEN "assignTitle" ELSE "assignPresentation", q)
    BY <1>2 DEF AssignPresentation
  <1> HIDE DEF q
  <1>7. Planned(q)
    BY <1>1, <1>3, <1>5 DEF Planned
  <1> QED
    BY <1>4, <1>6, <1>7, SchedulingBegins

LEMMA UpdatePresentationStep ==
  ASSUME ProgrammeInv, ScenarioKnown, NEW p \in Requests, NEW i \in DOMAIN presentations,
         NEW w \in scenario.windows, UpdatePresentation(p, i, w), UNCHANGED decisions
  PROVE  ProgrammeInv'
  <1>1. w \in Windows /\ w \in [from : Nat, to : Nat]
    BY WindowsOfScenario
  <1>2. presentations[i] \in PresentationRows /\ i \in Nat
    BY DEF ProgrammeInv, Presented
  <1>3. PICK s \in Sessions : s = presentations[i].session
    BY <1>2 DEF PresentationRows
  <1>4. PICK a \in Abstracts \cup {0} : a = presentations[i].abstract
    BY <1>2 DEF PresentationRows
  <1>5. Accepted(a)
    BY <1>4 DEF ProgrammeInv, Presented, ScheduledWasAccepted, Accepted
  <1>6. PICK step \in {"updatePresentation", "doubleBooking"} :
            step = IF a = 0 THEN "updatePresentation" ELSE "doubleBooking"
    OBVIOUS
  <1> DEFINE q == [IdleScheduling EXCEPT !.session = s, !.abstract = a, !.id = i,
                                         !.window = w, !.at = step]
  <1>7. q \in SchedulingStates
    BY <1>1, <1>2, IdleSchedulingPlanned DEF SchedulingStates, SchedulingSteps
  <1>8. q.at = step /\ q.session = s /\ q.abstract = a /\ q.window = w
    BY DEF IdleScheduling
  <1>9. BeginScheduling(p, "updatePresentation", q)
    BY <1>3, <1>4, <1>6 DEF UpdatePresentation
  <1> HIDE DEF q
  <1>10. Planned(q)
    BY <1>1, <1>5, <1>8 DEF Planned
  <1> QED
    BY <1>7, <1>9, <1>10, SchedulingBegins

LEMMA BeginScheduleStep ==
  ASSUME ProgrammeInv, SubmissionsInv, ScenarioKnown, NEW p \in Requests, BeginSchedule(p),
         UNCHANGED decisions
  PROVE  ProgrammeInv'
  BY UpdateSessionStep, AssignSpeakersStep, AssignPresentationStep, UpdatePresentationStep
  DEF BeginSchedule
-----------------------------------------------------------------------------
(* What requests go on with.                                               *)

LEMMA SetSessionWindowStep ==
  ASSUME ProgrammeInv, NEW p \in Requests, SetSessionWindow(p), UNCHANGED decisions
  PROVE  ProgrammeInv'
  <1>1. PICK q \in SchedulingStates : q = scheduling[p] /\ Planned(q)
    BY RequestPlanned DEF ProgrammeInv
  <1>2. q.at = "updateSession" /\ q.session \in Sessions /\ q.window \in Windows
    BY <1>1 DEF SetSessionWindow, Planned
  <1>3. /\ sessions' = [sessions EXCEPT ![q.session].window = q.window]
        /\ UNCHANGED <<roles, chairs, scheduleVersion, presentations>>
    BY <1>1 DEF SetSessionWindow
  <1>4. sessions' \in [Sessions -> SessionRows]
    BY <1>2, <1>3 DEF ProgrammeInv, Programmed, SessionRows
  <1>5. Programmed'
    BY <1>3, <1>4 DEF ProgrammeInv, Programmed, ChairIsSpeaker
  <1>6. Scheduled'
    <2>1. CASE GotoScheduling(p, "countVersion")
      BY <1>1, <1>2, <2>1, GoesScheduling
      DEF ProgrammeInv, SchedulingSteps, PresentationSteps
    <2>2. CASE RespondScheduling(p)
      BY <2>2, EndsScheduling DEF ProgrammeInv
    <2> QED
      BY <2>1, <2>2 DEF SetSessionWindow
  <1>7. Presented'
    BY <1>3, PresentedStays DEF ProgrammeInv, DecisionsGrow
  <1> QED
    BY <1>5, <1>6, <1>7 DEF ProgrammeInv

LEMMA CountScheduleVersionStep ==
  ASSUME ProgrammeInv, NEW p \in Requests, CountScheduleVersion(p), UNCHANGED decisions
  PROVE  ProgrammeInv'
  <1>1. RespondScheduling(p) /\ UNCHANGED <<sessions, roles, chairs, presentations>>
    BY DEF CountScheduleVersion
  <1>2. scheduleVersion' \in Nat
    BY DEF CountScheduleVersion, ProgrammeInv, Programmed
  <1>3. Programmed'
    BY <1>1, <1>2 DEF ProgrammeInv, Programmed, ChairIsSpeaker
  <1>4. Scheduled' /\ Presented'
    BY <1>1, EndsScheduling, PresentedStays DEF ProgrammeInv, DecisionsGrow
  <1> QED
    BY <1>3, <1>4 DEF ProgrammeInv

LEMMA CheckSpeakerStep ==
  ASSUME ProgrammeInv, NEW p \in Requests, CheckSpeaker(p), UNCHANGED decisions
  PROVE  ProgrammeInv'
  <1>1. PICK q \in SchedulingStates : q = scheduling[p] /\ Planned(q)
    BY RequestPlanned DEF ProgrammeInv
  <1>2. q.at = "speakerOverlap" /\ UNCHANGED <<programme, presentations>>
    BY <1>1 DEF CheckSpeaker
  <1>3. CASE GotoScheduling(p, "deleteRoles")
    <2>1. Scheduled'
      BY <1>1, <1>2, <1>3, GoesScheduling
      DEF ProgrammeInv, SchedulingSteps, PresentationSteps
    <2> QED
      BY <1>2, <2>1, NothingScheduled
  <1>4. CASE RespondScheduling(p)
    BY <1>2, <1>4, EndsScheduling, NothingScheduled DEF ProgrammeInv
  <1>5. ASSUME NEW x, scheduling' = [scheduling EXCEPT ![p].todo = @ \ {x}]
        PROVE  ProgrammeInv'
    <2> DEFINE o == [q EXCEPT !.todo = q.todo \ {x}]
    <2>1. scheduling' = [scheduling EXCEPT ![p] = o]
      BY <1>1, <1>5
    <2>2. o \in SchedulingStates
      BY DEF SchedulingStates
    <2>3. o.at = q.at /\ o.session = q.session
      BY DEF SchedulingStates
    <2> HIDE DEF o
    <2>4. Planned(o)
      BY <1>1, <1>2, <2>3 DEF Planned, PresentationSteps
    <2>5. Scheduled'
      BY <2>1, <2>2, <2>4, OneScheduling DEF ProgrammeInv
    <2> QED
      BY <1>2, <2>5, NothingScheduled
  <1> QED
    BY <1>3, <1>4, <1>5 DEF CheckSpeaker

LEMMA DeleteRolesStep ==
  ASSUME ProgrammeInv, NEW p \in Requests, DeleteRoles(p), UNCHANGED decisions
  PROVE  ProgrammeInv'
  <1>1. PICK q \in SchedulingStates : q = scheduling[p] /\ Planned(q)
    BY RequestPlanned DEF ProgrammeInv
  <1>2. q.at = "deleteRoles" /\ UNCHANGED <<programme, presentations>>
    BY <1>1 DEF DeleteRoles
  <1>3. q.session \in Sessions
    BY <1>1, <1>2 DEF Planned
  <1>4. PICK seen \in SUBSET (Speakers \X Roles) : seen = roles[q.session]
    BY <1>3 DEF ProgrammeInv, Programmed
  <1> DEFINE o == [q EXCEPT !.at = "commitRoles", !.seen = seen]
  <1>5. scheduling' = [scheduling EXCEPT ![p].at = "commitRoles", ![p].seen = seen]
    BY <1>1, <1>4 DEF DeleteRoles
  <1>6. scheduling' = [scheduling EXCEPT ![p] = o]
    BY <1>1, <1>5
  <1>7. o \in SchedulingStates
    BY DEF SchedulingStates, SchedulingSteps
  <1>8. o.at = "commitRoles" /\ o.session = q.session
    BY DEF SchedulingStates
  <1> HIDE DEF o
  <1>9. Planned(o)
    BY <1>3, <1>8 DEF Planned, PresentationSteps
  <1>10. Scheduled'
    BY <1>6, <1>7, <1>9, OneScheduling DEF ProgrammeInv
  <1> QED
    BY <1>2, <1>10, NothingScheduled

LEMMA ChairOfList ==
  ASSUME NEW list, NEW role
  PROVE  /\ ChairOf(list, role) \in Speakers \cup {Nobody}
         /\ ChairOf(list, role) # Nobody => <<ChairOf(list, role), role>> \in list
  BY DEF ChairOf

LEMMA CommitRolesStep ==
  ASSUME ProgrammeInv, NEW p \in Requests, CommitRoles(p), UNCHANGED decisions
  PROVE  ProgrammeInv'
  <1>1. PICK q \in SchedulingStates : q = scheduling[p] /\ Planned(q)
    BY RequestPlanned DEF ProgrammeInv
  <1>2. RespondScheduling(p) /\ UNCHANGED <<sessions, scheduleVersion, presentations>>
    BY DEF CommitRoles
  <1>3. Scheduled' /\ Presented'
    BY <1>2, EndsScheduling, PresentedStays DEF ProgrammeInv, DecisionsGrow
  <1>4. q.session \in Sessions
    BY <1>1 DEF CommitRoles, Planned
  <1>5. q.list \in SUBSET (Speakers \X Roles)
    BY DEF SchedulingStates
  <1>6. CASE UNCHANGED <<roles, chairs>>
    BY <1>2, <1>3, <1>6, ProgrammedStays DEF ProgrammeInv, programme
  <1>7. CASE /\ roles' = [roles EXCEPT ![q.session] = Kept(p) \cup q.list]
             /\ chairs' = [chairs EXCEPT ![q.session] =
                              [role \in ChairRoles |-> ChairOf(q.list, role)]]
    <2>1. roles[q.session] \in SUBSET (Speakers \X Roles)
      BY <1>4 DEF ProgrammeInv, Programmed
    <2>2. PICK new \in SUBSET (Speakers \X Roles) : new = Kept(p) \cup q.list
      BY <1>1, <1>5, <2>1 DEF Kept
    <2>3. roles' = [roles EXCEPT ![q.session] = new]
      BY <1>7, <2>2
    <2>4. PICK seats \in [ChairRoles -> Speakers \cup {Nobody}] :
              /\ seats = [role \in ChairRoles |-> ChairOf(q.list, role)]
              /\ \A role \in ChairRoles : seats[role] # Nobody => <<seats[role], role>> \in new
      <3>1. \A role \in ChairRoles :
                /\ ChairOf(q.list, role) \in Speakers \cup {Nobody}
                /\ ChairOf(q.list, role) # Nobody => <<ChairOf(q.list, role), role>> \in new
        BY <2>2, ChairOfList
      <3> DEFINE f == [role \in ChairRoles |-> ChairOf(q.list, role)]
      <3>2. f \in [ChairRoles -> Speakers \cup {Nobody}]
        BY <3>1
      <3>3. \A role \in ChairRoles : f[role] # Nobody => <<f[role], role>> \in new
        BY <3>1
      <3>4. f = [role \in ChairRoles |-> ChairOf(q.list, role)]
        OBVIOUS
      <3> HIDE DEF f
      <3> QED
        BY <3>2, <3>3, <3>4
    <2>5. chairs' = [chairs EXCEPT ![q.session] = seats]
      BY <1>7, <2>4
    <2>6. roles' \in [Sessions -> SUBSET (Speakers \X Roles)]
      BY <1>4, <2>3 DEF ProgrammeInv, Programmed
    <2>7. chairs' \in [Sessions -> [ChairRoles -> Speakers \cup {Nobody}]]
      BY <1>4, <2>5 DEF ProgrammeInv, Programmed
    <2>8. ChairIsSpeaker'
      <3>1. ASSUME NEW s \in Sessions, NEW role \in ChairRoles, chairs'[s][role] # Nobody
            PROVE  <<chairs'[s][role], role>> \in roles'[s]
        <4>1. CASE s = q.session
          <5>1. chairs'[s] = seats
            BY <2>5, <4>1 DEF ProgrammeInv, Programmed
          <5>2. roles'[s] = new
            BY <2>3, <4>1 DEF ProgrammeInv, Programmed
          <5> QED
            BY <2>4, <3>1, <5>1, <5>2
        <4>2. CASE s # q.session
          <5>1. chairs'[s] = chairs[s] /\ roles'[s] = roles[s]
            BY <2>3, <2>5, <4>2 DEF ProgrammeInv, Programmed
          <5> QED
            BY <3>1, <5>1 DEF ProgrammeInv, Programmed, ChairIsSpeaker
        <4> QED
          BY <4>1, <4>2
      <3> QED
        BY <3>1 DEF ChairIsSpeaker
    <2> QED
      BY <1>2, <1>3, <2>6, <2>7, <2>8 DEF ProgrammeInv, Programmed
  <1> QED
    BY <1>1, <1>6, <1>7 DEF CommitRoles

LEMMA CheckDoubleBookingStep ==
  ASSUME ProgrammeInv, NEW p \in Requests, CheckDoubleBooking(p), UNCHANGED decisions
  PROVE  ProgrammeInv'
  <1>1. UNCHANGED <<programme, presentations>> /\ scheduling[p].at = "doubleBooking"
    BY DEF CheckDoubleBooking
  <1>2. CASE RespondScheduling(p)
    BY <1>1, <1>2, EndsScheduling, NothingScheduled DEF ProgrammeInv
  <1>3. ASSUME NEW step \in {"createPresentation", "updatePresentation"},
               GotoScheduling(p, step)
        PROVE  ProgrammeInv'
    <2>1. step \in SchedulingSteps /\ scheduling[p].at \in PresentationSteps
      BY <1>1 DEF SchedulingSteps, PresentationSteps
    <2>2. Scheduled'
      BY <1>1, <1>3, <2>1, GoesScheduling DEF ProgrammeInv
    <2> QED
      BY <1>1, <2>2, NothingScheduled
  <1> QED
    BY <1>2, <1>3 DEF CheckDoubleBooking

LEMMA CreatePresentationStep ==
  ASSUME ProgrammeInv, NEW p \in Requests, CreatePresentation(p), UNCHANGED decisions
  PROVE  ProgrammeInv'
  <1>1. PICK q \in SchedulingStates : q = scheduling[p] /\ Planned(q)
    BY RequestPlanned DEF ProgrammeInv
  <1>2. q.at = "createPresentation" /\ RespondScheduling(p) /\ UNCHANGED programme
    BY <1>1 DEF CreatePresentation
  <1>3. q.session \in Sessions /\ Accepted(q.abstract) /\ q.window \in Windows
    BY <1>1, <1>2 DEF Planned, PresentationSteps
  <1> DEFINE row == [session |-> q.session, abstract |-> q.abstract, window |-> q.window,
                     live |-> TRUE]
  <1>4. row \in PresentationRows /\ row.abstract = q.abstract
    BY <1>3 DEF PresentationRows, SchedulingStates
  <1>5. UNCHANGED presentations \/ presentations' = Append(presentations, row)
    BY <1>1 DEF CreatePresentation
  <1> HIDE DEF row
  <1>6. ASSUME presentations' = Append(presentations, row)
        PROVE  Presented'
    <2>1. presentations \in Seq(PresentationRows)
      BY DEF ProgrammeInv, Presented
    <2>2. /\ presentations' \in Seq(PresentationRows)
          /\ Len(presentations') = Len(presentations) + 1
          /\ \A i \in 1 .. Len(presentations) : presentations'[i] = presentations[i]
          /\ presentations'[Len(presentations) + 1] = row
      BY <1>4, <1>6, <2>1, AppendProperties
    <2>3. ASSUME NEW i \in DOMAIN presentations'
          PROVE  Accepted(presentations'[i].abstract)
      <3>1. i \in 1 .. Len(presentations) \/ i = Len(presentations) + 1
        BY <2>1, <2>2
      <3>2. CASE i \in 1 .. Len(presentations)
        BY <2>1, <2>2, <3>2 DEF ProgrammeInv, Presented, ScheduledWasAccepted, Accepted
      <3>3. CASE i = Len(presentations) + 1
        BY <1>3, <1>4, <2>2, <3>3
      <3> QED
        BY <3>1, <3>2, <3>3
    <2>4. ASSUME NEW i \in DOMAIN presentations', presentations'[i].abstract # 0
          PROVE  "ACCEPTED" \in decisions'[presentations'[i].abstract]
      BY <2>3, <2>4 DEF Accepted
    <2>5. ScheduledWasAccepted'
      BY <2>4 DEF ScheduledWasAccepted
    <2> QED
      BY <2>2, <2>5 DEF Presented
  <1>7. Presented'
    BY <1>5, <1>6, PresentedStays DEF ProgrammeInv, DecisionsGrow
  <1> QED
    BY <1>2, <1>7, EndsScheduling, ProgrammedStays DEF ProgrammeInv
LEMMA SetPresentationWindowStep ==
  ASSUME ProgrammeInv, NEW p \in Requests, SetPresentationWindow(p), UNCHANGED decisions
  PROVE  ProgrammeInv'
  <1>1. PICK q \in SchedulingStates : q = scheduling[p] /\ Planned(q)
    BY RequestPlanned DEF ProgrammeInv
  <1>2. q.at = "updatePresentation" /\ RespondScheduling(p) /\ UNCHANGED programme
    BY <1>1 DEF SetPresentationWindow
  <1>3. q.window \in Windows
    BY <1>1, <1>2 DEF Planned, PresentationSteps
  <1>4. \/ UNCHANGED presentations
        \/ /\ q.id \in DOMAIN presentations
           /\ presentations' = [presentations EXCEPT ![q.id].window = q.window]
    BY <1>1 DEF SetPresentationWindow, Live
  <1>5. ASSUME q.id \in DOMAIN presentations,
               presentations' = [presentations EXCEPT ![q.id].window = q.window]
        PROVE  Presented'
    <2>1. presentations[q.id] \in PresentationRows
      BY <1>5 DEF ProgrammeInv, Presented
    <2> DEFINE row == [presentations[q.id] EXCEPT !.window = q.window]
    <2>2. row \in PresentationRows /\ row.abstract = presentations[q.id].abstract
      BY <1>3, <2>1 DEF PresentationRows
    <2>3. presentations' = [presentations EXCEPT ![q.id] = row]
      BY <1>5
    <2> HIDE DEF row
    <2> QED
      BY <1>5, <2>2, <2>3, PresentationChanges DEF ProgrammeInv
  <1>6. Presented'
    BY <1>4, <1>5, PresentedStays DEF ProgrammeInv, DecisionsGrow
  <1> QED
    BY <1>2, <1>6, EndsScheduling, ProgrammedStays DEF ProgrammeInv

LEMMA ContinueSchedulingStep ==
  ASSUME ProgrammeInv, NEW p \in Requests, ContinueScheduling(p), UNCHANGED decisions
  PROVE  ProgrammeInv'
  BY SetSessionWindowStep, CountScheduleVersionStep, CheckSpeakerStep, DeleteRolesStep,
     CommitRolesStep, CheckDoubleBookingStep, CreatePresentationStep, SetPresentationWindowStep
  DEF ContinueScheduling

-----------------------------------------------------------------------------
(* What is done in one step.                                               *)

LEMMA AbortSchedulingStep ==
  ASSUME ProgrammeInv, NEW p \in Requests, AbortScheduling(p), UNCHANGED decisions
  PROVE  ProgrammeInv'
  BY EndsScheduling, NothingScheduled DEF AbortScheduling, ProgrammeInv

LEMMA CreateSessionStep ==
  ASSUME ProgrammeInv, ScenarioKnown, NEW s \in Sessions, NEW w \in scenario.windows,
         CreateSession(s, w), UNCHANGED decisions
  PROVE  ProgrammeInv'
  <1>1. /\ sessions' = [sessions EXCEPT ![s] = [status |-> "DRAFT", window |-> w]]
        /\ UNCHANGED <<roles, chairs, scheduleVersion, presentations, scheduling>>
    BY DEF CreateSession
  <1>2. w \in Windows
    BY WindowsOfScenario
  <1>3. sessions' \in [Sessions -> SessionRows]
    BY <1>1, <1>2 DEF ProgrammeInv, Programmed, SessionRows
  <1> QED
    BY <1>1, <1>3, SessionsChange

LEMMA PublishSessionStep ==
  ASSUME ProgrammeInv, NEW s \in Sessions, PublishSession(s), UNCHANGED decisions
  PROVE  ProgrammeInv'
  <1>1. /\ sessions' = [sessions EXCEPT ![s].status = "PUBLISHED"]
        /\ UNCHANGED <<roles, chairs, scheduleVersion, presentations, scheduling>>
    BY DEF PublishSession
  <1>2. sessions' \in [Sessions -> SessionRows]
    BY <1>1 DEF ProgrammeInv, Programmed, SessionRows
  <1> QED
    BY <1>1, <1>2, SessionsChange

LEMMA RemovePresentationStep ==
  ASSUME ProgrammeInv, NEW i \in DOMAIN presentations, RemovePresentation(i),
         UNCHANGED decisions
  PROVE  ProgrammeInv'
  <1>1. /\ presentations' = [presentations EXCEPT ![i].live = FALSE]
        /\ UNCHANGED <<programme, scheduling>>
    BY DEF RemovePresentation
  <1>2. presentations[i] \in PresentationRows
    BY DEF ProgrammeInv, Presented
  <1> DEFINE row == [presentations[i] EXCEPT !.live = FALSE]
  <1>3. row \in PresentationRows /\ row.abstract = presentations[i].abstract
    BY <1>2 DEF PresentationRows
  <1>4. presentations' = [presentations EXCEPT ![i] = row]
    BY <1>1
  <1> HIDE DEF row
  <1>5. Presented'
    BY <1>3, <1>4, PresentationChanges DEF ProgrammeInv
  <1>6. Scheduled'
    BY <1>1, SchedulingStays DEF ProgrammeInv
  <1> QED
    BY <1>1, <1>5, <1>6, ProgrammedStays DEF ProgrammeInv

LEMMA RemoveSpeakerStep ==
  ASSUME ProgrammeInv, NEW x \in Speakers, RemoveSpeaker(x), UNCHANGED decisions
  PROVE  ProgrammeInv'
  <1>1. /\ roles' = [s \in Sessions |-> {y \in roles[s] : y[1] # x}]
        /\ chairs' = [s \in Sessions |->
                         [role \in ChairRoles |-> IF chairs[s][role] = x THEN Nobody
                                                  ELSE chairs[s][role]]]
        /\ scheduling' = [p \in Requests |->
                             IF \E y \in scheduling[p].list : y[1] = x THEN IdleScheduling
                             ELSE scheduling[p]]
        /\ UNCHANGED <<sessions, scheduleVersion, presentations>>
    BY DEF RemoveSpeaker
  <1>2. roles' \in [Sessions -> SUBSET (Speakers \X Roles)]
    BY <1>1 DEF ProgrammeInv, Programmed
  <1>3. chairs' \in [Sessions -> [ChairRoles -> Speakers \cup {Nobody}]]
    BY <1>1 DEF ProgrammeInv, Programmed
  <1>4. ASSUME NEW s \in Sessions, NEW role \in ChairRoles, chairs'[s][role] # Nobody
        PROVE  <<chairs'[s][role], role>> \in roles'[s]
    <2>1. chairs'[s][role] = chairs[s][role] /\ chairs[s][role] # x /\ chairs[s][role] # Nobody
      BY <1>1, <1>4
    <2>2. <<chairs[s][role], role>> \in roles[s]
      BY <2>1 DEF ProgrammeInv, Programmed, ChairIsSpeaker
    <2> QED
      BY <1>1, <2>1, <2>2
  <1>5. ChairIsSpeaker'
    BY <1>4 DEF ChairIsSpeaker
  <1>6. ASSUME NEW r \in Requests
        PROVE  scheduling'[r] \in SchedulingStates /\ Planned(scheduling[r])'
    <2>1. PICK o \in SchedulingStates : o = scheduling'[r] /\ Planned(o)
      BY <1>1, RequestPlanned, IdleSchedulingPlanned DEF ProgrammeInv
    <2>2. Planned(o)'
      BY <2>1, PlannedStays DEF DecisionsGrow
    <2> QED
      BY <2>1, <2>2
  <1>7. Scheduled'
    BY <1>1, <1>6 DEF Scheduled
  <1>8. Presented'
    BY <1>1, PresentedStays DEF ProgrammeInv, DecisionsGrow
  <1> QED
    BY <1>1, <1>2, <1>3, <1>5, <1>7, <1>8 DEF ProgrammeInv, Programmed

LEMMA ProgrammeNextStep ==
  ASSUME ProgrammeInv, SubmissionsInv, ScenarioKnown, ProgrammeNext
  PROVE  ProgrammeInv'
  <1>1. UNCHANGED decisions
    BY ProgrammeElsewhere DEF submissionVars, submissionTables
  <1> QED
    BY <1>1, BeginScheduleStep, ContinueSchedulingStep, AbortSchedulingStep, CreateSessionStep,
       PublishSessionStep, RemoveSpeakerStep, RemovePresentationStep
    DEF ProgrammeNext

LEMMA ProgrammeStep ==
  ASSUME ProgrammeInv, SubmissionsInv, ScenarioKnown, [Next]_vars
  PROVE  ProgrammeInv'
  <1>1. CASE SubmissionsNext
    <2>1. UNCHANGED programmeVars
      BY <1>1, SubmissionsElsewhere
    <2> QED
      BY <1>1, <2>1, DecisionsAreKept, ProgrammeInvStays
  <1>2. CASE UNCHANGED <<submissionVars, programmeVars>>
    <2>1. UNCHANGED decisions
      BY <1>2 DEF submissionVars, submissionTables
    <2> QED
      BY <1>2, <2>1, ProgrammeInvStays DEF DecisionsGrow
  <1>3. CASE ProgrammeNext
    BY <1>3, ProgrammeNextStep
  <1> QED
    BY <1>1, <1>2, <1>3, ReviewingElsewhere DEF Next, vars

LEMMA ProgrammeBegin ==
  ASSUME Init
  PROVE  ProgrammeInv
  <1>1. ProgrammeInit /\ ScenarioKnown
    BY DEF Init, ScenarioKnown
  <1>2. sessions \in [Sessions -> SessionRows]
    BY <1>1, WindowsOfScenario DEF ProgrammeInit, SessionRows
  <1>3. /\ roles \in [Sessions -> SUBSET (Speakers \X Roles)]
        /\ chairs \in [Sessions -> [ChairRoles -> Speakers \cup {Nobody}]]
        /\ ChairIsSpeaker /\ scheduleVersion \in Nat
    BY <1>1 DEF ProgrammeInit, ChairIsSpeaker
  <1>4. Presented
    <2>1. <<>> \in Seq(PresentationRows) /\ DOMAIN <<>> = {}
      BY EmptySeq
    <2> QED
      BY <1>1, <2>1 DEF ProgrammeInit, Presented, ScheduledWasAccepted
  <1>5. Scheduled
    BY <1>1, IdleSchedulingPlanned DEF ProgrammeInit, Scheduled
  <1> QED
    BY <1>2, <1>3, <1>4, <1>5 DEF ProgrammeInv, Programmed

LEMMA ProgrammeInvariance == Spec => []ProgrammeInv
  <1>1. Init => ProgrammeInv /\ ScenarioKnown
    BY ProgrammeBegin DEF Init, ScenarioKnown
  <1>2. ProgrammeInv /\ SubmissionsInv /\ ScenarioKnown /\ [Next]_vars =>
            ProgrammeInv' /\ ScenarioKnown'
    BY ProgrammeStep, ScenarioStays
  <1> QED
    BY <1>1, <1>2, SubmissionsInvariance, PTL DEF Spec

(* Whoever a session names as its chair is among its speakers, whatever    *)
(* assignSpeakers and the removal of speakers do at the same time.         *)
THEOREM ChairIsAlwaysSpeaker == Spec => []ChairIsSpeaker
  <1>1. ProgrammeInv => ChairIsSpeaker
    BY DEF ProgrammeInv, Programmed
  <1> QED
    BY <1>1, ProgrammeInvariance, PTL

(* What PresentationsService puts in the programme has been accepted by    *)
(* DecisionsService, however many requests change either meanwhile.        *)
THEOREM WhatIsScheduledWasAccepted == Spec => []ScheduledWasAccepted
  <1>1. ProgrammeInv => ScheduledWasAccepted
    BY DEF ProgrammeInv, Presented
  <1> QED
    BY <1>1, ProgrammeInvariance, PTL

-----------------------------------------------------------------------------
(* Double booking: the sessions that give an abstract at an instant, and   *)
(* those to which a request that is past its test will add it, are together*)
(* no more than there are requests.                                        *)

WriteSteps == {"createPresentation", "updatePresentation"}
Covers(w, t) == w.from <= t /\ t < w.to

(* What a request knows of the row that it updates.                        *)
Matches(q) ==
    /\ q.at = "updatePresentation" => q.id # 0
    /\ q.at \in PresentationSteps /\ q.id # 0 =>
           /\ q.id \in DOMAIN presentations
           /\ presentations[q.id].session = q.session
           /\ presentations[q.id].abstract = q.abstract

Placing(a, t) ==
    {p \in Requests : /\ scheduling[p].at \in WriteSteps
                      /\ scheduling[p].abstract = a /\ Covers(scheduling[p].window, t)}

Placed(a, t) ==
    {presentations[i].session : i \in GivenAt(a, t)}
        \cup {scheduling[p].session : p \in Placing(a, t)}

SameSlot(i, j) ==
    /\ presentations[i].abstract # 0
    /\ presentations[i].abstract = presentations[j].abstract
    /\ presentations[i].session = presentations[j].session

OnePerSession == \A i, j \in Live : SameSlot(i, j) => i = j

PlacesBounded ==
    \A a \in Abstracts, t \in Nat : Cardinality(Placed(a, t)) <= Cardinality(Requests)

BookingInv ==
    OnePerSession /\ PlacesBounded /\ \A p \in Requests : Matches(scheduling[p])

LEMMA ImageBound ==
  ASSUME NEW S, IsFiniteSet(S), NEW f, f = [x \in S |-> f[x]]
  PROVE  /\ IsFiniteSet({f[x] : x \in S})
         /\ Cardinality({f[x] : x \in S}) <= Cardinality(S)
  <1> DEFINE T == {f[x] : x \in S}
  <1>1. f \in [S -> T] /\ \A y \in T : \E x \in S : f[x] = y
    OBVIOUS
  <1>2. f \in Surjection(S, T)
    BY <1>1 DEF Surjection
  <1> QED
    BY <1>2, FS_Surjection

LEMMA GivenFinite ==
  ASSUME Presented, NEW a, NEW t
  PROVE  IsFiniteSet(GivenAt(a, t)) /\ Cardinality(GivenAt(a, t)) \in Nat
  <1>1. Len(presentations) \in Nat /\ GivenAt(a, t) \subseteq 1 .. Len(presentations)
    BY DEF Presented, GivenAt, Live
  <1>2. IsFiniteSet(1 .. Len(presentations))
    BY <1>1, FS_Interval
  <1> QED
    BY <1>1, <1>2, FS_Subset, FS_CardinalityType

LEMMA PlacedFinite ==
  ASSUME Presented, NEW a, NEW t
  PROVE  IsFiniteSet(Placed(a, t))
  <1> DEFINE f == [i \in GivenAt(a, t) |-> presentations[i].session]
             g == [p \in Placing(a, t) |-> scheduling[p].session]
  <1>1. IsFiniteSet({f[i] : i \in GivenAt(a, t)})
    <2>1. f = [i \in GivenAt(a, t) |-> f[i]]
      OBVIOUS
    <2> HIDE DEF f
    <2> QED
      BY <2>1, GivenFinite, ImageBound
  <1>2. IsFiniteSet({g[p] : p \in Placing(a, t)})
    <2>1. g = [p \in Placing(a, t) |-> g[p]]
      OBVIOUS
    <2>2. IsFiniteSet(Placing(a, t))
      BY EditorialAssumption, FS_Subset DEF Placing
    <2> HIDE DEF g
    <2> QED
      BY <2>1, <2>2, ImageBound
  <1>3. Placed(a, t) = {f[i] : i \in GivenAt(a, t)} \cup {g[p] : p \in Placing(a, t)}
    BY DEF Placed
  <1> QED
    BY <1>1, <1>2, <1>3, FS_Union

LEMMA PlacedShrinks ==
  ASSUME Presented, PlacesBounded, NEW a \in Abstracts, NEW t \in Nat,
         NEW S, S \subseteq Placed(a, t)
  PROVE  Cardinality(S) <= Cardinality(Requests)
  <1>1. IsFiniteSet(Placed(a, t)) /\ Cardinality(Placed(a, t)) <= Cardinality(Requests)
    BY PlacedFinite DEF PlacesBounded
  <1>2. IsFiniteSet(S) /\ Cardinality(S) <= Cardinality(Placed(a, t))
    BY <1>1, FS_Subset
  <1>3. Cardinality(S) \in Nat /\ Cardinality(Placed(a, t)) \in Nat /\ Cardinality(Requests) \in Nat
    BY <1>1, <1>2, EditorialAssumption, FS_CardinalityType
  <1> QED
    BY <1>1, <1>2, <1>3

(* The rows keep their session and their abstract.                         *)
RowsKept ==
    \A i \in DOMAIN presentations :
        /\ i \in DOMAIN presentations'
        /\ presentations'[i].session = presentations[i].session
        /\ presentations'[i].abstract = presentations[i].abstract

LEMMA MatchesStays ==
  ASSUME NEW q, Matches(q), RowsKept
  PROVE  Matches(q)'
  BY DEF Matches, RowsKept

(* Requests that do not write a presentation next.                         *)
Quiet(q) == Matches(q) /\ (q.at \in WriteSteps => q.abstract = 0)

LEMMA QuietSteps ==
  ASSUME Presented, BookingInv, UNCHANGED presentations,
         \A r \in Requests : scheduling'[r] = scheduling[r] \/ Quiet(scheduling'[r])
  PROVE  BookingInv'
  <1>1. RowsKept
    BY DEF RowsKept
  <1>2. ASSUME NEW r \in Requests
        PROVE  Matches(scheduling[r])'
    <2>1. PICK o : o = scheduling'[r]
      OBVIOUS
    <2>2. Matches(o)
      BY <2>1 DEF BookingInv, Quiet
    <2> QED
      BY <1>1, <2>1, <2>2, MatchesStays
  <1>3. ASSUME NEW a \in Abstracts, NEW t \in Nat
        PROVE  Placed(a, t)' \subseteq Placed(a, t)
    <2>1. a # 0
      BY EditorialAssumption
    <2>2. ASSUME NEW r \in Placing(a, t)'
          PROVE  r \in Placing(a, t) /\ scheduling'[r] = scheduling[r]
      BY <2>1, <2>2 DEF Placing, Quiet
    <2>3. GivenAt(a, t)' = GivenAt(a, t)
      BY DEF GivenAt, Live
    <2> QED
      BY <2>2, <2>3 DEF Placed
  <1>4. PlacesBounded'
    BY <1>3, PlacedShrinks DEF PlacesBounded, BookingInv
  <1>5. OnePerSession'
    BY DEF OnePerSession, BookingInv, SameSlot, Live
  <1> QED
    BY <1>2, <1>4, <1>5 DEF BookingInv

LEMMA QuietStep ==
  ASSUME ProgrammeInv, BookingInv, UNCHANGED presentations, NEW p \in Requests, NEW q,
         scheduling' = [scheduling EXCEPT ![p] = q], Quiet(q)
  PROVE  BookingInv'
  <1>1. Presented /\ scheduling \in [Requests -> SchedulingStates]
    BY DEF ProgrammeInv, Scheduled
  <1>2. \A r \in Requests : scheduling'[r] = IF r = p THEN q ELSE scheduling[r]
    BY <1>1
  <1> QED
    BY <1>1, <1>2, QuietSteps

LEMMA IdleIsQuiet == Quiet(IdleScheduling)
  BY DEF IdleScheduling, Quiet, Matches, WriteSteps, PresentationSteps

LEMMA EndsQuietly ==
  ASSUME ProgrammeInv, BookingInv, UNCHANGED presentations, NEW p \in Requests,
         RespondScheduling(p)
  PROVE  BookingInv'
  BY IdleIsQuiet, QuietStep DEF RespondScheduling

LEMMA GoesQuietly ==
  ASSUME ProgrammeInv, BookingInv, UNCHANGED presentations, NEW p \in Requests,
         NEW step \in SchedulingSteps \ PresentationSteps, GotoScheduling(p, step)
  PROVE  BookingInv'
  <1>1. PICK q \in SchedulingStates : q = scheduling[p]
    BY DEF ProgrammeInv, Scheduled
  <1> DEFINE o == [q EXCEPT !.at = step]
  <1>2. scheduling' = [scheduling EXCEPT ![p] = o]
    BY <1>1 DEF GotoScheduling
  <1>3. o.at = step
    BY DEF SchedulingStates
  <1> HIDE DEF o
  <1>4. Quiet(o)
    BY <1>3 DEF Quiet, Matches, WriteSteps, PresentationSteps
  <1> QED
    BY <1>2, <1>4, QuietStep

LEMMA UnchangedQuietly ==
  ASSUME ProgrammeInv, BookingInv, UNCHANGED <<presentations, scheduling>>
  PROVE  BookingInv'
  BY QuietSteps DEF ProgrammeInv

LEMMA BeginsQuietly ==
  ASSUME ProgrammeInv, BookingInv, NEW p \in Requests, NEW call, NEW q, Quiet(q),
         BeginScheduling(p, call, q)
  PROVE  BookingInv'
  BY QuietStep DEF BeginScheduling

LEMMA RequestsBeginQuietly ==
  ASSUME ProgrammeInv, BookingInv, NEW p \in Requests, BeginSchedule(p)
  PROVE  BookingInv'
  <1>1. ASSUME NEW s \in Sessions, NEW w \in scenario.windows, UpdateSession(p, s, w)
        PROVE  BookingInv'
    <2>1. PICK published : published = (sessions[s].status = "PUBLISHED")
      OBVIOUS
    <2> DEFINE q == [IdleScheduling EXCEPT !.at = "updateSession", !.session = s, !.window = w,
                                           !.published = published]
    <2>2. q.at = "updateSession"
      BY DEF IdleScheduling
    <2>3. BeginScheduling(p, "updateSession", q)
      BY <1>1, <2>1 DEF UpdateSession
    <2> HIDE DEF q
    <2>4. Quiet(q)
      BY <2>2 DEF Quiet, Matches, WriteSteps, PresentationSteps
    <2> QED
      BY <2>3, <2>4, BeginsQuietly
  <1>2. ASSUME NEW s \in Sessions, NEW list \in SpeakerLists, AssignSpeakers(p, s, list)
        PROVE  BookingInv'
    <2>1. PICK step \in {"speakerOverlap", "deleteRoles"} :
              step = IF settings.preventSpeakerOverlap THEN "speakerOverlap" ELSE "deleteRoles"
      OBVIOUS
    <2>2. PICK todo : todo = {x[1] : x \in list}
      OBVIOUS
    <2>3. PICK w : w = sessions[s].window
      OBVIOUS
    <2> DEFINE q == [IdleScheduling EXCEPT !.session = s, !.window = w, !.list = list,
                                           !.at = step, !.todo = todo]
    <2>4. q.at = step
      BY DEF IdleScheduling
    <2>5. BeginScheduling(p, "assignSpeakers", q)
      BY <1>2, <2>1, <2>2, <2>3, Zenon DEF AssignSpeakers
    <2> HIDE DEF q
    <2>6. Quiet(q)
      BY <2>4 DEF Quiet, Matches, WriteSteps, PresentationSteps
    <2> QED
      BY <2>5, <2>6, BeginsQuietly
  <1>3. ASSUME NEW s \in Sessions, NEW a \in Abstracts \cup {0}, NEW w \in scenario.windows,
               AssignPresentation(p, s, a, w)
        PROVE  BookingInv'
    <2>1. PICK step : step = IF a = 0 THEN "createPresentation" ELSE "doubleBooking"
      OBVIOUS
    <2>2. PICK call : call = IF a = 0 THEN "assignTitle" ELSE "assignPresentation"
      OBVIOUS
    <2> DEFINE q == [IdleScheduling EXCEPT !.session = s, !.abstract = a, !.window = w,
                                           !.at = step]
    <2>3. q.at = step /\ q.abstract = a /\ q.id = 0
      BY DEF IdleScheduling
    <2>4. BeginScheduling(p, call, q)
      BY <1>3, <2>1, <2>2 DEF AssignPresentation
    <2> HIDE DEF q
    <2>5. Quiet(q)
      BY <2>1, <2>3 DEF Quiet, Matches, WriteSteps
    <2> QED
      BY <2>4, <2>5, BeginsQuietly
  <1>4. ASSUME NEW i \in DOMAIN presentations, NEW w \in scenario.windows,
               UpdatePresentation(p, i, w)
        PROVE  BookingInv'
    <2>1. PICK row \in PresentationRows : row = presentations[i]
      BY DEF ProgrammeInv, Presented
    <2>2. i # 0
      BY DEF ProgrammeInv, Presented
    <2>3. PICK step : step = IF row.abstract = 0 THEN "updatePresentation" ELSE "doubleBooking"
      OBVIOUS
    <2> DEFINE q == [IdleScheduling EXCEPT !.session = row.session, !.abstract = row.abstract,
                                           !.id = i, !.window = w, !.at = step]
    <2>4. q.at = step /\ q.session = row.session /\ q.abstract = row.abstract /\ q.id = i
      BY DEF IdleScheduling
    <2>5. BeginScheduling(p, "updatePresentation", q)
      BY <1>4, <2>1, <2>3 DEF UpdatePresentation
    <2> HIDE DEF q
    <2>6. Quiet(q)
      BY <2>1, <2>2, <2>3, <2>4 DEF Quiet, Matches, WriteSteps
    <2> QED
      BY <2>5, <2>6, BeginsQuietly
  <1> QED
    BY <1>1, <1>2, <1>3, <1>4 DEF BeginSchedule

LEMMA SpeakersQuietly ==
  ASSUME ProgrammeInv, BookingInv, NEW p \in Requests,
         SetSessionWindow(p) \/ CountScheduleVersion(p) \/ CheckSpeaker(p) \/ DeleteRoles(p)
             \/ CommitRoles(p) \/ AbortScheduling(p)
  PROVE  BookingInv'
  <1>1. CASE SetSessionWindow(p)
    <2>1. UNCHANGED presentations
          /\ (GotoScheduling(p, "countVersion") \/ RespondScheduling(p))
      BY <1>1 DEF SetSessionWindow
    <2>2. "countVersion" \in SchedulingSteps \ PresentationSteps
      BY DEF SchedulingSteps, PresentationSteps
    <2> QED
      BY <2>1, <2>2, GoesQuietly, EndsQuietly
  <1>2. CASE CountScheduleVersion(p) \/ CommitRoles(p) \/ AbortScheduling(p)
    <2>1. UNCHANGED presentations /\ RespondScheduling(p)
      BY <1>2 DEF CountScheduleVersion, CommitRoles, AbortScheduling
    <2> QED
      BY <2>1, EndsQuietly
  <1>3. CASE CheckSpeaker(p)
    <2>1. PICK q \in SchedulingStates : q = scheduling[p]
      BY DEF ProgrammeInv, Scheduled
    <2>2. UNCHANGED presentations /\ q.at = "speakerOverlap"
      BY <1>3, <2>1 DEF CheckSpeaker
    <2>3. CASE GotoScheduling(p, "deleteRoles")
      <3>1. "deleteRoles" \in SchedulingSteps \ PresentationSteps
        BY DEF SchedulingSteps, PresentationSteps
      <3> QED
        BY <2>2, <2>3, <3>1, GoesQuietly
    <2>4. CASE RespondScheduling(p)
      BY <2>2, <2>4, EndsQuietly
    <2>5. ASSUME NEW x, scheduling' = [scheduling EXCEPT ![p].todo = @ \ {x}]
          PROVE  BookingInv'
      <3> DEFINE o == [q EXCEPT !.todo = @ \ {x}]
      <3>1. scheduling' = [scheduling EXCEPT ![p] = o]
        BY <2>1, <2>5
      <3>2. o.at = "speakerOverlap"
        BY <2>2 DEF SchedulingStates
      <3> HIDE DEF o
      <3>3. Quiet(o)
        BY <3>2 DEF Quiet, Matches, WriteSteps, PresentationSteps
      <3> QED
        BY <2>2, <3>1, <3>3, QuietStep
    <2> QED
      BY <1>3, <2>3, <2>4, <2>5 DEF CheckSpeaker
  <1>4. CASE DeleteRoles(p)
    <2>1. PICK q \in SchedulingStates : q = scheduling[p]
      BY DEF ProgrammeInv, Scheduled
    <2>2. PICK seen : seen = roles[scheduling[p].session]
      OBVIOUS
    <2> DEFINE o == [q EXCEPT !.at = "commitRoles", !.seen = seen]
    <2>3. UNCHANGED presentations /\ scheduling' = [scheduling EXCEPT ![p] = o]
      BY <1>4, <2>1, <2>2 DEF DeleteRoles
    <2>4. o.at = "commitRoles"
      BY DEF SchedulingStates
    <2> HIDE DEF o
    <2>5. Quiet(o)
      BY <2>4 DEF Quiet, Matches, WriteSteps, PresentationSteps
    <2> QED
      BY <2>3, <2>5, QuietStep
  <1> QED
    BY <1>1, <1>2, <1>3, <1>4

LEMMA RemovesSpeakerQuietly ==
  ASSUME ProgrammeInv, BookingInv, NEW x \in Speakers, RemoveSpeaker(x)
  PROVE  BookingInv'
  <1>1. \A r \in Requests : scheduling'[r] = IdleScheduling \/ scheduling'[r] = scheduling[r]
    BY DEF RemoveSpeaker
  <1>2. UNCHANGED presentations
    BY DEF RemoveSpeaker
  <1> QED
    BY <1>1, <1>2, IdleIsQuiet, QuietSteps DEF ProgrammeInv

-----------------------------------------------------------------------------
(* The test: what it lets pass is either given elsewhere at other times    *)
(* only, or is not given at all.                                           *)

LEMMA RequestSessionsBound ==
  ASSUME NEW f, NEW S \in SUBSET Requests
  PROVE  Cardinality({f[p].session : p \in S}) <= Cardinality(Requests)
  <1> DEFINE g == [p \in S |-> f[p].session]
             T == {g[p] : p \in S}
  <1>1. g = [p \in S |-> g[p]] /\ T = {f[p].session : p \in S}
    OBVIOUS
  <1>2. IsFiniteSet(S) /\ Cardinality(S) <= Cardinality(Requests)
    BY EditorialAssumption, FS_Subset
  <1> HIDE DEF g
  <1>3. IsFiniteSet(T) /\ Cardinality(T) <= Cardinality(S)
    BY <1>1, <1>2, ImageBound
  <1>4. T = {f[p].session : p \in S}
    BY <1>1
  <1> HIDE DEF T
  <1>5. Cardinality(T) \in Nat /\ Cardinality(S) \in Nat /\ Cardinality(Requests) \in Nat
    BY <1>2, <1>3, EditorialAssumption, FS_CardinalityType
  <1>6. Cardinality(T) <= Cardinality(Requests)
    BY <1>2, <1>3, <1>5
  <1> QED
    BY <1>4, <1>6, Zenon

LEMMA PassesTest ==
  ASSUME ProgrammeInv, BookingInv, NEW p \in Requests, NEW step \in WriteSteps,
         CheckDoubleBooking(p), GotoScheduling(p, step),
         step = "updatePresentation" => scheduling[p].id # 0,
         \A i \in Live : scheduling[p].abstract = presentations[i].abstract
                           /\ presentations[i].session # scheduling[p].session =>
                         ~Overlap(presentations[i].window, scheduling[p].window)
  PROVE  BookingInv'
  <1>1. PICK q \in SchedulingStates : q = scheduling[p] /\ Planned(q)
    BY RequestPlanned DEF ProgrammeInv
  <1>2. UNCHANGED presentations /\ q.at = "doubleBooking"
    BY <1>1 DEF CheckDoubleBooking
  <1> DEFINE o == [q EXCEPT !.at = step]
  <1>3. scheduling' = [scheduling EXCEPT ![p] = o]
    BY <1>1 DEF GotoScheduling
  <1>4. /\ o.at = step /\ o.session = q.session /\ o.abstract = q.abstract
        /\ o.window = q.window /\ o.id = q.id
    BY DEF SchedulingStates
  <1> HIDE DEF o
  <1>5. \A r \in Requests : scheduling'[r] = IF r = p THEN o ELSE scheduling[r]
    BY <1>3 DEF ProgrammeInv, Scheduled
  <1>6. Matches(q) /\ Presented
    BY <1>1 DEF BookingInv, ProgrammeInv
  <1>7. Matches(o)
    BY <1>1, <1>2, <1>4, <1>6 DEF Matches, PresentationSteps, WriteSteps
  <1>8. RowsKept
    BY <1>2 DEF RowsKept
  <1>9. ASSUME NEW r \in Requests
        PROVE  Matches(scheduling[r])'
    <2>1. PICK b : b = scheduling'[r]
      OBVIOUS
    <2>2. Matches(b)
      BY <1>5, <1>7, <2>1 DEF BookingInv
    <2> QED
      BY <1>8, <2>1, <2>2, MatchesStays
  <1>10. OnePerSession'
    BY <1>2 DEF OnePerSession, BookingInv, SameSlot, Live
  <1>11. ASSUME NEW a \in Abstracts, NEW t \in Nat
         PROVE  Cardinality(Placed(a, t)') <= Cardinality(Requests)
    <2>1. GivenAt(a, t)' = GivenAt(a, t)
      BY <1>2 DEF GivenAt, Live
    <2>2. CASE q.abstract = a /\ Covers(q.window, t)
      <3>1. p \in Placing(a, t)' /\ scheduling'[p].session = q.session
        BY <1>4, <1>5, <2>2 DEF Placing, Covers
      <3>2. ASSUME NEW i \in GivenAt(a, t)
            PROVE  presentations[i].session = q.session
        <4>1. /\ i \in Live /\ presentations[i].abstract = a
              /\ presentations[i].window.from <= t /\ t < presentations[i].window.to
          BY <3>2 DEF GivenAt
        <4>2. presentations[i].window \in [from : Nat, to : Nat]
          <5>1. i \in DOMAIN presentations /\ presentations \in Seq(PresentationRows)
            BY <1>6, <4>1 DEF Presented, Live
          <5>2. presentations[i] \in PresentationRows
            BY <5>1
          <5> QED
            BY <5>2, EditorialAssumption DEF PresentationRows
        <4>3. Overlap(presentations[i].window, q.window)
          BY <2>2, <4>1, <4>2 DEF Overlap, Covers, SchedulingStates
        <4> QED
          BY <1>1, <2>2, <4>1, <4>3
      <3>3. Placed(a, t)' = {scheduling[r].session : r \in Placing(a, t)}'
        BY <1>2, <2>1, <3>1, <3>2 DEF Placed
      <3>4. Cardinality({scheduling[r].session : r \in Placing(a, t)}') <= Cardinality(Requests)
        <4>1. Placing(a, t)' \subseteq Requests
          BY DEF Placing
        <4> QED
          BY <4>1, RequestSessionsBound
      <3> QED
        BY <3>3, <3>4
    <2>3. CASE ~(q.abstract = a /\ Covers(q.window, t))
      <3>1. ASSUME NEW r \in Placing(a, t)'
            PROVE  r \in Placing(a, t) /\ scheduling'[r] = scheduling[r]
        BY <1>4, <1>5, <2>3, <3>1 DEF Placing, Covers
      <3>2. Placed(a, t)' \subseteq Placed(a, t)
        BY <1>2, <2>1, <3>1 DEF Placed
      <3> QED
        BY <1>6, <3>2, PlacedShrinks DEF BookingInv
    <2> QED
      BY <2>2, <2>3
  <1>12. PlacesBounded'
    BY <1>11 DEF PlacesBounded
  <1> QED
    BY <1>9, <1>10, <1>12 DEF BookingInv

LEMMA TestsBooking ==
  ASSUME ProgrammeInv, BookingInv, NEW p \in Requests, CheckDoubleBooking(p)
  PROVE  BookingInv'
  <1>1. CASE RespondScheduling(p)
    <2>1. UNCHANGED presentations
      BY DEF CheckDoubleBooking
    <2> QED
      BY <1>1, <2>1, EndsQuietly
  <1>2. CASE ~RespondScheduling(p)
    <2>1. PICK step \in WriteSteps :
              /\ GotoScheduling(p, step)
              /\ step = IF scheduling[p].id = 0 THEN "createPresentation"
                        ELSE "updatePresentation"
      BY <1>2 DEF CheckDoubleBooking, WriteSteps
    <2>2. \A i \in Live : scheduling[p].abstract = presentations[i].abstract
                            /\ presentations[i].session # scheduling[p].session =>
                          ~Overlap(presentations[i].window, scheduling[p].window)
      BY <1>2 DEF CheckDoubleBooking
    <2>3. step = "updatePresentation" => scheduling[p].id # 0
      BY <2>1
    <2> QED
      BY <2>1, <2>2, <2>3, PassesTest
  <1> QED
    BY <1>1, <1>2

-----------------------------------------------------------------------------
(* The write, which ends the request: what it gives was placed already.    *)

LEMMA WritesPlaced ==
  ASSUME ProgrammeInv, BookingInv, NEW p \in Requests, RespondScheduling(p), RowsKept,
         OnePerSession',
         \A a \in Abstracts, t \in Nat :
             {presentations[i].session : i \in GivenAt(a, t)}' \subseteq Placed(a, t)
  PROVE  BookingInv'
  <1>1. \A r \in Requests :
            scheduling'[r] = IF r = p THEN IdleScheduling ELSE scheduling[r]
    BY DEF RespondScheduling, ProgrammeInv, Scheduled
  <1>2. ASSUME NEW r \in Requests
        PROVE  Matches(scheduling[r])'
    <2>1. PICK b : b = scheduling'[r]
      OBVIOUS
    <2>2. Matches(b)
      BY <1>1, <2>1, IdleIsQuiet DEF BookingInv, Quiet
    <2> QED
      BY <2>1, <2>2, MatchesStays
  <1>3. ASSUME NEW a \in Abstracts, NEW t \in Nat
        PROVE  Placed(a, t)' \subseteq Placed(a, t)
    <2>1. IdleScheduling.at \notin WriteSteps
      BY DEF IdleScheduling, WriteSteps
    <2>2. ASSUME NEW r \in Placing(a, t)'
          PROVE  r \in Placing(a, t) /\ scheduling'[r] = scheduling[r]
      BY <1>1, <2>1 DEF Placing
    <2>3. {presentations[i].session : i \in GivenAt(a, t)}' \subseteq Placed(a, t)
      OBVIOUS
    <2> QED
      BY <2>2, <2>3 DEF Placed
  <1>4. PlacesBounded'
    BY <1>3, PlacedShrinks DEF PlacesBounded, BookingInv, ProgrammeInv
  <1> QED
    BY <1>2, <1>4 DEF BookingInv

LEMMA CreatesPlaced ==
  ASSUME ProgrammeInv, BookingInv, NEW p \in Requests, CreatePresentation(p)
  PROVE  BookingInv'
  <1>1. PICK q \in SchedulingStates : q = scheduling[p] /\ Planned(q)
    BY RequestPlanned DEF ProgrammeInv
  <1>2. RespondScheduling(p) /\ q.at = "createPresentation"
    BY <1>1 DEF CreatePresentation
  <1> DEFINE row == [session |-> q.session, abstract |-> q.abstract, window |-> q.window,
                     live |-> TRUE]
  <1>3. CASE UNCHANGED presentations
    BY <1>2, <1>3, EndsQuietly
  <1>4. ASSUME presentations' = Append(presentations, row),
               \A i \in Live : q.abstract # 0 /\ presentations[i].abstract = q.abstract =>
                                   presentations[i].session # q.session
        PROVE  BookingInv'
    <2>1. row \in PresentationRows
      BY <1>1, <1>2 DEF Planned, PresentationSteps, PresentationRows, SchedulingStates
    <2>2. row.session = q.session /\ row.abstract = q.abstract /\ row.window = q.window
      OBVIOUS
    <2> HIDE DEF row
    <2>3. presentations \in Seq(PresentationRows)
      BY DEF ProgrammeInv, Presented
    <2>4. PICK n \in Nat : n = Len(presentations)
      BY <2>3
    <2>5. /\ Len(presentations') = n + 1
          /\ presentations' \in Seq(PresentationRows)
          /\ \A i \in 1 .. n : presentations'[i] = presentations[i]
          /\ presentations'[n + 1] = row
      BY <1>4, <2>1, <2>3, <2>4, AppendProperties
    <2>6. /\ DOMAIN presentations = 1 .. n /\ DOMAIN presentations' = 1 .. (n + 1)
          /\ \A i \in 1 .. (n + 1) : i \in 1 .. n \/ i = n + 1
      BY <2>3, <2>4, <2>5
    <2>7. RowsKept
      BY <2>5, <2>6 DEF RowsKept
    <2>8. \A i \in Live' : i = n + 1 \/ (i \in Live /\ presentations'[i] = presentations[i])
      BY <2>5, <2>6 DEF Live
    <2>9. OnePerSession'
      <3>1. ASSUME NEW i \in Live', NEW j \in Live', SameSlot(i, j)'
            PROVE  i = j
        <4>1. CASE i = n + 1 /\ j = n + 1
          BY <4>1
        <4>2. CASE i = n + 1 /\ j # n + 1
          BY <1>4, <2>2, <2>5, <2>8, <3>1, <4>2 DEF SameSlot
        <4>3. CASE i # n + 1 /\ j = n + 1
          BY <1>4, <2>2, <2>5, <2>8, <3>1, <4>3 DEF SameSlot
        <4>4. CASE i # n + 1 /\ j # n + 1
          BY <2>8, <3>1, <4>4 DEF SameSlot, OnePerSession, BookingInv
        <4> QED
          BY <4>1, <4>2, <4>3, <4>4
      <3> QED
        BY <3>1 DEF OnePerSession
    <2>10. ASSUME NEW a \in Abstracts, NEW t \in Nat
           PROVE  {presentations[i].session : i \in GivenAt(a, t)}' \subseteq Placed(a, t)
      <3>1. ASSUME NEW i \in GivenAt(a, t)'
            PROVE  presentations'[i].session \in Placed(a, t)
        <4>1. CASE i = n + 1
          <5>1. p \in Placing(a, t)
            BY <1>1, <1>2, <2>2, <2>5, <3>1, <4>1 DEF GivenAt, Placing, WriteSteps, Covers
          <5> QED
            BY <1>1, <2>2, <2>5, <4>1, <5>1 DEF Placed
        <4>2. CASE i # n + 1
          <5>1. i \in GivenAt(a, t) /\ presentations'[i] = presentations[i]
            BY <2>8, <3>1, <4>2 DEF GivenAt
          <5> QED
            BY <5>1 DEF Placed
        <4> QED
          BY <4>1, <4>2
      <3> QED
        BY <3>1
    <2> QED
      BY <1>2, <2>7, <2>9, <2>10, WritesPlaced
  <1> QED
    BY <1>1, <1>3, <1>4 DEF CreatePresentation

LEMMA MovesPlaced ==
  ASSUME ProgrammeInv, BookingInv, NEW p \in Requests, SetPresentationWindow(p)
  PROVE  BookingInv'
  <1>1. PICK q \in SchedulingStates : q = scheduling[p] /\ Planned(q)
    BY RequestPlanned DEF ProgrammeInv
  <1>2. RespondScheduling(p) /\ q.at = "updatePresentation"
    BY <1>1 DEF SetPresentationWindow
  <1>3. CASE UNCHANGED presentations
    BY <1>2, <1>3, EndsQuietly
  <1>4. ASSUME q.id \in Live,
               presentations' = [presentations EXCEPT ![q.id].window = q.window]
        PROVE  BookingInv'
    <2>1. presentations[q.id].session = q.session /\ presentations[q.id].abstract = q.abstract
      BY <1>1, <1>2 DEF BookingInv, Matches, PresentationSteps
    <2>2. presentations \in Seq(PresentationRows) /\ q.id \in DOMAIN presentations
      BY <1>4 DEF ProgrammeInv, Presented, Live
    <2>3. PICK old \in PresentationRows : old = presentations[q.id]
      BY <2>2
    <2> DEFINE row == [old EXCEPT !.window = q.window]
    <2>4. /\ row.session = q.session /\ row.abstract = q.abstract /\ row.window = q.window
          /\ row.live = old.live
      BY <2>1, <2>3 DEF PresentationRows
    <2>5. presentations' = [presentations EXCEPT ![q.id] = row]
      BY <1>4, <2>3
    <2> HIDE DEF row
    <2>6. /\ DOMAIN presentations' = DOMAIN presentations
          /\ \A j \in DOMAIN presentations :
                 presentations'[j] = IF j = q.id THEN row ELSE presentations[j]
      BY <2>2, <2>5
    <2>7. RowsKept
      BY <2>1, <2>4, <2>6 DEF RowsKept
    <2>8. \A j \in Live' : j \in Live /\ (j = q.id \/ presentations'[j] = presentations[j])
      BY <2>3, <2>4, <2>6 DEF Live
    <2>9. OnePerSession'
      <3>1. ASSUME NEW i \in Live', NEW j \in Live', SameSlot(i, j)'
            PROVE  i = j
        <4>1. i \in Live /\ j \in Live
          BY <2>8
        <4>2. SameSlot(i, j)
          BY <2>7, <3>1, <4>1 DEF SameSlot, RowsKept, Live
        <4> QED
          BY <4>1, <4>2 DEF OnePerSession, BookingInv
      <3> QED
        BY <3>1 DEF OnePerSession
    <2>10. ASSUME NEW a \in Abstracts, NEW t \in Nat
           PROVE  {presentations[i].session : i \in GivenAt(a, t)}' \subseteq Placed(a, t)
      <3>1. ASSUME NEW i \in GivenAt(a, t)'
            PROVE  presentations'[i].session \in Placed(a, t)
        <4>1. CASE i = q.id
          <5>1. presentations'[i] = row
            BY <2>2, <2>6, <4>1
          <5>2. p \in Placing(a, t)
            BY <1>1, <1>2, <2>4, <3>1, <5>1 DEF GivenAt, Placing, WriteSteps, Covers
          <5> QED
            BY <1>1, <2>4, <5>1, <5>2 DEF Placed
        <4>2. CASE i # q.id
          <5>1. i \in GivenAt(a, t) /\ presentations'[i] = presentations[i]
            BY <2>8, <3>1, <4>2 DEF GivenAt
          <5> QED
            BY <5>1 DEF Placed
        <4> QED
          BY <4>1, <4>2
      <3> QED
        BY <3>1
    <2> QED
      BY <1>2, <2>7, <2>9, <2>10, WritesPlaced
  <1> QED
    BY <1>1, <1>3, <1>4 DEF SetPresentationWindow

LEMMA RemovesPlaced ==
  ASSUME ProgrammeInv, BookingInv, NEW i \in DOMAIN presentations, RemovePresentation(i)
  PROVE  BookingInv'
  <1>1. /\ presentations' = [presentations EXCEPT ![i].live = FALSE]
        /\ UNCHANGED scheduling
    BY DEF RemovePresentation
  <1>2. presentations \in Seq(PresentationRows)
    BY DEF ProgrammeInv, Presented
  <1>3. PICK old \in PresentationRows : old = presentations[i]
    BY <1>2
  <1> DEFINE row == [old EXCEPT !.live = FALSE]
  <1>4. row.session = old.session /\ row.abstract = old.abstract /\ ~row.live
    BY DEF PresentationRows
  <1>5. presentations' = [presentations EXCEPT ![i] = row]
    BY <1>1, <1>3
  <1> HIDE DEF row
  <1>6. /\ DOMAIN presentations' = DOMAIN presentations
        /\ \A j \in DOMAIN presentations :
               presentations'[j] = IF j = i THEN row ELSE presentations[j]
    BY <1>2, <1>5
  <1>7. RowsKept
    BY <1>3, <1>4, <1>6 DEF RowsKept
  <1>8. \A j \in Live' : j \in Live /\ presentations'[j] = presentations[j]
    BY <1>4, <1>6 DEF Live
  <1>9. OnePerSession'
    BY <1>8 DEF OnePerSession, SameSlot, BookingInv
  <1>10. ASSUME NEW r \in Requests
         PROVE  Matches(scheduling[r])'
    <2>1. PICK b : b = scheduling[r]
      OBVIOUS
    <2> QED
      BY <1>1, <1>7, <2>1, MatchesStays DEF BookingInv
  <1>11. ASSUME NEW a \in Abstracts, NEW t \in Nat
         PROVE  Placed(a, t)' \subseteq Placed(a, t)
    <2>1. Placing(a, t)' = Placing(a, t)
      BY <1>1 DEF Placing
    <2>2. \A j \in GivenAt(a, t)' : j \in GivenAt(a, t) /\ presentations'[j] = presentations[j]
      BY <1>8 DEF GivenAt
    <2> QED
      BY <1>1, <2>1, <2>2 DEF Placed
  <1>12. PlacesBounded'
    BY <1>11, PlacedShrinks DEF PlacesBounded, BookingInv, ProgrammeInv
  <1> QED
    BY <1>9, <1>10, <1>12 DEF BookingInv

LEMMA ProgrammeKeepsBooking ==
  ASSUME ProgrammeInv, BookingInv, ProgrammeNext
  PROVE  BookingInv'
  <1>1. ASSUME NEW s \in Sessions,
               PublishSession(s) \/ \E w \in scenario.windows : CreateSession(s, w)
        PROVE  UNCHANGED <<presentations, scheduling>>
    BY <1>1 DEF PublishSession, CreateSession
  <1> QED
    BY <1>1, UnchangedQuietly, RequestsBeginQuietly, SpeakersQuietly, RemovesSpeakerQuietly,
       TestsBooking, CreatesPlaced, MovesPlaced, RemovesPlaced
    DEF ProgrammeNext, ContinueScheduling

LEMMA BookingStep ==
  ASSUME ProgrammeInv, BookingInv, [Next]_vars
  PROVE  BookingInv'
  <1>1. CASE ProgrammeNext
    BY <1>1, ProgrammeKeepsBooking
  <1>2. CASE UNCHANGED programmeVars
    BY <1>2, UnchangedQuietly DEF programmeVars
  <1> QED
    BY <1>1, <1>2, SubmissionsElsewhere, ReviewingElsewhere DEF Next, vars

LEMMA BookingBegins ==
  ASSUME Init
  PROVE  BookingInv
  <1>1. presentations = <<>> /\ scheduling = [p \in Requests |-> IdleScheduling]
    BY DEF Init, ProgrammeInit
  <1>2. Live = {}
    BY <1>1 DEF Live
  <1>3. ASSUME NEW a \in Abstracts, NEW t \in Nat
        PROVE  Cardinality(Placed(a, t)) <= Cardinality(Requests)
    <2>1. Placing(a, t) = {} /\ GivenAt(a, t) = {}
      BY <1>1, <1>2 DEF Placing, GivenAt, IdleScheduling, WriteSteps
    <2>2. Placed(a, t) = {}
      BY <2>1 DEF Placed
    <2>3. Cardinality(Placed(a, t)) = 0 /\ Cardinality(Requests) \in Nat
      BY <2>2, EditorialAssumption, FS_EmptySet, FS_CardinalityType
    <2> QED
      BY <2>3
  <1>4. \A r \in Requests : Matches(scheduling[r])
    BY <1>1, IdleIsQuiet DEF Quiet
  <1> QED
    BY <1>2, <1>3, <1>4 DEF BookingInv, OnePerSession, PlacesBounded

LEMMA BookingInvariance == Spec => []BookingInv
  <1>1. Init => BookingInv
    BY BookingBegins
  <1>2. ProgrammeInv /\ BookingInv /\ [Next]_vars => BookingInv'
    BY BookingStep
  <1> QED
    BY <1>1, <1>2, ProgrammeInvariance, PTL DEF Spec

(* Two requests may pass ScheduleConflictService's test together and put   *)
(* an abstract into two sessions at one time, but it is never in more      *)
(* sessions at one time than there are requests at work.                   *)
THEOREM DoubleBookingIsAlwaysBounded == Spec => []DoubleBookingIsBounded
  <1>1. ASSUME ProgrammeInv, BookingInv, NEW a \in Abstracts, NEW t \in Nat
        PROVE  Cardinality(GivenAt(a, t)) <= Cardinality(Requests)
    <2> DEFINE G == GivenAt(a, t)
               f == [i \in G |-> presentations[i].session]
               T == {presentations[i].session : i \in G}
    <2>1. Presented /\ T \subseteq Placed(a, t)
      BY <1>1 DEF ProgrammeInv, Placed
    <2>2. f \in Injection(G, T)
      <3>1. a # 0
        BY EditorialAssumption
      <3>2. ASSUME NEW i \in G, NEW j \in G, f[i] = f[j]
            PROVE  i = j
        <4>1. i \in Live /\ j \in Live /\ SameSlot(i, j)
          BY <3>1, <3>2 DEF GivenAt, SameSlot
        <4> QED
          BY <1>1, <4>1 DEF BookingInv, OnePerSession
      <3> QED
        BY <3>2 DEF Injection, IsInjective
    <2>3. IsFiniteSet(T)
      BY <2>1, PlacedFinite, FS_Subset
    <2>4. Cardinality(T) <= Cardinality(Requests)
      BY <1>1, <2>1, PlacedShrinks DEF BookingInv
    <2>5. Cardinality(G) \in Nat /\ Cardinality(T) \in Nat /\ Cardinality(Requests) \in Nat
      BY <2>1, <2>3, GivenFinite, EditorialAssumption, FS_CardinalityType
    <2> HIDE DEF G, f, T
    <2>6. Cardinality(G) <= Cardinality(T)
      BY <2>2, <2>3, FS_Injection
    <2>7. Cardinality(G) <= Cardinality(Requests)
      BY <2>4, <2>5, <2>6
    <2> QED
      BY <2>7 DEF G
  <1>2. \A w \in Windows : w.from \in Nat
    BY EditorialAssumption
  <1>3. ProgrammeInv /\ BookingInv => DoubleBookingIsBounded
    BY <1>1, <1>2 DEF DoubleBookingIsBounded
  <1> QED
    BY <1>3, ProgrammeInvariance, BookingInvariance, PTL

-----------------------------------------------------------------------------
(* The type invariant of the whole.                                        *)
THEOREM EditorialTypeCorrect == Spec => []TypeOK
  <1>1. SubmissionsInv => SubmissionsTypeOK
    BY DEF SubmissionsInv, Settings, Tables, Clicks, WizardType, Work, SubmissionsTypeOK
  <1>2. ReviewingInv => ReviewingTypeOK
    BY DEF ReviewingInv, Rows, ReviewingTypeOK
  <1>3. ProgrammeInv => ProgrammeTypeOK
    BY DEF ProgrammeInv, Programmed, Presented, Scheduled, ProgrammeTypeOK
  <1>4. SubmissionsInv /\ ReviewingInv /\ ProgrammeInv => TypeOK
    BY <1>1, <1>2, <1>3 DEF TypeOK
  <1> QED
    BY <1>4, SubmissionsInvariance, ReviewingInvariance, ProgrammeInvariance, PTL

-----------------------------------------------------------------------------
-----------------------------------------------------------------------------
(* Every request comes to an end: its measure, statement by statement.     *)

LEMMA WritingLeftAt ==
  ASSUME NEW q \in WritingStates
  PROVE  /\ WritingLeft(q) \in Nat
         /\ q.at = "idle" => WritingLeft(q) = 0
         /\ q.at # "idle" => WritingLeft(q) > 0
         /\ q.at \in {"insertVersion", "deleteAuthors"} => WritingLeft(q) = 2
         /\ q.at = "readVersion" => WritingLeft(q) = 3
         /\ q.at \in {"setCurrent", "createAuthors", "resubmit"} => WritingLeft(q) = 1
         /\ q.at = "assignNumber" =>
                WritingLeft(q) = IF q.attempts < MaxSubmissionNumberAttempts
                                 THEN MaxSubmissionNumberAttempts - q.attempts ELSE 1
         /\ q.at = "countNumbers" => WritingLeft(q) = MaxSubmissionNumberAttempts + 1
         /\ q.at = "countAuthors" => WritingLeft(q) = MaxSubmissionNumberAttempts + 2
         /\ q.at = "readForm" => WritingLeft(q) = MaxSubmissionNumberAttempts + 3
         /\ q.at = "readDeadline" => WritingLeft(q) = MaxSubmissionNumberAttempts + 4
  <1>1. /\ MaxSubmissionNumberAttempts \in Nat \ {0} /\ q.attempts \in Nat
        /\ q.at \in WritingSteps
    BY EditorialAssumption DEF WritingStates
  <1> QED
    BY <1>1 DEF WritingLeft, WritingSteps, SaveSteps, SubmitSteps

LEMMA WritingEnds ==
  ASSUME Work, NEW p \in Requests, Fail(p) \/ Succeed(p)
  PROVE  writing'[p] = IdleWriting
  BY DEF Work, Fail, Succeed, LeaveWizard

LEMMA WritingIsProgress ==
  ASSUME Work, Work', NEW p \in Requests, ContinueWriting(p)
  PROVE  WritingLeft(writing'[p]) < WritingLeft(writing[p])
  <1>1. PICK q \in WritingStates : q = writing[p]
    BY DEF Work
  <1>2. PICK o \in WritingStates : o = writing'[p]
    BY DEF Work
  <1>3. MaxSubmissionNumberAttempts \in Nat \ {0} /\ q.attempts \in Nat /\ o.attempts \in Nat
    BY EditorialAssumption DEF WritingStates
  <1>4. Fail(p) \/ Succeed(p) => o.at = "idle"
    BY <1>2, WritingEnds DEF IdleWriting
  <1>5. \A step : writing' = [writing EXCEPT ![p].at = step] => o.at = step
    BY <1>1, <1>2 DEF Work, WritingStates
  <1> DEFINE Shorter == WritingLeft(o) < WritingLeft(q)
  <1>6. ASSUME q.at # "idle", o.at = "idle" PROVE Shorter
    BY <1>6, WritingLeftAt
  <1> SUFFICES Shorter
    BY <1>1, <1>2
  <1> HIDE DEF Shorter
  <1>7. CASE ReadVersion(p)
    <2>1. q.at = "readVersion" /\ o.at = "insertVersion"
      <3> DEFINE n == IF versions[writing[p].abstract] = {} THEN 1
                      ELSE Greatest(Numbers(writing[p].abstract)) + 1
      <3>1. q.at = "readVersion"
              /\ writing' = [writing EXCEPT ![p].at = "insertVersion", ![p].number = n]
        BY <1>1, <1>7 DEF ReadVersion
      <3> HIDE DEF n
      <3> QED
        BY <1>1, <1>2, <3>1 DEF Work, WritingStates
    <2> QED
      BY <2>1, WritingLeftAt DEF Shorter
  <1>8. CASE InsertVersion(p) \/ SetCurrent(p)
    <2>1. InsertVersion(p) => q.at = "insertVersion" /\ o.at \in {"setCurrent", "idle"}
      BY <1>1, <1>4, <1>5 DEF InsertVersion
    <2>2. SetCurrent(p) => q.at = "setCurrent" /\ o.at = "idle"
      BY <1>1, <1>4 DEF SetCurrent
    <2> QED
      BY <1>6, <1>8, <2>1, <2>2, WritingLeftAt DEF Shorter
  <1>9. CASE ReadDeadline(p) \/ ReadForm(p) \/ CountAuthors(p)
    <2>1. ReadDeadline(p) => q.at = "readDeadline" /\ o.at \in {"readForm", "idle"}
      BY <1>1, <1>4, <1>5 DEF ReadDeadline
    <2>2. ReadForm(p) =>
              q.at = "readForm" /\ o.at \in {"countAuthors", "resubmit", "countNumbers", "idle"}
      BY <1>1, <1>4, <1>5 DEF ReadForm, AfterForm
    <2>3. CountAuthors(p) =>
              q.at = "countAuthors" /\ o.at \in {"resubmit", "countNumbers", "idle"}
      BY <1>1, <1>4, <1>5 DEF CountAuthors, AfterForm
    <2> QED
      BY <1>3, <1>6, <1>9, <2>1, <2>2, <2>3, WritingLeftAt DEF Shorter
  <1>10. CASE CountNumbers(p)
    <2>1. q.at = "countNumbers" /\ o.at = "assignNumber" /\ o.attempts = 0
      <3> DEFINE n == Cardinality({a \in Abstracts : number[a] # 0}) + 1
      <3>1. /\ q.at = "countNumbers"
            /\ writing' = [writing EXCEPT ![p].at = "assignNumber", ![p].attempts = 0,
                                          ![p].number = n]
        BY <1>1, <1>10 DEF CountNumbers
      <3> HIDE DEF n
      <3> QED
        BY <1>1, <1>2, <3>1 DEF Work, WritingStates
    <2> QED
      BY <1>3, <2>1, WritingLeftAt DEF Shorter
  <1>11. CASE AssignNumber(p)
    <2>1. /\ q.at = "assignNumber"
          /\ \/ o.at = "idle"
             \/ /\ q.attempts + 1 < MaxSubmissionNumberAttempts
                /\ o.at = "assignNumber" /\ o.attempts = q.attempts + 1
      <3>1. CASE writing' = [writing EXCEPT ![p].number = @ + 1,
                                            ![p].attempts = writing[p].attempts + 1]
        <4>1. o.at = q.at /\ o.attempts = q.attempts + 1
          BY <1>1, <1>2, <3>1 DEF Work, WritingStates
        <4> QED
          BY <1>1, <1>4, <1>11, <4>1 DEF AssignNumber
      <3>2. CASE Fail(p) \/ Succeed(p)
        BY <1>1, <1>4, <1>11, <3>2 DEF AssignNumber
      <3> QED
        BY <1>11, <3>1, <3>2 DEF AssignNumber
    <2> QED
      BY <1>3, <1>6, <2>1, WritingLeftAt DEF Shorter
  <1>12. CASE Resubmit(p) \/ UpdateWithdrawn(p) \/ UpdateStatus(p) \/ CreateAuthors(p)
    <2>1. q.at # "idle" /\ (Fail(p) \/ Succeed(p))
      BY <1>1, <1>12 DEF Resubmit, UpdateWithdrawn, UpdateStatus, CreateAuthors
    <2> QED
      BY <1>4, <1>6, <2>1
  <1>13. CASE DeleteAuthors(p)
    <2>1. q.at = "deleteAuthors" /\ o.at = "createAuthors"
      BY <1>1, <1>5, <1>13 DEF DeleteAuthors, StepWriting
    <2> QED
      BY <2>1, WritingLeftAt DEF Shorter
  <1> QED
    BY <1>7, <1>8, <1>9, <1>10, <1>11, <1>12, <1>13 DEF ContinueWriting

(* Whatever another request or the browser does, a request keeps the step  *)
(* it is at.                                                               *)
LEMMA WritingKept ==
  ASSUME Work, SubmissionsNext, NEW p \in Requests, writing[p] # IdleWriting,
         ~ContinueWriting(p)
  PROVE  \/ writing'[p] = IdleWriting
         \/ writing'[p].at = writing[p].at /\ writing'[p].attempts = writing[p].attempts
  <1> DEFINE Same == /\ writing'[p].at = writing[p].at
                     /\ writing'[p].attempts = writing[p].attempts
  <1>1. ASSUME NEW r \in Requests, BeginSubmission(r) PROVE Same
    <2>1. writing[r] = IdleWriting /\ \E new : writing' = [writing EXCEPT ![r] = new]
      BY <1>1 DEF BeginSubmission, SaveVersion, Submit, ForceSubmit, Withdraw, SetAuthors,
                  RecordDecision, RequestRevision, WizardSave, WizardSetAuthors, WizardSubmit,
                  Save, SaveAuthors, BeginSubmit, BeginWriting
    <2> QED
      BY <2>1 DEF Work
  <1>2. ASSUME NEW r \in Requests \ {p}, Fail(r) \/ Succeed(r) PROVE Same
    BY <1>2 DEF Fail, Succeed, LeaveWizard, Work, WritingStates
  <1>3. ASSUME NEW r \in Requests \ {p}, ContinueWriting(r) PROVE Same
    <2>1. ReadVersion(r) \/ InsertVersion(r) \/ SetCurrent(r) => Same
      BY <1>2 DEF ReadVersion, InsertVersion, SetCurrent, Work
    <2>2. ReadDeadline(r) \/ ReadForm(r) \/ CountAuthors(r) \/ Resubmit(r) => Same
      BY <1>2 DEF ReadDeadline, ReadForm, CountAuthors, Resubmit, Work
    <2>3. CountNumbers(r) \/ AssignNumber(r) => Same
      BY <1>2 DEF CountNumbers, AssignNumber, Work
    <2>4. UpdateWithdrawn(r) \/ DeleteAuthors(r) \/ CreateAuthors(r) \/ UpdateStatus(r) => Same
      BY <1>2 DEF UpdateWithdrawn, DeleteAuthors, StepWriting, CreateAuthors, UpdateStatus, Work
    <2> QED
      BY <1>3, <2>1, <2>2, <2>3, <2>4 DEF ContinueWriting
  <1>4. ASSUME NEW r \in Requests, AbortWriting(r) PROVE writing'[p] = IdleWriting \/ Same
    BY <1>4 DEF AbortWriting, Fail, Work
  <1>5. ASSUME NEW a \in Abstracts \cup {0}, WizardReload(a) PROVE Same
    BY <1>5 DEF WizardReload, Work, WritingStates
  <1>6. ASSUME \/ \E a \in Abstracts : CreateDraft(a)
               \/ WizardBasicsNext \/ WizardBack
               \/ \E name \in DOMAIN settings : ChangeSetting(name)
        PROVE  Same
    BY <1>6 DEF CreateDraft, WizardBasicsNext, WizardBack, ChangeSetting, Draft, Go
  <1> QED
    BY <1>1, <1>3, <1>4, <1>5, <1>6 DEF SubmissionsNext

LEMMA WritingIsKept ==
  ASSUME SubmissionsInv, SubmissionsInv', [Next]_vars, NEW p \in Requests,
         writing[p] # IdleWriting
  PROVE  WritingLeft(writing'[p]) <= WritingLeft(writing[p])
  <1>1. PICK q \in WritingStates : q = writing[p]
    BY DEF SubmissionsInv, Work
  <1>2. PICK o \in WritingStates : o = writing'[p]
    BY DEF SubmissionsInv, Work
  <1>3. CASE UNCHANGED writing
    BY <1>1, <1>3, WritingLeftAt
  <1>4. CASE ContinueWriting(p)
    <2>1. WritingLeft(o) < WritingLeft(q)
      BY <1>1, <1>2, <1>4, WritingIsProgress DEF SubmissionsInv
    <2> QED
      BY <1>1, <1>2, <2>1, WritingLeftAt
  <1>5. CASE SubmissionsNext /\ ~ContinueWriting(p)
    <2>1. o.at = "idle" \/ (o.at = q.at /\ o.attempts = q.attempts)
      BY <1>1, <1>2, <1>5, WritingKept DEF SubmissionsInv, IdleWriting
    <2>2. o.at = q.at /\ o.attempts = q.attempts => WritingLeft(o) = WritingLeft(q)
      BY DEF WritingLeft
    <2> QED
      BY <1>1, <1>2, <2>1, <2>2, WritingLeftAt
  <1> QED
    BY <1>3, <1>4, <1>5, ReviewingElsewhere, ProgrammeElsewhere DEF Next, vars, submissionVars

(* The requests to the programme: the speakers of a list are finitely many.*)
LEMMA SchedulingLeftAt ==
  ASSUME IsFiniteSet(Speakers), NEW q \in SchedulingStates
  PROVE  /\ IsFiniteSet(q.todo) /\ Cardinality(q.todo) \in Nat
         /\ SchedulingLeft(q) \in Nat
         /\ q.at = "idle" => SchedulingLeft(q) = 0
         /\ q.at # "idle" => SchedulingLeft(q) > 0
         /\ q.at \in {"createPresentation", "updatePresentation", "countVersion", "commitRoles"}
                => SchedulingLeft(q) = 1
         /\ q.at \in {"doubleBooking", "updateSession", "deleteRoles"} => SchedulingLeft(q) = 2
         /\ q.at = "speakerOverlap" => SchedulingLeft(q) = 3 + Cardinality(q.todo)
  <1>1. IsFiniteSet(q.todo) /\ Cardinality(q.todo) \in Nat /\ q.at \in SchedulingSteps
    BY FS_Subset, FS_CardinalityType DEF SchedulingStates
  <1> QED
    BY <1>1 DEF SchedulingLeft, SchedulingSteps

LEMMA SchedulingIsProgress ==
  ASSUME IsFiniteSet(Speakers), Scheduled, Scheduled', NEW p \in Requests, ContinueScheduling(p)
  PROVE  SchedulingLeft(scheduling'[p]) < SchedulingLeft(scheduling[p])
  <1>1. PICK q \in SchedulingStates : q = scheduling[p]
    BY DEF Scheduled
  <1>2. PICK o \in SchedulingStates : o = scheduling'[p]
    BY DEF Scheduled
  <1>3. RespondScheduling(p) => o.at = "idle"
    BY <1>2 DEF Scheduled, RespondScheduling, IdleScheduling
  <1>4. \A step : GotoScheduling(p, step) => o.at = step
    BY <1>1, <1>2 DEF Scheduled, SchedulingStates, GotoScheduling
  <1> DEFINE Shorter == SchedulingLeft(o) < SchedulingLeft(q)
  <1>5. ASSUME q.at # "idle", o.at = "idle" PROVE Shorter
    BY <1>5, SchedulingLeftAt
  <1> SUFFICES Shorter
    BY <1>1, <1>2
  <1> HIDE DEF Shorter
  <1>6. CASE SetSessionWindow(p)
    <2>1. q.at = "updateSession" /\ o.at \in {"countVersion", "idle"}
      BY <1>1, <1>3, <1>4, <1>6 DEF SetSessionWindow
    <2> QED
      BY <1>5, <2>1, SchedulingLeftAt DEF Shorter
  <1>7. CASE CountScheduleVersion(p) \/ CommitRoles(p) \/ CreatePresentation(p)
                 \/ SetPresentationWindow(p)
    <2>1. q.at # "idle" /\ RespondScheduling(p)
      BY <1>1, <1>7 DEF CountScheduleVersion, CommitRoles, CreatePresentation,
                        SetPresentationWindow
    <2> QED
      BY <1>3, <1>5, <2>1
  <1>8. CASE CheckSpeaker(p)
    <2>1. q.at = "speakerOverlap"
      BY <1>1, <1>8 DEF CheckSpeaker
    <2>2. CASE GotoScheduling(p, "deleteRoles") \/ RespondScheduling(p)
      BY <1>3, <1>4, <1>5, <2>1, <2>2, SchedulingLeftAt DEF Shorter
    <2>3. ASSUME NEW x \in q.todo, scheduling' = [scheduling EXCEPT ![p].todo = @ \ {x}]
          PROVE  Shorter
      <3>1. o.at = q.at /\ o.todo = q.todo \ {x}
        BY <1>1, <1>2, <2>3 DEF Scheduled, SchedulingStates
      <3>2. IsFiniteSet(q.todo) /\ Cardinality(q.todo) \in Nat
        BY SchedulingLeftAt
      <3>3. Cardinality(o.todo) = Cardinality(q.todo) - 1
        BY <3>1, <3>2, FS_RemoveElement
      <3>4. /\ SchedulingLeft(q) = 3 + Cardinality(q.todo)
            /\ SchedulingLeft(o) = 3 + Cardinality(o.todo)
        BY <2>1, <3>1, SchedulingLeftAt
      <3> QED
        BY <3>2, <3>3, <3>4 DEF Shorter
    <2> QED
      BY <1>1, <1>8, <2>2, <2>3 DEF CheckSpeaker
  <1>9. CASE DeleteRoles(p)
    <2>1. q.at = "deleteRoles" /\ o.at = "commitRoles"
      <3> DEFINE seen == roles[scheduling[p].session]
      <3>1. /\ q.at = "deleteRoles"
            /\ scheduling' = [scheduling EXCEPT ![p].at = "commitRoles", ![p].seen = seen]
        BY <1>1, <1>9 DEF DeleteRoles
      <3> HIDE DEF seen
      <3> QED
        BY <1>1, <1>2, <3>1 DEF Scheduled, SchedulingStates
    <2> QED
      BY <2>1, SchedulingLeftAt DEF Shorter
  <1>10. CASE CheckDoubleBooking(p)
    <2>1. q.at = "doubleBooking" /\ o.at \in {"idle", "createPresentation", "updatePresentation"}
      BY <1>1, <1>3, <1>4, <1>10 DEF CheckDoubleBooking
    <2> QED
      BY <1>5, <2>1, SchedulingLeftAt DEF Shorter
  <1> QED
    BY <1>6, <1>7, <1>8, <1>9, <1>10 DEF ContinueScheduling

LEMMA SchedulingKept ==
  ASSUME Scheduled, ProgrammeNext, NEW p \in Requests, scheduling[p] # IdleScheduling,
         ~ContinueScheduling(p)
  PROVE  scheduling'[p] \in {IdleScheduling, scheduling[p]}
  <1>1. ASSUME NEW r \in Requests, BeginSchedule(r) PROVE scheduling'[p] = scheduling[p]
    <2>1. scheduling[r] = IdleScheduling /\ \E new : scheduling' = [scheduling EXCEPT ![r] = new]
      BY <1>1 DEF BeginSchedule, UpdateSession, AssignSpeakers, AssignPresentation,
                  UpdatePresentation, BeginScheduling
    <2> QED
      BY <2>1 DEF Scheduled
  <1>2. ASSUME NEW r \in Requests \ {p}, ContinueScheduling(r)
        PROVE  scheduling'[p] = scheduling[p]
    <2>1. RespondScheduling(r) \/ (\E step : GotoScheduling(r, step))
             => scheduling'[p] = scheduling[p]
      BY DEF RespondScheduling, GotoScheduling, Scheduled
    <2>2. CheckSpeaker(r) \/ DeleteRoles(r) => scheduling'[p] = scheduling[p]
      BY <2>1 DEF CheckSpeaker, DeleteRoles, Scheduled
    <2> QED
      BY <1>2, <2>1, <2>2
      DEF ContinueScheduling, SetSessionWindow, CountScheduleVersion, CommitRoles,
          CheckDoubleBooking, CreatePresentation, SetPresentationWindow
  <1>3. ASSUME NEW r \in Requests, AbortScheduling(r)
        PROVE  scheduling'[p] \in {IdleScheduling, scheduling[p]}
    BY <1>3 DEF AbortScheduling, RespondScheduling, Scheduled
  <1>4. ASSUME NEW x \in Speakers, RemoveSpeaker(x)
        PROVE  scheduling'[p] \in {IdleScheduling, scheduling[p]}
    BY <1>4 DEF RemoveSpeaker
  <1>5. ASSUME \/ \E s \in Sessions : PublishSession(s) \/ \E w \in scenario.windows : CreateSession(s, w)
               \/ \E i \in DOMAIN presentations : RemovePresentation(i)
        PROVE  UNCHANGED scheduling
    BY <1>5 DEF PublishSession, CreateSession, RemovePresentation
  <1> QED
    BY <1>1, <1>2, <1>3, <1>4, <1>5 DEF ProgrammeNext

LEMMA SchedulingIsKept ==
  ASSUME IsFiniteSet(Speakers), ProgrammeInv, ProgrammeInv', [Next]_vars, NEW p \in Requests,
         scheduling[p] # IdleScheduling
  PROVE  SchedulingLeft(scheduling'[p]) <= SchedulingLeft(scheduling[p])
  <1>1. PICK q \in SchedulingStates : q = scheduling[p]
    BY DEF ProgrammeInv, Scheduled
  <1>2. PICK o \in SchedulingStates : o = scheduling'[p]
    BY DEF ProgrammeInv, Scheduled
  <1>3. CASE ContinueScheduling(p)
    <2>1. SchedulingLeft(o) < SchedulingLeft(q)
      BY <1>1, <1>2, <1>3, SchedulingIsProgress DEF ProgrammeInv
    <2> QED
      BY <1>1, <1>2, <2>1, SchedulingLeftAt
  <1>4. CASE UNCHANGED scheduling \/ (ProgrammeNext /\ ~ContinueScheduling(p))
    <2>1. o \in {IdleScheduling, q}
      <3>1. UNCHANGED scheduling => o = q
        BY <1>1, <1>2
      <3>2. ProgrammeNext /\ ~ContinueScheduling(p) => o \in {IdleScheduling, q}
        BY <1>1, <1>2, SchedulingKept DEF ProgrammeInv
      <3> QED
        BY <1>4, <3>1, <3>2
    <2>2. o = q \/ o.at = "idle"
      BY <2>1, IdleSchedulingPlanned
    <2> QED
      BY <1>1, <1>2, <2>2, SchedulingLeftAt
  <1> QED
    BY <1>3, <1>4, SubmissionsElsewhere, ReviewingElsewhere DEF Next, vars, programmeVars

(* The requests to the reviewers: abstracts and reviewers are finitely many*)
Later(q) == StatementsPerAbstract * Cardinality(q.todo)

LEMMA ReviewersCount ==
  /\ Cardinality(Reviewers) \in Nat /\ Cardinality(Abstracts) \in Nat
  /\ StatementsPerAbstract \in Nat
  /\ StatementsPerAbstract = 2 * Cardinality(Reviewers) + 3
  BY EditorialAssumption, FS_CardinalityType DEF StatementsPerAbstract

LEMMA PartCount ==
  ASSUME NEW S \in SUBSET Reviewers
  PROVE  /\ IsFiniteSet(S) /\ Cardinality(S) \in Nat
         /\ Cardinality(S) <= Cardinality(Reviewers)
         /\ S # {} => Cardinality(S) > 0
  <1>1. /\ IsFiniteSet(S) /\ Cardinality(S) \in Nat
        /\ Cardinality(S) <= Cardinality(Reviewers)
    BY EditorialAssumption, FS_Subset, FS_CardinalityType
  <1>2. S # {} => Cardinality(S) # 0
    BY <1>1, FS_EmptySet
  <1> QED
    BY <1>1, <1>2

LEMMA LaterCount ==
  ASSUME NEW q \in ReviewingStates
  PROVE  /\ Later(q) \in Nat
         /\ Later(q) <= StatementsPerAbstract * Cardinality(Abstracts)
  <1>1. /\ Cardinality(q.todo) \in Nat /\ Cardinality(q.todo) <= Cardinality(Abstracts)
    BY EditorialAssumption, FS_Subset, FS_CardinalityType DEF ReviewingStates
  <1>2. ASSUME NEW w \in Nat, NEW m \in Nat, NEW n \in Nat, m <= n
        PROVE  w * m \in Nat /\ w * m <= w * n
    BY <1>2
  <1> QED
    BY <1>1, <1>2, ReviewersCount DEF Later

LEMMA LaterLess ==
  ASSUME NEW q \in ReviewingStates, NEW o \in ReviewingStates, NEW a \in q.todo,
         o.todo = q.todo \ {a}
  PROVE  Later(o) + StatementsPerAbstract = Later(q)
  <1>1. IsFiniteSet(q.todo)
    BY EditorialAssumption, FS_Subset DEF ReviewingStates
  <1>2. Cardinality(q.todo) \in Nat /\ Cardinality(o.todo) = Cardinality(q.todo) - 1
    BY <1>1, FS_CardinalityType, FS_RemoveElement
  <1>3. ASSUME NEW w \in Nat, NEW n \in Nat PROVE w * (n - 1) + w = w * n
    OBVIOUS
  <1> QED
    BY <1>2, <1>3, ReviewersCount DEF Later

LEMMA ReviewingLeftAt ==
  ASSUME NEW q \in ReviewingStates
  PROVE  /\ ReviewingLeft(q) \in Nat
         /\ q.at = "idle" => ReviewingLeft(q) = 0
         /\ q.at # "idle" => ReviewingLeft(q) > 0
         /\ q.at \in {"create", "createSuccessor", "complete"} => ReviewingLeft(q) = 1
         /\ q.at \in {"checkAssign", "cancelOld", "insertReview"} => ReviewingLeft(q) = 2
         /\ q.at = "checkReassign" => ReviewingLeft(q) = 3
         /\ q.at = "nextAbstract" => ReviewingLeft(q) = Later(q) + 1
         /\ q.at = "createAuto" => ReviewingLeft(q) = Later(q) + 1 + Cardinality(q.chosen)
         /\ q.at = "selectReviewers" => ReviewingLeft(q) = Later(q) + 2 + Cardinality(Reviewers)
         /\ q.at = "checkCandidate" =>
                ReviewingLeft(q) = Later(q) + 3 + Cardinality(Reviewers) + Cardinality(q.unchecked)
         /\ q.at = "readAssignments" => ReviewingLeft(q) = Later(q) + 2
  <1> DEFINE all == StatementsPerAbstract * Cardinality(Abstracts)
  <1>1. /\ Later(q) \in Nat /\ all \in Nat
        /\ Cardinality(q.chosen) \in Nat /\ Cardinality(q.unchecked) \in Nat
        /\ Cardinality(Reviewers) \in Nat /\ q.at \in ReviewingSteps
    <2>1. all \in Nat
      BY ReviewersCount
    <2>2. q.chosen \in SUBSET Reviewers /\ q.unchecked \in SUBSET Reviewers
          /\ q.at \in ReviewingSteps
      BY DEF ReviewingStates
    <2> HIDE DEF all
    <2> QED
      BY <2>1, <2>2, LaterCount, PartCount, ReviewersCount
  <1>2. ReviewingLeft(q) =
            CASE q.at = "idle" -> 0
              [] q.at \in {"create", "createSuccessor", "complete"} -> 1
              [] q.at \in {"checkAssign", "cancelOld", "insertReview"} -> 2
              [] q.at = "checkReassign" -> 3
              [] q.at = "nextAbstract" -> Later(q) + 1
              [] q.at = "createAuto" -> Later(q) + 1 + Cardinality(q.chosen)
              [] q.at = "selectReviewers" -> Later(q) + 2 + Cardinality(Reviewers)
              [] q.at = "checkCandidate" ->
                     Later(q) + 3 + Cardinality(Reviewers) + Cardinality(q.unchecked)
              [] q.at = "readAssignments" -> Later(q) + 2
              [] q.at = "readAbstracts" -> all + 3
    BY DEF ReviewingLeft, Later
  <1> HIDE DEF all
  <1>3. /\ ReviewingLeft(q) \in Nat
        /\ q.at = "idle" => ReviewingLeft(q) = 0
        /\ q.at # "idle" => ReviewingLeft(q) > 0
    BY <1>1, <1>2 DEF ReviewingSteps, AutoSteps
  <1>4. /\ q.at \in {"create", "createSuccessor", "complete"} => ReviewingLeft(q) = 1
        /\ q.at \in {"checkAssign", "cancelOld", "insertReview"} => ReviewingLeft(q) = 2
        /\ q.at = "checkReassign" => ReviewingLeft(q) = 3
        /\ q.at = "nextAbstract" => ReviewingLeft(q) = Later(q) + 1
        /\ q.at = "createAuto" => ReviewingLeft(q) = Later(q) + 1 + Cardinality(q.chosen)
    BY <1>2
  <1>5. /\ q.at = "selectReviewers" => ReviewingLeft(q) = Later(q) + 2 + Cardinality(Reviewers)
        /\ q.at = "checkCandidate" =>
               ReviewingLeft(q) = Later(q) + 3 + Cardinality(Reviewers) + Cardinality(q.unchecked)
        /\ q.at = "readAssignments" => ReviewingLeft(q) = Later(q) + 2
    BY <1>2
  <1> QED
    BY <1>3, <1>4, <1>5

LEMMA ReadAbstractsLeft ==
  ASSUME NEW q \in ReviewingStates, q.at = "readAbstracts"
  PROVE  ReviewingLeft(q) = StatementsPerAbstract * Cardinality(Abstracts) + 3
  BY DEF ReviewingLeft

LEMMA ReviewingGoes ==
  ASSUME NEW p \in Requests, NEW q \in ReviewingStates, q = reviewing[p],
         reviewing \in [Requests -> ReviewingStates], NEW step, GotoReviewing(p, step)
  PROVE  /\ reviewing'[p].at = step /\ reviewing'[p].todo = q.todo
         /\ reviewing'[p].unchecked = q.unchecked /\ reviewing'[p].chosen = q.chosen
  BY DEF GotoReviewing, ReviewingStates

LEMMA ByHandIsProgress ==
  ASSUME ReviewingInv, ReviewingInv', NEW p \in Requests,
         \/ CheckAssign(p) \/ CreateAssignment(p) \/ CheckReassign(p) \/ CancelOld(p)
         \/ CreateSuccessor(p) \/ InsertReview(p) \/ Complete(p)
  PROVE  ReviewingLeft(reviewing'[p]) < ReviewingLeft(reviewing[p])
  <1>1. PICK q \in ReviewingStates : q = reviewing[p]
    BY DEF ReviewingInv
  <1>2. PICK o \in ReviewingStates : o = reviewing'[p]
    BY DEF ReviewingInv
  <1>3. /\ RespondReviewing(p) => o.at = "idle"
        /\ \A step : GotoReviewing(p, step) => o.at = step
    BY <1>1, <1>2, ReviewingGoes DEF RespondReviewing, IdleReviewing, ReviewingInv
  <1>4. CheckAssign(p) => q.at = "checkAssign" /\ o.at \in {"idle", "create"}
    BY <1>1, <1>3 DEF CheckAssign, Check
  <1>5. CheckReassign(p) => q.at = "checkReassign" /\ o.at \in {"idle", "cancelOld"}
    BY <1>1, <1>3 DEF CheckReassign, Check
  <1>6. CancelOld(p) => q.at = "cancelOld" /\ o.at = "createSuccessor"
    BY <1>1, <1>3 DEF CancelOld
  <1>7. InsertReview(p) => q.at = "insertReview" /\ o.at \in {"idle", "complete"}
    BY <1>1, <1>3 DEF InsertReview
  <1>8. CreateAssignment(p) \/ CreateSuccessor(p) \/ Complete(p) => q.at # "idle" /\ o.at = "idle"
    BY <1>1, <1>3 DEF CreateAssignment, CreateSuccessor, Complete
  <1>9. ReviewingLeft(o) < ReviewingLeft(q)
    BY <1>4, <1>5, <1>6, <1>7, <1>8, ReviewingLeftAt
  <1> QED
    BY <1>1, <1>2, <1>9

LEMMA ReadAbstractsIsProgress ==
  ASSUME NEW p \in Requests, NEW q \in ReviewingStates, q = reviewing[p],
         reviewing \in [Requests -> ReviewingStates],
         NEW o \in ReviewingStates, o = reviewing'[p], ReadAbstracts(p)
  PROVE  ReviewingLeft(o) < ReviewingLeft(q)
  <1>1. q.at = "readAbstracts"
    BY DEF ReadAbstracts
  <1>2. CASE RespondReviewing(p)
    <2>1. o.at = "idle"
      BY <1>2 DEF RespondReviewing, IdleReviewing
    <2> QED
      BY <1>1, <2>1, ReviewingLeftAt
  <1>3. CASE ~RespondReviewing(p)
    <2>1. o.at = "readAssignments"
      <3> DEFINE eligible == {a \in Abstracts : status[a] \notin {"NONE", "DRAFT", "WITHDRAWN"}}
      <3>1. reviewing' = [reviewing EXCEPT ![p].at = "readAssignments", ![p].todo = eligible]
        BY <1>3 DEF ReadAbstracts
      <3> HIDE DEF eligible
      <3> QED
        BY <3>1 DEF ReviewingStates
    <2>2. /\ ReviewingLeft(q) = StatementsPerAbstract * Cardinality(Abstracts) + 3
          /\ ReviewingLeft(o) = Later(o) + 2
      BY <1>1, <2>1, ReviewingLeftAt, ReadAbstractsLeft
    <2> DEFINE all == StatementsPerAbstract * Cardinality(Abstracts)
    <2>3. all \in Nat /\ Later(o) \in Nat /\ Later(o) <= all
      BY LaterCount, ReviewersCount
    <2> HIDE DEF all
    <2> QED
      BY <2>2, <2>3 DEF all
  <1> QED
    BY <1>2, <1>3

LEMMA ReadAssignmentsIsProgress ==
  ASSUME NEW p \in Requests, NEW q \in ReviewingStates, q = reviewing[p],
         reviewing \in [Requests -> ReviewingStates],
         NEW o \in ReviewingStates, o = reviewing'[p], ReadAssignments(p)
  PROVE  ReviewingLeft(o) < ReviewingLeft(q)
  <1> DEFINE pairs == {<<assignments[i].abstract, assignments[i].reviewer>> : i \in Counted}
             load == [r \in Reviewers |-> Cardinality({i \in Counted : assignments[i].reviewer = r})]
             fair == Counted = {}
  <1>1. /\ q.at = "readAssignments"
        /\ reviewing' = [reviewing EXCEPT ![p].at = "nextAbstract", ![p].pairs = pairs,
                                          ![p].load = load, ![p].fair = fair]
    BY DEF ReadAssignments
  <1> HIDE DEF pairs, load, fair
  <1>2. o.at = "nextAbstract" /\ o.todo = q.todo
    BY <1>1 DEF ReviewingStates
  <1>3. Later(o) = Later(q) /\ Later(q) \in Nat
    BY <1>2, LaterCount DEF Later
  <1>4. ReviewingLeft(q) = Later(q) + 2 /\ ReviewingLeft(o) = Later(o) + 1
    BY <1>1, <1>2, ReviewingLeftAt, Zenon
  <1> QED
    BY <1>3, <1>4

LEMMA NextAbstractIsProgress ==
  ASSUME NEW p \in Requests, NEW q \in ReviewingStates, q = reviewing[p],
         reviewing \in [Requests -> ReviewingStates],
         NEW o \in ReviewingStates, o = reviewing'[p], NextAbstract(p)
  PROVE  ReviewingLeft(o) < ReviewingLeft(q)
  <1>1. q.at = "nextAbstract"
    BY DEF NextAbstract
  <1>2. CASE q.todo = {}
    <2>1. o.at = "idle"
      BY <1>2 DEF NextAbstract, RespondReviewing, IdleReviewing
    <2> QED
      BY <1>1, <2>1, ReviewingLeftAt
  <1>3. CASE q.todo # {}
    <2>1. q.todo \subseteq Nat
      BY EditorialAssumption DEF ReviewingStates
    <2>2. PICK a \in q.todo : a = Least(q.todo)
      BY <1>3, <2>1, LeastOf
    <2>3. \E f : \/ reviewing' = [reviewing EXCEPT ![p].todo = @ \ {a}]
                 \/ reviewing' = [reviewing EXCEPT
                        ![p].at = "checkCandidate", ![p].todo = @ \ {a}, ![p].abstract = a,
                        ![p].unchecked = f, ![p].candidates = {}]
      <3> DEFINE first == Least(reviewing[p].todo)
                 fresh == {r \in reviewing[p].pool : <<first, r>> \notin reviewing[p].pairs}
      <3>1. reviewing[p].todo # {}
        BY <1>3
      <3>2. \/ reviewing' = [reviewing EXCEPT ![p].todo = @ \ {first}]
            \/ reviewing' = [reviewing EXCEPT
                   ![p].at = "checkCandidate", ![p].todo = @ \ {first}, ![p].abstract = first,
                   ![p].unchecked = fresh, ![p].candidates = {}]
        BY <3>1, Zenon DEF NextAbstract
      <3>3. first = a
        BY <2>2
      <3> HIDE DEF first, fresh
      <3> QED
        BY <3>2, <3>3
    <2>4. o.todo = q.todo \ {a} /\ o.at \in {"nextAbstract", "checkCandidate"}
      BY <1>1, <2>3 DEF ReviewingStates
    <2>5. Later(o) + StatementsPerAbstract = Later(q) /\ Later(o) \in Nat
      BY <2>4, LaterLess, LaterCount
    <2>6. Cardinality(o.unchecked) \in Nat /\ Cardinality(o.unchecked) <= Cardinality(Reviewers)
      <3>1. o.unchecked \in SUBSET Reviewers
        BY DEF ReviewingStates
      <3> QED
        BY <3>1, PartCount
    <2>7. ReviewingLeft(q) = Later(q) + 1
      BY <1>1, ReviewingLeftAt
    <2>8. \/ ReviewingLeft(o) = Later(o) + 1
          \/ ReviewingLeft(o) = Later(o) + 3 + Cardinality(Reviewers) + Cardinality(o.unchecked)
      BY <2>4, ReviewingLeftAt
    <2> QED
      BY <2>5, <2>6, <2>7, <2>8, ReviewersCount
  <1> QED
    BY <1>2, <1>3

LEMMA CheckCandidateIsProgress ==
  ASSUME NEW p \in Requests, NEW q \in ReviewingStates, q = reviewing[p],
         reviewing \in [Requests -> ReviewingStates],
         NEW o \in ReviewingStates, o = reviewing'[p], CheckCandidate(p)
  PROVE  ReviewingLeft(o) < ReviewingLeft(q)
  <1>1. q.at = "checkCandidate"
    BY DEF CheckCandidate
  <1>2. q.unchecked \in SUBSET Reviewers /\ q.unchecked \subseteq Nat
    BY EditorialAssumption DEF ReviewingStates
  <1>3. CASE q.unchecked = {}
    <2>1. GotoReviewing(p, "selectReviewers")
      BY <1>3 DEF CheckCandidate
    <2>2. o.at = "selectReviewers" /\ o.todo = q.todo
      BY <2>1, ReviewingGoes
    <2>3. Later(o) = Later(q) /\ Later(q) \in Nat
      BY <2>2, LaterCount DEF Later
    <2>4. Cardinality(q.unchecked) \in Nat /\ Cardinality(Reviewers) \in Nat
      BY <1>2, PartCount, ReviewersCount
    <2> QED
      BY <1>1, <2>2, <2>3, <2>4, ReviewingLeftAt
  <1>4. CASE q.unchecked # {}
    <2>1. PICK r \in q.unchecked : r = Least(q.unchecked)
      BY <1>2, <1>4, LeastOf
    <2>2. \E c, f : reviewing' = [reviewing EXCEPT ![p].unchecked = @ \ {r},
                                      ![p].candidates = c, ![p].fair = f]
      <3> DEFINE conflict == HasConflict(r, q.abstract)
                 c == IF conflict THEN q.candidates ELSE q.candidates \cup {r}
                 f == q.fair /\ ~conflict
      <3>1. reviewing' = [reviewing EXCEPT ![p].unchecked = @ \ {r}, ![p].candidates = c,
                                           ![p].fair = f]
        BY <1>4, <2>1, Zenon DEF CheckCandidate
      <3> HIDE DEF c, f
      <3> QED
        BY <3>1
    <2>3. o.at = q.at /\ o.todo = q.todo /\ o.unchecked = q.unchecked \ {r}
      BY <2>2 DEF ReviewingStates
    <2>4. Later(o) = Later(q) /\ Later(q) \in Nat
      BY <2>3, LaterCount DEF Later
    <2>5. IsFiniteSet(q.unchecked) /\ Cardinality(q.unchecked) \in Nat
      BY <1>2, PartCount
    <2>6. Cardinality(o.unchecked) = Cardinality(q.unchecked) - 1
      BY <2>3, <2>5, FS_RemoveElement
    <2>7. /\ ReviewingLeft(q) = Later(q) + 3 + Cardinality(Reviewers) + Cardinality(q.unchecked)
          /\ ReviewingLeft(o) = Later(o) + 3 + Cardinality(Reviewers) + Cardinality(o.unchecked)
      BY <1>1, <2>3, ReviewingLeftAt
    <2> QED
      BY <2>4, <2>5, <2>6, <2>7, ReviewersCount
  <1> QED
    BY <1>3, <1>4

LEMMA SelectReviewersIsProgress ==
  ASSUME NEW p \in Requests, NEW q \in ReviewingStates, q = reviewing[p],
         reviewing \in [Requests -> ReviewingStates],
         NEW o \in ReviewingStates, o = reviewing'[p], SelectReviewers(p)
  PROVE  ReviewingLeft(o) < ReviewingLeft(q)
  <1>1. q.at = "selectReviewers"
    BY DEF SelectReviewers
  <1>2. \E c, step : /\ step \in {"nextAbstract", "createAuto"}
                     /\ reviewing' = [reviewing EXCEPT ![p].chosen = c, ![p].at = step]
    <2> DEFINE slots == scenario.perAbstract - Cardinality(AssignedTo(p, reviewing[p].abstract))
               c == {r \in reviewing[p].candidates :
                       Cardinality({s \in reviewing[p].candidates :
                                       Before(reviewing[p].load, s, r)}) < slots}
               step == IF c = {} THEN "nextAbstract" ELSE "createAuto"
    <2>1. reviewing' = [reviewing EXCEPT ![p].chosen = c, ![p].at = step]
      BY DEF SelectReviewers
    <2>2. step \in {"nextAbstract", "createAuto"}
      OBVIOUS
    <2> HIDE DEF c, step
    <2> QED
      BY <2>1, <2>2
  <1>3. o.at \in {"nextAbstract", "createAuto"} /\ o.todo = q.todo
    BY <1>2 DEF ReviewingStates
  <1>4. Later(o) = Later(q) /\ Later(q) \in Nat
    BY <1>3, LaterCount DEF Later
  <1>5. Cardinality(o.chosen) \in Nat /\ Cardinality(o.chosen) <= Cardinality(Reviewers)
    <2>1. o.chosen \in SUBSET Reviewers
      BY DEF ReviewingStates
    <2> QED
      BY <2>1, PartCount
  <1>6. ReviewingLeft(q) = Later(q) + 2 + Cardinality(Reviewers)
    BY <1>1, ReviewingLeftAt
  <1>7. ReviewingLeft(o) \in {Later(o) + 1, Later(o) + 1 + Cardinality(o.chosen)}
    BY <1>3, ReviewingLeftAt
  <1> QED
    BY <1>4, <1>5, <1>6, <1>7, ReviewersCount

LEMMA CreateAutoIsProgress ==
  ASSUME NEW p \in Requests, NEW q \in ReviewingStates, q = reviewing[p], Doing(q),
         reviewing \in [Requests -> ReviewingStates],
         NEW o \in ReviewingStates, o = reviewing'[p], CreateAuto(p)
  PROVE  ReviewingLeft(o) < ReviewingLeft(q)
  <1>1. q.at = "createAuto" /\ q.chosen # {}
    BY DEF CreateAuto, Doing
  <1>2. q.chosen \in SUBSET Reviewers /\ q.load \in [Reviewers -> Nat]
    BY DEF ReviewingStates
  <1> DEFINE first == CHOOSE c \in q.chosen : \A s \in q.chosen \ {c} : Before(q.load, c, s)
  <1>3. PICK r \in q.chosen : r = first
    BY <1>1, <1>2, FirstReviewer
  <1>4. \E a, b, step : /\ step \in {"nextAbstract", "createAuto"}
                        /\ reviewing' = [reviewing EXCEPT ![p].pairs = a, ![p].load = b,
                                             ![p].chosen = @ \ {r}, ![p].at = step]
    <2> DEFINE a == q.pairs \cup {<<q.abstract, r>>}
               b == [q.load EXCEPT ![r] = @ + 1]
               step == IF q.chosen = {r} THEN "nextAbstract" ELSE "createAuto"
    <2>1. reviewing' = [reviewing EXCEPT
              ![p].pairs = @ \cup {<<q.abstract, r>>},
              ![p].load[r] = @ + 1,
              ![p].chosen = @ \ {r},
              ![p].at = IF q.chosen = {r} THEN "nextAbstract" ELSE "createAuto"]
      BY <1>3, Zenon DEF CreateAuto, first
    <2>2. reviewing' = [reviewing EXCEPT ![p].pairs = a, ![p].load = b,
                            ![p].chosen = @ \ {r}, ![p].at = step]
      BY <2>1 DEF ReviewingStates
    <2>3. step \in {"nextAbstract", "createAuto"}
      OBVIOUS
    <2> HIDE DEF a, b, step
    <2> QED
      BY <2>2, <2>3
  <1> HIDE DEF first
  <1>5. o.at \in {"nextAbstract", "createAuto"} /\ o.todo = q.todo /\ o.chosen = q.chosen \ {r}
    BY <1>4 DEF ReviewingStates
  <1>6. Later(o) = Later(q) /\ Later(q) \in Nat
    BY <1>5, LaterCount DEF Later
  <1>7. IsFiniteSet(q.chosen) /\ Cardinality(q.chosen) \in Nat /\ Cardinality(q.chosen) > 0
    BY <1>1, <1>2, PartCount
  <1>8. Cardinality(o.chosen) = Cardinality(q.chosen) - 1
    BY <1>5, <1>7, FS_RemoveElement
  <1>9. ReviewingLeft(q) = Later(q) + 1 + Cardinality(q.chosen)
    BY <1>1, ReviewingLeftAt
  <1>10. ReviewingLeft(o) \in {Later(o) + 1, Later(o) + 1 + Cardinality(o.chosen)}
    BY <1>5, ReviewingLeftAt
  <1> QED
    BY <1>6, <1>7, <1>8, <1>9, <1>10

LEMMA ReviewingIsProgress ==
  ASSUME ReviewingInv, ReviewingInv', NEW p \in Requests, ContinueReviewing(p)
  PROVE  ReviewingLeft(reviewing'[p]) < ReviewingLeft(reviewing[p])
  <1>1. PICK q \in ReviewingStates : q = reviewing[p] /\ Doing(q)
    BY RequestDoing
  <1>2. PICK o \in ReviewingStates : o = reviewing'[p]
    BY DEF ReviewingInv
  <1>3. reviewing \in [Requests -> ReviewingStates]
    BY DEF ReviewingInv
  <1>4. CASE \/ CheckAssign(p) \/ CreateAssignment(p) \/ CheckReassign(p) \/ CancelOld(p)
             \/ CreateSuccessor(p) \/ InsertReview(p) \/ Complete(p)
    BY <1>4, ByHandIsProgress
  <1>5. CASE \/ ReadAbstracts(p) \/ ReadAssignments(p) \/ NextAbstract(p)
             \/ CheckCandidate(p) \/ SelectReviewers(p) \/ CreateAuto(p)
    <2>1. ReviewingLeft(o) < ReviewingLeft(q)
      BY <1>1, <1>2, <1>3, <1>5, ReadAbstractsIsProgress, ReadAssignmentsIsProgress,
         NextAbstractIsProgress, CheckCandidateIsProgress, SelectReviewersIsProgress,
         CreateAutoIsProgress
    <2> QED
      BY <1>1, <1>2, <2>1
  <1> QED
    BY <1>4, <1>5 DEF ContinueReviewing

(* What anybody else does leaves a request as it is or ends it.            *)
LEMMA ReviewingKept ==
  ASSUME reviewing \in [Requests -> ReviewingStates], ReviewingNext, NEW p \in Requests,
         ~ContinueReviewing(p), reviewing[p] # IdleReviewing
  PROVE  reviewing'[p] \in {IdleReviewing, reviewing[p]}
  <1>1. ASSUME NEW r \in Requests, BeginReview(r)
        PROVE  reviewing'[p] = reviewing[p]
    <2>1. /\ reviewing[r] = IdleReviewing
          /\ \E request : reviewing' = [reviewing EXCEPT ![r] = request]
      BY <1>1 DEF BeginReview, Assign, AutoAssign, Reassign, SubmitReview, BeginReviewing
    <2> QED
      BY <2>1
  <1>2. ASSUME NEW r \in Requests, ContinueReviewing(r)
        PROVE  reviewing'[p] = reviewing[p]
    <2>1. r # p
      BY <1>2
    <2>2. \A step : RespondReviewing(r) \/ GotoReviewing(r, step) =>
                        reviewing'[p] = reviewing[p]
      BY <2>1 DEF RespondReviewing, GotoReviewing
    <2>3. ASSUME \/ CheckAssign(r) \/ CreateAssignment(r) \/ CheckReassign(r) \/ CancelOld(r)
                 \/ CreateSuccessor(r) \/ InsertReview(r) \/ Complete(r)
          PROVE  reviewing'[p] = reviewing[p]
      BY <2>2, <2>3 DEF CheckAssign, Check, CreateAssignment, CheckReassign, CancelOld,
                        CreateSuccessor, InsertReview, Complete
    <2>4. ASSUME \/ ReadAbstracts(r) \/ ReadAssignments(r) \/ NextAbstract(r)
                 \/ CheckCandidate(r) \/ SelectReviewers(r) \/ CreateAuto(r)
          PROVE  reviewing'[p] = reviewing[p]
      <3>1. ReadAbstracts(r) => reviewing'[p] = reviewing[p]
        BY <2>1, <2>2 DEF ReadAbstracts
      <3>2. ReadAssignments(r) => reviewing'[p] = reviewing[p]
        BY <2>1 DEF ReadAssignments
      <3>3. NextAbstract(r) => reviewing'[p] = reviewing[p]
        BY <2>1, <2>2 DEF NextAbstract
      <3>4. CheckCandidate(r) => reviewing'[p] = reviewing[p]
        BY <2>1, <2>2 DEF CheckCandidate
      <3>5. SelectReviewers(r) => reviewing'[p] = reviewing[p]
        BY <2>1 DEF SelectReviewers
      <3>6. CreateAuto(r) => reviewing'[p] = reviewing[p]
        BY <2>1 DEF CreateAuto
      <3> QED
        BY <2>4, <3>1, <3>2, <3>3, <3>4, <3>5, <3>6
    <2> QED
      BY <1>2, <2>3, <2>4 DEF ContinueReviewing
  <1>3. ASSUME NEW r \in Requests, AbortReviewing(r)
        PROVE  reviewing'[p] \in {IdleReviewing, reviewing[p]}
    BY <1>3 DEF AbortReviewing, RespondReviewing
  <1>4. ASSUME \/ \E i \in Ids : Decline(i) \/ DeclareConflict(i)
               \/ \E r \in Reviewers : AddReviewer(r)
               \/ \E r \in Reviewers, i \in Institutions : UpdateProfile(r, i)
        PROVE  UNCHANGED reviewing
    BY <1>4 DEF Decline, DeclareConflict, AddReviewer, UpdateProfile
  <1> QED
    BY <1>1, <1>2, <1>3, <1>4 DEF ReviewingNext

LEMMA ReviewingIsKept ==
  ASSUME ReviewingInv, ReviewingInv', [Next]_vars, NEW p \in Requests,
         reviewing[p] # IdleReviewing
  PROVE  ReviewingLeft(reviewing'[p]) <= ReviewingLeft(reviewing[p])
  <1>1. PICK q \in ReviewingStates : q = reviewing[p]
    BY DEF ReviewingInv
  <1>2. PICK o \in ReviewingStates : o = reviewing'[p]
    BY DEF ReviewingInv
  <1>3. CASE ContinueReviewing(p)
    <2>1. ReviewingLeft(o) < ReviewingLeft(q)
      BY <1>1, <1>2, <1>3, ReviewingIsProgress
    <2> QED
      BY <1>1, <1>2, <2>1, ReviewingLeftAt
  <1>4. CASE UNCHANGED reviewing \/ (ReviewingNext /\ ~ContinueReviewing(p))
    <2>1. o \in {IdleReviewing, q}
      <3>1. UNCHANGED reviewing => o = q
        BY <1>1, <1>2
      <3>2. ReviewingNext /\ ~ContinueReviewing(p) => o \in {IdleReviewing, q}
        BY <1>1, <1>2, ReviewingKept DEF ReviewingInv
      <3> QED
        BY <1>4, <3>1, <3>2
    <2>2. o = q \/ o.at = "idle"
      BY <2>1 DEF IdleReviewing
    <2> QED
      BY <1>1, <1>2, <2>2, ReviewingLeftAt
  <1> QED
    BY <1>3, <1>4, SubmissionsElsewhere, ProgrammeElsewhere DEF Next, vars, reviewVars

(* Each statement brings its request nearer to its answer, the search for a*)
(* submission number and the loops of autoAssign included, and what others *)
(* do meanwhile never puts it further away, whatever the number of         *)
(* abstracts and reviewers, as long as the speakers can be counted.        *)
THEOREM EveryStatementIsProgress ==
  ASSUME IsFiniteSet(Speakers)
  PROVE  Spec => StatementsAreProgress
  <1> DEFINE A ==
        \A p \in Requests :
          /\ ContinueWriting(p) => WritingLeft(writing'[p]) < WritingLeft(writing[p])
          /\ ContinueReviewing(p) => ReviewingLeft(reviewing'[p]) < ReviewingLeft(reviewing[p])
          /\ ContinueScheduling(p) => SchedulingLeft(scheduling'[p]) < SchedulingLeft(scheduling[p])
          /\ writing[p] # IdleWriting => WritingLeft(writing'[p]) <= WritingLeft(writing[p])
          /\ reviewing[p] # IdleReviewing =>
                 ReviewingLeft(reviewing'[p]) <= ReviewingLeft(reviewing[p])
          /\ scheduling[p] # IdleScheduling =>
                 SchedulingLeft(scheduling'[p]) <= SchedulingLeft(scheduling[p])
      Invs == SubmissionsInv /\ ReviewingInv /\ ProgrammeInv
  <1>1. Invs /\ Invs' /\ [Next]_vars => [A]_vars
    <2>1. ASSUME Invs, Invs', [Next]_vars, NEW p \in Requests
          PROVE  /\ ContinueWriting(p) => WritingLeft(writing'[p]) < WritingLeft(writing[p])
                 /\ ContinueReviewing(p) =>
                        ReviewingLeft(reviewing'[p]) < ReviewingLeft(reviewing[p])
                 /\ ContinueScheduling(p) =>
                        SchedulingLeft(scheduling'[p]) < SchedulingLeft(scheduling[p])
      BY <2>1, WritingIsProgress, ReviewingIsProgress, SchedulingIsProgress
         DEF SubmissionsInv, ProgrammeInv
    <2>2. ASSUME Invs, Invs', [Next]_vars, NEW p \in Requests
          PROVE  /\ writing[p] # IdleWriting =>
                        WritingLeft(writing'[p]) <= WritingLeft(writing[p])
                 /\ reviewing[p] # IdleReviewing =>
                        ReviewingLeft(reviewing'[p]) <= ReviewingLeft(reviewing[p])
                 /\ scheduling[p] # IdleScheduling =>
                        SchedulingLeft(scheduling'[p]) <= SchedulingLeft(scheduling[p])
      BY <2>2, WritingIsKept, ReviewingIsKept, SchedulingIsKept
    <2> QED
      BY <2>1, <2>2
  <1>2. [][A]_vars => StatementsAreProgress
    BY PTL DEF StatementsAreProgress
  <1>3. Spec => []Invs
    BY SubmissionsInvariance, ReviewingInvariance, ProgrammeInvariance, PTL
  <1> QED
    BY <1>1, <1>2, <1>3, PTL DEF Spec
=============================================================================
