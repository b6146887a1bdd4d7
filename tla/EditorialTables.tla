----------------------------- MODULE EditorialTables -----------------------------
(***************************************************************************)
(* The tables that abstracts, reviews, decisions and the programme of one  *)
(* conference share, and the requests under way over them.  The modules    *)
(* Submissions, Reviewing and Programme each give the operations of their  *)
(* services; Editorial puts them together.                                 *)
(*                                                                         *)
(* What a conference sees is chosen in the beginning: a scenario says which*)
(* operations are called in it, how many abstracts there are and how far   *)
(* they have come.  A scenario only ever leaves operations out, so that    *)
(* TLC can look at the operations that meet instead of all at once; the    *)
(* proofs hold for every set of scenarios.                                 *)
(***************************************************************************)
EXTENDS Naturals, FiniteSets, Sequences

CONSTANTS
    Abstracts,    \* 1 .. n: the abstracts in the order in which they are created
    People,       \* who may be an author (rows of Author, by their email)
    Reviewers,    \* ids of Reviewer rows; a natural number, for they are compared
    Account,      \* the person each reviewer is: Reviewer.userId and its email
    Affiliation,  \* the institution of each person's Author row
    Institutions,
    Sessions, Speakers, Windows,
    SpeakerLists, \* what assignSpeakers is called with: sets of <<speaker, role>>
    Requests,     \* the requests that each of the three services serves at a time
    Scenarios,
    MaxSubmissionNumberAttempts,
    MaxVersions,      \* bounds of the model: versions of an abstract,
    MaxPresentations, \* rows of PresentationAssignment
    NoInstitution, NoSession, Nobody

Starts == {"empty", "drafts", "submitted", "accepted"}

ASSUME EditorialAssumption ==
    /\ Abstracts \subseteq Nat \ {0} /\ IsFiniteSet(Abstracts)
    /\ Reviewers \subseteq Nat \ {0} /\ IsFiniteSet(Reviewers)
    /\ Account \in [Reviewers -> People]
    /\ Affiliation \in [People -> Institutions \cup {NoInstitution}]
    /\ NoInstitution \notin Institutions
    /\ NoSession \notin Sessions /\ Nobody \notin Speakers
    /\ Windows \subseteq [from : Nat, to : Nat]
    /\ IsFiniteSet(Requests)
    /\ Scenarios \subseteq [calls : SUBSET STRING, start : Starts,
                            abstracts : Nat, perAbstract : 1 .. 3, reviewers : SUBSET Reviewers,
                            maxAssignments : Nat, sessions : SUBSET Sessions,
                            window : Windows, windows : SUBSET Windows]
    /\ MaxSubmissionNumberAttempts \in Nat \ {0}

VARIABLES
    scenario,
    settings,     \* of the conference
    status, number, current,  \* of each Abstract row; 0 is null
    versions,     \* the AbstractVersion rows of each abstract
    authors,      \* its AbstractAuthor rows
    decisions,    \* what its AbstractDecision rows say
    revisions,    \* whether it has an AbstractRevisionRequest
    wizard,       \* a browser's tab with the submission wizard
    writing,      \* requests to AbstractsService and DecisionsService
    active,       \* the Reviewer rows
    institution,  \* what each reviewer's profile says
    assignments,  \* the ReviewAssignment rows in the order of their creation
    reviewing,    \* requests to the services of reviewers and reviews
    sessions,     \* the ProgramSession rows
    roles,        \* the SessionSpeaker rows of each session
    chairs,       \* chairId and coChairId of each session
    scheduleVersion, \* of the conference
    presentations,   \* the PresentationAssignment rows ever created
    scheduling    \* requests to the services of sessions and presentations

abstractRow == <<status, number, current>>
submissionTables == <<abstractRow, versions, authors, decisions, revisions>>
submissionVars == <<settings, submissionTables, wizard, writing>>
reviewVars == <<active, institution, assignments, reviewing>>
programmeVars == <<sessions, roles, chairs, scheduleVersion, presentations, scheduling>>
vars == <<scenario, submissionVars, reviewVars, programmeVars>>

(* Whether this call is made in this scenario.                             *)
Called(call) == call \in scenario.calls

Least(S) == CHOOSE n \in S : \A m \in S : n <= m
Greatest(S) == CHOOSE n \in S : \A m \in S : m <= n
=============================================================================
