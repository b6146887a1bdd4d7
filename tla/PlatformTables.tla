------------------------------ MODULE PlatformTables ------------------------------
(***************************************************************************)
(* What the services around a conference keep: accounts, sessions and      *)
(* memberships, the export and import jobs with their queues, the          *)
(* reminders with their notifications and mails, the tracks.  The modules  *)
(* Accounts, Jobs, Reminders and Tracks give their operations; Platform    *)
(* puts them together.                                                     *)
(*                                                                         *)
(* As in EditorialTables a scenario, chosen in the beginning, says which   *)
(* calls are made in it, by which requests, and how many sessions at most; *)
(* it only ever leaves some out.                                           *)
(***************************************************************************)
EXTENDS Naturals, FiniteSets, Sequences

CONSTANTS
    Users,         \* by their email
    Organizations, \* by their slug
    Requests,      \* the requests that each service of the API serves at a time
    WebRequests,   \* those that one browser has under way at the web server
    Jobs,          \* the export and import jobs, 1 .. n in the order of creation
    JobType,       \* the type of each
    JobRows,       \* the email in each row of the file that it imports
    Emails,
    Workers,       \* worker processes, each with one job of a queue at a time
    MaxAttempts,   \* useJobPolling's
    Reminders,     \* what reminders are due for: assignments and registrations
    TargetOf,      \* the (entity, user) that a reminder is about
    Targets,
    Scenarios,
    MaxTokens, MaxTracks, MaxListed, MaxDays, MaxCrashes, \* bounds of the model
    Nobody, Nothing

ASSUME PlatformAssumption ==
    /\ IsFiniteSet(Requests) /\ IsFiniteSet(WebRequests) /\ IsFiniteSet(Workers)
    /\ Jobs \subseteq Nat \ {0} /\ IsFiniteSet(Jobs)
    /\ JobType \in [Jobs -> {"EXPORT", "AUTHORS", "REVIEWERS"}]
    /\ JobRows \in [Jobs -> Seq(Emails)]
    /\ TargetOf \in [Reminders -> Targets] /\ IsFiniteSet(Reminders)
    /\ MaxAttempts \in Nat \ {0} /\ MaxCrashes \in Nat
    /\ MaxTracks \in Nat /\ MaxListed \in Nat /\ MaxTracks <= MaxListed
    /\ Nobody \notin Users /\ Nothing \notin Organizations
    /\ Scenarios \subseteq [calls : SUBSET STRING, requests : SUBSET Requests,
                            registered : SUBSET Users,
                            organizations : SUBSET Organizations,
                            jobs : SUBSET Jobs, workers : SUBSET Workers,
                            sessions : Nat]

VARIABLES
    scenario,
    passwords,     \* of each User row: "none" is no row, "unusable" an invited user
    resetTokens,   \* the unused PasswordResetToken rows of each user
    tokensIssued,
    organizations, \* the Organization rows
    members,       \* the status of each OrganizationMembership row
    joined,        \* the memberships accepted by setting a password
    sessionRows,   \* the Session rows in the order of their creation
    browser,       \* the refresh cookie of a browser
    accounting,    \* requests to AuthService and OrganizationsService
    web,           \* requests of the browser to the web server
    jobs,          \* the ExportJob and ImportJob rows
    queue,         \* what BullMQ knows about each job
    runs,          \* what each worker process is doing
    authorRows,    \* the number of Author rows with an email
    reviewerRows,  \* the emails of the users who have a Reviewer row
    poll,          \* the page that polls a job
    crashes,       \* of a worker process, so far
    cron,          \* a run of RemindersScheduler
    handlers,      \* NotificationEventsListener.handle, for each reminder
    mails,         \* the jobs of the email queue
    notices,       \* Notification rows about each target
    lostHandlers,  \* handlers that an exception or a restart has ended, so far
    places,        \* the sortOrder of each ConferenceTrack
    ordering       \* requests to TracksService

userTables == <<passwords, resetTokens, tokensIssued, organizations, members, joined>>
accountVars == <<userTables, sessionRows, browser, accounting, web>>
importTables == <<authorRows, reviewerRows>>
jobVars == <<jobs, queue, runs, importTables, poll, crashes>>
reminderVars == <<cron, handlers, mails, notices, lostHandlers>>
trackVars == <<places, ordering>>
vars == <<scenario, accountVars, jobVars, reminderVars, trackVars>>

(* Whether this call is made in this scenario.                             *)
Called(call) == call \in scenario.calls
=============================================================================
