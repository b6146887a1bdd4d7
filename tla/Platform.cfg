CONSTANTS
    Users = {"u1", "u2"}
    Organizations = {"o1", "o2"}
    Requests = {p, q}
    WebRequests = {v, w}
    Jobs = {1, 2, 3, 4}
    JobType <- MCJobType
    JobRows <- MCJobRows
    Emails <- MCEmails
    Workers = {1, 2}
    MaxAttempts = 2
    Reminders = {1, 2, 3}
    TargetOf <- MCTargetOf
    Targets = {"assignment", "participant"}
    Scenarios <- MCScenarios
    MaxTokens = 2
    MaxTracks = 3
    MaxListed = 3
    MaxDays = 2
    MaxCrashes = 2
    Nobody = Nobody
    Nothing = Nothing
SPECIFICATION FairSpec
INVARIANTS
    TypeOK
    CookieIsNotUsedUp
    JoinedHasPassword
    DoneAccountsForRows
    ImportRepeatsNothing
    RemindersBounded
    SharedPlacesBounded
PROPERTIES
    EnqueuedJobsEnd
CHECK_DEADLOCK FALSE
