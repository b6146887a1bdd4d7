CONSTANTS
    Abstracts <- MCAbstracts
    People <- MCPeople
    Reviewers <- MCReviewers
    Account <- MCAccount
    Affiliation <- MCAffiliation
    Institutions <- MCInstitutions
    Windows <- MCWindows
    Scenarios <- MCScenarios
    Sessions = {1, 2, 3}
    Speakers = {"x1", "x2"}
    SpeakerLists <- MCSpeakerLists
    Requests = {p, q}
    MaxSubmissionNumberAttempts = 2
    MaxVersions = 2
    MaxPresentations = 3
    NoInstitution = NoInstitution
    NoSession = NoSession
    Nobody = Nobody
SPECIFICATION FairSpec
INVARIANTS
    TypeOK
    VersionsGapless
    StatusIsEarned
    WizardHasSaved
    CompletedHasReview
    ReassignedIsNotOpen
    AutoAssignmentIsEven
    OpenReviewersBounded
    DoubleBookingIsBounded
    ChairIsSpeaker
    ScheduledWasAccepted
PROPERTY
    EditorialRequestsEnd
CHECK_DEADLOCK FALSE
