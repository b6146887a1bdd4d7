SPECIFICATION FairSpec
CONSTANTS
    Registrations = {r1}
    Workshop = {r1}
    CheckinTypes = {"MAIN_EVENT", "WORKSHOP"}
    CertificateTypes = {"PARTICIPATION", "WORKSHOP"}
    Threshold = 2
    Requests = {q1, q2}
    MaxCheckins = 3
    NoRegistration = NoRegistration
    NoType = NoType
    NoRequest = NoRequest
INVARIANTS
    TypeOK
PROPERTIES
    ImplementsDoor
    CheckinIsIdempotent
    EverythingIsAnswered
