SPECIFICATION FairSpec
CONSTANTS
    Registrations = {r1}
    Workshop = {}
    CheckinTypes = {"MAIN_EVENT", "WORKSHOP"}
    CertificateTypes = {"SPEAKER"}
    Threshold = 1
    Requests = {q1, q2}
    MaxCheckins = 0
    NoRegistration = NoRegistration
    NoType = NoType
    NoRequest = NoRequest
PROPERTY
    RevokedStaysRevoked
