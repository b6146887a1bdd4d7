SPECIFICATION Spec
CONSTANTS
    c1 = c1
    c2 = c2
    k1 = k1
    k2 = k2
    t1 = t1
    t2 = t2
    Conferences = {c1}
    Categories = {k1}
    Types = {t1}
    ConferenceOf <- OneConferenceOf
    CategoryOf <- OneCategoryOf
    Capacity <- OneCapacity
    Unlimited = Unlimited
    Users = {u1, u2}
    Requests = {r1, r2}
    Workers = {w1}
    MaxAttempts = 3
    MaxRegistrations = 5
    NoUser = NoUser
    NoType = NoType
SYMMETRY Symmetry
INVARIANTS
    TypeOK
    OversellIsBounded
    RetryCanSucceed
CHECK_DEADLOCK FALSE
