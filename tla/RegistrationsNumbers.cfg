SPECIFICATION Spec
CONSTANTS
    c1 = c1
    c2 = c2
    k1 = k1
    k2 = k2
    t1 = t1
    t2 = t2
    Conferences = {c1, c2}
    Categories = {k1, k2}
    Types = {t1, t2}
    ConferenceOf <- TwoConferencesOf
    CategoryOf <- TwoCategoryOf
    Capacity <- TwoNoLimit
    Unlimited = Unlimited
    Users = {u1, u2}
    Requests = {r1}
    Workers = {}
    MaxAttempts = 2
    MaxRegistrations = 4
    NoUser = NoUser
    NoType = NoType
SYMMETRY Symmetry
INVARIANT
    RetryCanSucceed
