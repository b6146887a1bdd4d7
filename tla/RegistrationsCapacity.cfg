SPECIFICATION Spec
CONSTANTS
    c1 = c1
    c2 = c2
    k1 = k1
    k2 = k2
    t1 = t1
    t2 = t2
    Conferences = {c1}
    Categories = {k1}
    Types = {t1}
    ConferenceOf <- OneConferenceOf
    CategoryOf <- OneCategoryOf
    Capacity <- OneCapacity
    Unlimited = Unlimited
    Users = {u1, u2}
    Requests = {r1, r2}
    Workers = {}
    MaxAttempts = 2
    MaxRegistrations = 4
    NoUser = NoUser
    NoType = NoType
SYMMETRY Symmetry
INVARIANT
    CapacityIsKept
