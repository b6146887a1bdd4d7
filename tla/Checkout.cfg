SPECIFICATION Spec
CONSTANTS
    Orders = {o1, o2}
    PaymentIds = {p1, p2}
    Requests = {r1, r2}
    Providers = {"razorpay"}
    Attempts = {a1}
    Capturing = a1
    QrCodes = {q1, q2}
    MaxQrAttempts = 1
    NoOrder = NoOrder
    NoPayment = NoPayment
    NoAttempt = NoAttempt
    NoQr = NoQr
    NoEvent = NoEvent
    Foreign = Foreign
SYMMETRY Symmetry
INVARIANTS
    TypeOK
    PaidOrderHasMoney
    AdmissionIsPaidFor
    OneOpenClaim
    EventAppliedOnce
PROPERTY
    ImplementsLedger
