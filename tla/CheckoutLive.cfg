SPECIFICATION FairSpec
CONSTANTS
    Orders = {o1}
    PaymentIds = {p1, p2}
    Requests = {r1, r2}
    Providers = {"stripe"}
    Attempts = {a1}
    Capturing = a1
    QrCodes = {q1, q2}
    MaxQrAttempts = 1
    NoOrder = NoOrder
    NoPayment = NoPayment
    NoAttempt = NoAttempt
    NoQr = NoQr
    NoEvent = NoEvent
    Foreign = Foreign
PROPERTIES
    CapturedIsConfirmed
    PaidIsInvoiced
