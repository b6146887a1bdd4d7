------------------------------ MODULE Checkout ------------------------------
(***************************************************************************)
(* Paying for a registration: PaymentsService (webhook, manual claim,      *)
(* approval, rejection, refund, confirmOrderPaid), OrdersService.create    *)
(* and InvoicesService.generateForOrder, as HTTP requests that run         *)
(* concurrently over shared PostgreSQL tables.                             *)
(*                                                                         *)
(* The services open no transaction on this path: every awaited Prisma     *)
(* call is one autocommitted statement, so a request is a sequence of      *)
(* steps, one action per statement, and other requests run in between.     *)
(* What a request has read and still holds is in req[r].  A request may    *)
(* stop after any step (an exception, a lost connection, a restart of the  *)
(* API): Abort.  Nothing is rolled back then.                              *)
(*                                                                         *)
(* A registration has at most one order (Order.registrationId is unique),  *)
(* so an order and its registration share the index o.                     *)
(***************************************************************************)
EXTENDS FiniteSets, Naturals

CONSTANTS
    Orders,        \* registrations, each with the order it may get
    PaymentIds,    \* ids of payment rows: a bound on how many are ever created
    Requests,      \* HTTP requests served at a time
    Providers,     \* configured gateways, a subset of {"razorpay", "stripe"}
    Attempts,      \* payment attempts a payer makes in one gateway checkout
    Capturing,     \* the attempt, if any, that the gateway captures in the end
    QrCodes,       \* the values generateQrCode() may return
    MaxQrAttempts, \* MAX_QR_CODE_ATTEMPTS
    NoOrder, NoPayment, NoAttempt, NoQr, NoEvent,
    Foreign        \* a gateway order of the same merchant account, not ours

ASSUME CheckoutAssumption ==
    /\ Providers \subseteq {"razorpay", "stripe"}
    /\ Capturing \in Attempts
    /\ MaxQrAttempts \in Nat
    /\ NoOrder \notin Orders /\ Foreign \notin Orders /\ Foreign # NoOrder
    /\ NoPayment \notin PaymentIds
    /\ NoAttempt \notin Attempts
    /\ NoQr \notin QrCodes

VARIABLES
    orderStatus,   \* orders.status, "NONE" when there is no row
    regStatus,     \* registrations.status
    qr,            \* registrations.qrCode
    payments,      \* the payments table
    webhookEvents, \* the webhook_events table: the events recorded so far
    invoice,       \* invoices: no row, a row, a row with documentFileId
    receipts,      \* orders for which payment.succeeded has been emitted
    req            \* the requests in flight

tables == <<orderStatus, regStatus, qr, payments, webhookEvents, invoice, receipts>>
vars == <<orderStatus, regStatus, qr, payments, webhookEvents, invoice, receipts, req>>

-----------------------------------------------------------------------------
(* The rows and the requests.                                              *)

OrderStatuses == {"NONE", "PENDING", "PAID", "REFUNDED"}
RegStatuses == {"PENDING", "CONFIRMED", "CHECKED_IN", "REFUNDED"}
PaymentStatuses == {"ABSENT", "INITIATED", "PENDING", "SUCCESS", "FAILED", "REFUNDED"}
InvoiceStates == {"NONE", "ISSUED", "ATTACHED"}

Kinds == {"captured", "other"}

(* A webhook body: what a gateway reports about one attempt on one of its  *)
(* orders.  "other" is any report that parseWebhookEvent turns into        *)
(* FAILED: payment.authorized, payment.failed, an unpaid session.          *)
Events == [order    : Orders \cup {Foreign},
           provider : Providers,
           attempt  : Attempts,
           kind     : Kinds]

(* parseWebhookEvent's eventId, with the provider the key of the unique    *)
(* index.  Stripe sends the id of the event; for Razorpay the code takes   *)
(* the id of the payment attempt, whatever the event says of it.           *)
EventKey(e) == IF e.provider = "razorpay"
               THEN <<e.provider, e.order, e.attempt, "payment">>
               ELSE <<e.provider, e.order, e.attempt, e.kind>>

Absent == [order |-> NoOrder, provider |-> "MANUAL", status |-> "ABSENT",
           attempt |-> NoAttempt, paid |-> FALSE]

PaymentRows == [order    : Orders \cup {NoOrder},
                provider : Providers \cup {"MANUAL"},
                status   : PaymentStatuses,
                attempt  : Attempts \cup {NoAttempt},  \* providerPaymentId
                paid     : BOOLEAN]                    \* paidAt IS NOT NULL

Steps == {"idle",
          "insertOrder", "openCheckout",
          "recordEvent", "findPayment", "failPayment", "succeedPayment",
          "findClaim", "updateClaim", "insertClaim", "refindClaim",
          "findApproval", "approveClaim", "insertApproved", "rejectClaim",
          "findRefund", "refundPayment", "refundOrder", "refundRegistration",
          "markOrderPaid", "confirmRegistration", "readOrder", "readInvoice",
          "insertInvoice", "attachDocument", "emitSucceeded"}

Idle == [at |-> "idle", order |-> NoOrder, payment |-> NoPayment,
         event |-> NoEvent, tries |-> 0]

RequestStates == [at      : Steps,
                  order   : Orders \cup {NoOrder},
                  payment : PaymentIds \cup {NoPayment},
                  event   : Events \cup {NoEvent},
                  tries   : 0 .. MaxQrAttempts]

TypeOK ==
    /\ orderStatus \in [Orders -> OrderStatuses]
    /\ regStatus \in [Orders -> RegStatuses]
    /\ qr \in [Orders -> QrCodes \cup {NoQr}]
    /\ payments \in [PaymentIds -> PaymentRows]
    /\ webhookEvents \subseteq Events
    /\ invoice \in [Orders -> InvoiceStates]
    /\ receipts \subseteq Orders
    /\ req \in [Requests -> RequestStates]

Init ==
    /\ orderStatus = [o \in Orders |-> "NONE"]
    /\ regStatus = [o \in Orders |-> "PENDING"]
    /\ qr = [o \in Orders |-> NoQr]
    /\ payments = [p \in PaymentIds |-> Absent]
    /\ webhookEvents = {}
    /\ invoice = [o \in Orders |-> "NONE"]
    /\ receipts = {}
    /\ req = [r \in Requests |-> Idle]

-----------------------------------------------------------------------------
(* Requests: a request arrives at an idle slot, goes from statement to     *)
(* statement and responds, which frees the slot.                           *)

Goto(r, step) == req' = [req EXCEPT ![r].at = step]
GotoWith(r, step, p) == req' = [req EXCEPT ![r].at = step, ![r].payment = p]
Respond(r) == req' = [req EXCEPT ![r] = Idle]
Arrive(r, step, o) ==
    /\ req[r] = Idle
    /\ req' = [req EXCEPT ![r] = [Idle EXCEPT !.at = step, !.order = o]]

At(r, step) == req[r].at = step

(* The finite stock of ids bounds the model, not the code: a request that  *)
(* may insert a payment arrives only while an id is left for it.           *)
Inserting == {"insertOrder", "openCheckout", "findClaim", "insertClaim",
              "findApproval", "insertApproved"}
HasRoom == Cardinality({p \in PaymentIds : payments[p].status = "ABSENT"})
           > Cardinality({r \in Requests : req[r].at \in Inserting})

InsertPayment(row) ==
    \E p \in PaymentIds :
        /\ payments[p].status = "ABSENT"
        /\ payments' = [payments EXCEPT ![p] = row]

PendingClaims(o) ==
    {p \in PaymentIds : /\ payments[p].order = o
                        /\ payments[p].provider = "MANUAL"
                        /\ payments[p].status = "PENDING"}

-----------------------------------------------------------------------------
(* OrdersService.create.  The registration is read first and then its      *)
(* order; a registration without an order is PENDING and stays so, which   *)
(* lets one action stand for both reads.                                   *)
CreateOrder(r, o) ==
    /\ HasRoom
    /\ regStatus[o] = "PENDING"
    /\ orderStatus[o] = "NONE"
    /\ Arrive(r, "insertOrder", o)
    /\ UNCHANGED tables

(* createOrderWithRetry inserts the order.  The payment mode, read from    *)
(* the conference settings in between, decides whether a checkout follows. *)
InsertOrder(r) ==
    LET o == req[r].order IN
    /\ At(r, "insertOrder")
    /\ orderStatus[o] = "NONE"
    /\ orderStatus' = [orderStatus EXCEPT ![o] = "PENDING"]
    /\ \/ Respond(r)                 \* MANUAL, or no such provider
       \/ Goto(r, "openCheckout")    \* GATEWAY
    /\ UNCHANGED <<regStatus, qr, payments, webhookEvents, invoice, receipts>>

(* Another request has inserted the order of this registration: each of    *)
(* the five attempts violates Order.registrationId's unique index.         *)
InsertOrderConflict(r) ==
    /\ At(r, "insertOrder")
    /\ orderStatus[req[r].order] # "NONE"
    /\ Respond(r)
    /\ UNCHANGED tables

(* createCheckout has succeeded at the gateway; the payment row is         *)
(* inserted and the payer gets the checkout's address.                     *)
InsertGatewayPayment(r) ==
    /\ At(r, "openCheckout")
    /\ \E pv \in Providers :
           InsertPayment([order |-> req[r].order, provider |-> pv, status |-> "INITIATED",
                          attempt |-> NoAttempt, paid |-> FALSE])
    /\ Respond(r)
    /\ UNCHANGED <<orderStatus, regStatus, qr, webhookEvents, invoice, receipts>>

-----------------------------------------------------------------------------
(* The gateways (outside src/).  Once the payer has a checkout, events     *)
(* about its attempts arrive late, repeatedly and in any order; at most    *)
(* one attempt of a checkout is captured.  Events of foreign orders of the *)
(* same merchant account arrive as well.                                   *)
CheckoutOpen(o, pv) ==
    \E p \in PaymentIds : payments[p].order = o /\ payments[p].provider = pv

Deliverable(e) ==
    /\ e.order = Foreign \/ CheckoutOpen(e.order, e.provider)
    /\ e.kind = "captured" => e.attempt = Capturing

(* PaymentsService.handleWebhook, up to the parsed event: deliveries with  *)
(* an unknown provider, a bad signature or an unknown shape end before     *)
(* they touch a table.                                                     *)
ReceiveWebhook(r, e) ==
    /\ Deliverable(e)
    /\ req[r] = Idle
    /\ req' = [req EXCEPT ![r].at = "recordEvent", ![r].event = e]
    /\ UNCHANGED tables

Recorded(e) == \E f \in webhookEvents : EventKey(f) = EventKey(e)

(* Mutant: the unique index on (provider, eventId) is missing.             *)
RecordEventUnchecked(r) ==
    /\ At(r, "recordEvent")
    /\ webhookEvents' = webhookEvents \cup {req[r].event}
    /\ Goto(r, "findPayment")
    /\ UNCHANGED <<orderStatus, regStatus, qr, payments, invoice, receipts>>

RecordEvent(r) ==
    LET e == req[r].event IN
    /\ At(r, "recordEvent")
    /\ ~Recorded(e)
    /\ webhookEvents' = webhookEvents \cup {e}
    /\ Goto(r, "findPayment")
    /\ UNCHANGED <<orderStatus, regStatus, qr, payments, invoice, receipts>>

(* The unique index refuses the row: "Already processed this exact event". *)
DismissEvent(r) ==
    /\ At(r, "recordEvent")
    /\ Recorded(req[r].event)
    /\ Respond(r)
    /\ UNCHANGED tables

FindPayment(r) ==
    LET e == req[r].event
        found == {p \in PaymentIds : /\ payments[p].order = e.order
                                     /\ payments[p].provider = e.provider}
    IN
    /\ At(r, "findPayment")
    /\ \/ /\ found = {}              \* 404
          /\ Respond(r)
       \/ \E p \in found :
              GotoWith(r, IF e.kind = "captured" THEN "succeedPayment" ELSE "failPayment", p)
    /\ UNCHANGED tables

(* Mutant: no return after a FAILED event, which falls through.            *)
FailPaymentFallsThrough(r) ==
    LET p == req[r].payment IN
    /\ At(r, "failPayment")
    /\ payments' = [payments EXCEPT ![p].status = "FAILED",
                                    ![p].attempt = req[r].event.attempt]
    /\ req' = [req EXCEPT ![r] = [Idle EXCEPT !.at = "markOrderPaid", !.order = payments[p].order]]
    /\ UNCHANGED <<orderStatus, regStatus, qr, webhookEvents, invoice, receipts>>

FailPayment(r) ==
    LET p == req[r].payment IN
    /\ At(r, "failPayment")
    /\ payments' = [payments EXCEPT ![p].status = "FAILED",
                                    ![p].attempt = req[r].event.attempt]
    /\ Respond(r)
    /\ UNCHANGED <<orderStatus, regStatus, qr, webhookEvents, invoice, receipts>>

(* From here on the request only needs the order.                          *)
ConfirmOrder(r, o) ==
    req' = [req EXCEPT ![r] = [Idle EXCEPT !.at = "markOrderPaid", !.order = o]]

(* Mutant: the registration is confirmed without its order.                *)
SucceedPaymentSkipsOrder(r) ==
    LET p == req[r].payment IN
    /\ At(r, "succeedPayment")
    /\ payments' = [payments EXCEPT ![p].status = "SUCCESS", ![p].paid = TRUE]
    /\ req' = [req EXCEPT ![r] = [Idle EXCEPT !.at = "confirmRegistration",
                                              !.order = payments[p].order]]
    /\ UNCHANGED <<orderStatus, regStatus, qr, webhookEvents, invoice, receipts>>

(* Mutant: the webhook records the payment and confirms nothing.           *)
SucceedPaymentOnly(r) ==
    /\ At(r, "succeedPayment")
    /\ payments' = [payments EXCEPT ![req[r].payment].status = "SUCCESS",
                                    ![req[r].payment].paid = TRUE]
    /\ Respond(r)
    /\ UNCHANGED <<orderStatus, regStatus, qr, webhookEvents, invoice, receipts>>

SucceedPayment(r) ==
    LET p == req[r].payment IN
    /\ At(r, "succeedPayment")
    /\ payments' = [payments EXCEPT ![p].status = "SUCCESS",
                                    ![p].attempt = req[r].event.attempt,
                                    ![p].paid = TRUE]
    /\ ConfirmOrder(r, payments[p].order)
    /\ UNCHANGED <<orderStatus, regStatus, qr, webhookEvents, invoice, receipts>>

-----------------------------------------------------------------------------
(* confirmOrderPaid, shared by the webhook and the approval.               *)
MarkOrderPaid(r) ==
    /\ At(r, "markOrderPaid")
    /\ orderStatus' = [orderStatus EXCEPT ![req[r].order] = "PAID"]
    /\ Goto(r, "confirmRegistration")
    /\ UNCHANGED <<regStatus, qr, payments, webhookEvents, invoice, receipts>>

Taken(o, code) == \E other \in Orders \ {o} : qr[other] = code

ConfirmRegistration(r) ==
    LET o == req[r].order IN
    /\ At(r, "confirmRegistration")
    /\ \E code \in QrCodes :
           /\ ~Taken(o, code)
           /\ qr' = [qr EXCEPT ![o] = code]
    /\ regStatus' = [regStatus EXCEPT ![o] = "CONFIRMED"]
    /\ req' = [req EXCEPT ![r].at = "readOrder", ![r].tries = 0]
    /\ UNCHANGED <<orderStatus, payments, webhookEvents, invoice, receipts>>

(* Mutant: one attempt too many.                                           *)
QrCollisionOffByOne(r) ==
    /\ At(r, "confirmRegistration")
    /\ \E code \in QrCodes : Taken(req[r].order, code)
    /\ \/ /\ req[r].tries <= MaxQrAttempts
          /\ req' = [req EXCEPT ![r].tries = @ + 1]
       \/ /\ req[r].tries > MaxQrAttempts
          /\ Respond(r)
    /\ UNCHANGED tables

(* The fresh code belongs to another registration: the unique index        *)
(* refuses the whole update, which is tried again with another code.       *)
QrCollision(r) ==
    /\ At(r, "confirmRegistration")
    /\ \E code \in QrCodes : Taken(req[r].order, code)
    /\ \/ /\ req[r].tries < MaxQrAttempts
          /\ req' = [req EXCEPT ![r].tries = @ + 1]
       \/ /\ req[r].tries = MaxQrAttempts
          /\ Respond(r)
    /\ UNCHANGED tables

(* InvoicesService.generateForOrder. *)
ReadOrder(r) ==
    /\ At(r, "readOrder")
    /\ IF orderStatus[req[r].order] = "PAID" THEN Goto(r, "readInvoice") ELSE Respond(r)
    /\ UNCHANGED tables

ReadInvoice(r) ==
    /\ At(r, "readInvoice")
    /\ Goto(r, IF invoice[req[r].order] = "NONE" THEN "insertInvoice" ELSE "emitSucceeded")
    /\ UNCHANGED tables

(* Mutant: the document of a new invoice is never attached.                *)
InsertInvoiceOnly(r) ==
    LET o == req[r].order IN
    /\ At(r, "insertInvoice")
    /\ invoice[o] = "NONE"
    /\ invoice' = [invoice EXCEPT ![o] = "ISSUED"]
    /\ Goto(r, "emitSucceeded")
    /\ UNCHANGED <<orderStatus, regStatus, qr, payments, webhookEvents, receipts>>

InsertInvoice(r) ==
    LET o == req[r].order IN
    /\ At(r, "insertInvoice")
    /\ invoice[o] = "NONE"
    /\ invoice' = [invoice EXCEPT ![o] = "ISSUED"]
    /\ Goto(r, "attachDocument")
    /\ UNCHANGED <<orderStatus, regStatus, qr, payments, webhookEvents, receipts>>

(* Another request has inserted this order's invoice meanwhile: all five   *)
(* attempts violate Invoice.orderId's unique index, and the request fails. *)
InsertInvoiceConflict(r) ==
    /\ At(r, "insertInvoice")
    /\ invoice[req[r].order] # "NONE"
    /\ Respond(r)
    /\ UNCHANGED tables

AttachDocument(r) ==
    /\ At(r, "attachDocument")
    /\ invoice' = [invoice EXCEPT ![req[r].order] = "ATTACHED"]
    /\ Goto(r, "emitSucceeded")
    /\ UNCHANGED <<orderStatus, regStatus, qr, payments, webhookEvents, receipts>>

EmitSucceeded(r) ==
    /\ At(r, "emitSucceeded")
    /\ receipts' = receipts \cup {req[r].order}
    /\ Respond(r)
    /\ UNCHANGED <<orderStatus, regStatus, qr, payments, webhookEvents, invoice>>

-----------------------------------------------------------------------------
(* submitManualPaymentProof.                                               *)
SubmitProof(r, o) ==
    /\ HasRoom
    /\ orderStatus[o] = "PENDING"
    /\ Arrive(r, "findClaim", o)
    /\ UNCHANGED tables

FindClaim(r) ==
    LET claims == PendingClaims(req[r].order) IN
    /\ At(r, "findClaim")
    /\ \/ \E p \in claims : GotoWith(r, "updateClaim", p)
       \/ claims = {} /\ Goto(r, "insertClaim")
    /\ UNCHANGED tables

(* Writes only the reference and the proof file, which are not modelled.   *)
UpdateClaim(r) ==
    /\ At(r, "updateClaim")
    /\ Respond(r)
    /\ UNCHANGED tables

(* Mutant: the partial unique index is missing.                            *)
InsertClaimUnchecked(r) ==
    /\ At(r, "insertClaim")
    /\ InsertPayment([order |-> req[r].order, provider |-> "MANUAL", status |-> "PENDING",
                      attempt |-> NoAttempt, paid |-> FALSE])
    /\ Respond(r)
    /\ UNCHANGED <<orderStatus, regStatus, qr, webhookEvents, invoice, receipts>>

(* The partial unique index (one PENDING MANUAL row per order) decides     *)
(* between two claims that were submitted together.                        *)
InsertClaim(r) ==
    LET o == req[r].order IN
    /\ At(r, "insertClaim")
    /\ PendingClaims(o) = {}
    /\ InsertPayment([order |-> o, provider |-> "MANUAL", status |-> "PENDING",
                      attempt |-> NoAttempt, paid |-> FALSE])
    /\ Respond(r)
    /\ UNCHANGED <<orderStatus, regStatus, qr, webhookEvents, invoice, receipts>>

InsertClaimConflict(r) ==
    /\ At(r, "insertClaim")
    /\ PendingClaims(req[r].order) # {}
    /\ Goto(r, "refindClaim")
    /\ UNCHANGED tables

RefindClaim(r) ==
    LET claims == PendingClaims(req[r].order) IN
    /\ At(r, "refindClaim")
    /\ \/ \E p \in claims : GotoWith(r, "updateClaim", p)
       \/ claims = {} /\ Respond(r)
    /\ UNCHANGED tables

-----------------------------------------------------------------------------
(* approveManualPayment refuses a PAID order and no other.                 *)
ApproveManualPayment(r, o) ==
    /\ HasRoom
    /\ orderStatus[o] \notin {"NONE", "PAID"}
    /\ Arrive(r, "findApproval", o)
    /\ UNCHANGED tables

FindApproval(r) ==
    LET claims == PendingClaims(req[r].order) IN
    /\ At(r, "findApproval")
    /\ \/ \E p \in claims : GotoWith(r, "approveClaim", p)
       \/ claims = {} /\ Goto(r, "insertApproved")
    /\ UNCHANGED tables

ApproveClaim(r) ==
    LET p == req[r].payment IN
    /\ At(r, "approveClaim")
    /\ payments' = [payments EXCEPT ![p].status = "SUCCESS", ![p].paid = TRUE]
    /\ ConfirmOrder(r, req[r].order)
    /\ UNCHANGED <<orderStatus, regStatus, qr, webhookEvents, invoice, receipts>>

InsertApproved(r) ==
    LET o == req[r].order IN
    /\ At(r, "insertApproved")
    /\ InsertPayment([order |-> o, provider |-> "MANUAL", status |-> "SUCCESS",
                      attempt |-> NoAttempt, paid |-> TRUE])
    /\ ConfirmOrder(r, o)
    /\ UNCHANGED <<orderStatus, regStatus, qr, webhookEvents, invoice, receipts>>

(* rejectManualPayment: the order is only looked up, and orders are never  *)
(* deleted, so one action stands for both reads.                           *)
RejectManualPayment(r, o) ==
    /\ orderStatus[o] # "NONE"
    /\ req[r] = Idle
    /\ \E p \in PendingClaims(o) :
           req' = [req EXCEPT ![r].at = "rejectClaim", ![r].order = o, ![r].payment = p]
    /\ UNCHANGED tables

RejectClaim(r) ==
    /\ At(r, "rejectClaim")
    /\ payments' = [payments EXCEPT ![req[r].payment].status = "FAILED"]
    /\ Respond(r)
    /\ UNCHANGED <<orderStatus, regStatus, qr, webhookEvents, invoice, receipts>>

-----------------------------------------------------------------------------
(* Mutant: refund does not look at the order's status.                     *)
RefundAnyOrder(r, o) ==
    /\ orderStatus[o] # "NONE"
    /\ Arrive(r, "findRefund", o)
    /\ UNCHANGED tables

(* refund. *)
Refund(r, o) ==
    /\ orderStatus[o] = "PAID"
    /\ Arrive(r, "findRefund", o)
    /\ UNCHANGED tables

FindRefund(r) ==
    LET found == {p \in PaymentIds : /\ payments[p].order = req[r].order
                                     /\ payments[p].status = "SUCCESS"}
    IN
    /\ At(r, "findRefund")
    /\ \/ \E p \in found : GotoWith(r, "refundPayment", p)
       \/ found = {} /\ Respond(r)   \* 404
    /\ UNCHANGED tables

RefundPayment(r) ==
    /\ At(r, "refundPayment")
    /\ payments' = [payments EXCEPT ![req[r].payment].status = "REFUNDED"]
    /\ req' = [req EXCEPT ![r] = [Idle EXCEPT !.at = "refundOrder", !.order = req[r].order]]
    /\ UNCHANGED <<orderStatus, regStatus, qr, webhookEvents, invoice, receipts>>

RefundOrder(r) ==
    /\ At(r, "refundOrder")
    /\ orderStatus' = [orderStatus EXCEPT ![req[r].order] = "REFUNDED"]
    /\ Goto(r, "refundRegistration")
    /\ UNCHANGED <<regStatus, qr, payments, webhookEvents, invoice, receipts>>

RefundRegistration(r) ==
    /\ At(r, "refundRegistration")
    /\ regStatus' = [regStatus EXCEPT ![req[r].order] = "REFUNDED"]
    /\ Respond(r)
    /\ UNCHANGED <<orderStatus, qr, payments, webhookEvents, invoice, receipts>>

-----------------------------------------------------------------------------
(* The request dies where it stands; what it has written stays written.    *)
Abort(r) ==
    /\ req[r] # Idle
    /\ Respond(r)
    /\ UNCHANGED tables

Begin(r) ==
    \/ \E o \in Orders : \/ CreateOrder(r, o)
                         \/ SubmitProof(r, o)
                         \/ ApproveManualPayment(r, o)
                         \/ RejectManualPayment(r, o)
                         \/ Refund(r, o)
    \/ \E e \in Events : ReceiveWebhook(r, e)

(* The next statement of a request in flight.                              *)
Continue(r) ==
    \/ InsertOrder(r) \/ InsertOrderConflict(r) \/ InsertGatewayPayment(r)
    \/ RecordEvent(r) \/ DismissEvent(r)
    \/ FindPayment(r) \/ FailPayment(r) \/ SucceedPayment(r)
    \/ MarkOrderPaid(r) \/ ConfirmRegistration(r) \/ QrCollision(r)
    \/ ReadOrder(r) \/ ReadInvoice(r) \/ InsertInvoice(r) \/ InsertInvoiceConflict(r)
    \/ AttachDocument(r) \/ EmitSucceeded(r)
    \/ FindClaim(r) \/ UpdateClaim(r)
    \/ InsertClaim(r) \/ InsertClaimConflict(r) \/ RefindClaim(r)
    \/ FindApproval(r) \/ ApproveClaim(r) \/ InsertApproved(r) \/ RejectClaim(r)
    \/ FindRefund(r) \/ RefundPayment(r) \/ RefundOrder(r) \/ RefundRegistration(r)

Next == \E r \in Requests : Begin(r) \/ Continue(r) \/ Abort(r)

Spec == Init /\ [][Next]_vars

(* Without failures every request that has arrived runs to its response:   *)
(* the Node event loop resumes each settled promise.                       *)
Undisturbed == \E r \in Requests : Begin(r) \/ Continue(r)

FairSpec == Init /\ [][Undisturbed]_vars /\ \A r \in Requests : WF_vars(Continue(r))

-----------------------------------------------------------------------------
(* Properties.                                                             *)

Settled(o) == orderStatus[o] \in {"PAID", "REFUNDED"}
MoneyFor(o) == \E p \in PaymentIds : payments[p].order = o /\ payments[p].paid

(* No order is PAID, or was, without a payment row of that order whose     *)
(* paidAt a verified webhook or an approval has set (PAY-002): whatever    *)
(* requests interleave or die, nothing else opens that path.               *)
PaidOrderHasMoney == \A o \in Orders : Settled(o) => MoneyFor(o)

(* A payment row that counts as money received or given back has paidAt:   *)
(* the refund path never hands back a payment that was never received.     *)
RefundedMoneyWasReceived ==
    \A p \in PaymentIds : payments[p].status \in {"SUCCESS", "REFUNDED"} => payments[p].paid

(* A registration leaves PENDING, and gets the QR code that opens the      *)
(* door, only after its order has been paid.                               *)
AdmissionIsPaidFor ==
    \A o \in Orders : regStatus[o] # "PENDING" \/ qr[o] # NoQr => Settled(o)

(* A registration that may enter holds a QR code, and no two registrations *)
(* ever hold the same one, not even after a re-confirmation.               *)
QrCodesIdentify ==
    \A o \in Orders :
        /\ regStatus[o] \in {"CONFIRMED", "CHECKED_IN"} => qr[o] # NoQr
        /\ \A other \in Orders \ {o} : qr[o] # NoQr => qr[o] # qr[other]

(* Concurrent proof submissions leave at most one open claim per order, so *)
(* an approval or a rejection has one claim to decide.                     *)
OneOpenClaim ==
    \A o \in Orders : \A p, q \in PendingClaims(o) : p = q

(* An invoice is only ever issued for an order that has been paid, and     *)
(* the receipt notification is only sent once there is an invoice.         *)
ReceiptsAreInvoiced ==
    \A o \in Orders : /\ invoice[o] # "NONE" => Settled(o)
                      /\ o \in receipts => invoice[o] # "NONE"

(* Deliveries of one event never work on payments at the same time: of     *)
(* any number of concurrent copies, one at most gets past the event table. *)
Applying(r) == req[r].at \in {"findPayment", "failPayment", "succeedPayment"}
EventAppliedOnce ==
    \A r, s \in Requests :
        r # s /\ Applying(r) /\ Applying(s) => EventKey(req[r].event) # EventKey(req[s].event)

(* The requests implement OrderLedger: read through this mapping, every    *)
(* statement of every request is one step of the ledger or none.           *)
Ledger == INSTANCE OrderLedger WITH
              order     <- orderStatus,
              admission <- regStatus,
              money     <- [o \in Orders |-> MoneyFor(o)],
              invoiced  <- [o \in Orders |-> invoice[o] # "NONE"]

ImplementsLedger == Ledger!Spec

(* When no request dies, a captured payment whose event has been recorded  *)
(* ends with the order paid and the registrant holding a QR code.          *)
CapturedIsConfirmed ==
    \A e \in {f \in Events : f.kind = "captured" /\ f.order \in Orders} :
        e \in webhookEvents ~> Settled(e.order) /\ qr[e.order] # NoQr

(* When no request dies, every order that stays PAID gets its invoice with *)
(* the document attached, and the registrant the receipt, even when two    *)
(* confirmations of the order compete for the invoice.                     *)
PaidIsInvoiced ==
    \A o \in Orders :
        orderStatus[o] = "PAID" ~> \/ invoice[o] = "ATTACHED" /\ o \in receipts
                                  \/ orderStatus[o] = "REFUNDED"

(* No request dies, and none draws taken codes until it has to give up.    *)
Smooth ==
    \E r \in Requests :
        \/ Begin(r)
        \/ Continue(r) /\ (At(r, "confirmRegistration") => req'[r] # Idle)

SmoothSpec == Init /\ [][Smooth]_vars

InHand(o, steps) == \E r \in Requests : req[r].order = o /\ req[r].at \in steps

(* In such runs no captured payment is forgotten: from the moment its event*)
(* is recorded, until the order is paid and the registrant has a QR code,  *)
(* some request holds the event or the order, and will go on with it.      *)
PaymentsAreInHand ==
    /\ \A e \in webhookEvents :
          e.kind = "captured" /\ e.order \in Orders =>
              \/ \E r \in Requests : /\ req[r].event = e
                                     /\ req[r].at \in {"findPayment", "succeedPayment"}
              \/ InHand(e.order, {"markOrderPaid"})
              \/ Settled(e.order)
    /\ \A o \in Orders : Settled(o) => qr[o] # NoQr \/ InHand(o, {"confirmRegistration"})

(* Nor is an order that is PAID: whoever competes for its invoice, until   *)
(* the document is attached and the receipt sent, the request that has the *)
(* next step to take is still there.                                       *)
InvoicesAreInHand ==
    \A o \in Orders :
        /\ orderStatus[o] = "PAID" /\ invoice[o] = "NONE" =>
              InHand(o, {"confirmRegistration", "readOrder", "readInvoice", "insertInvoice"})
        /\ invoice[o] = "ISSUED" => InHand(o, {"attachDocument"})
        /\ invoice[o] = "ATTACHED" /\ o \notin receipts => InHand(o, {"emitSucceeded"})

(* How many statements at most a request still has to run.                 *)
StatementsLeft(q) ==
    CASE q.at = "idle" -> 0
      [] q.at \in {"openCheckout", "failPayment", "updateClaim", "rejectClaim",
                   "refundRegistration", "emitSucceeded"} -> 1
      [] q.at \in {"insertOrder", "refindClaim", "refundOrder", "attachDocument"} -> 2
      [] q.at \in {"insertClaim", "refundPayment", "insertInvoice"} -> 3
      [] q.at \in {"findClaim", "findRefund", "readInvoice"} -> 4
      [] q.at = "readOrder" -> 5
      [] q.at = "confirmRegistration" -> 6 + (MaxQrAttempts - q.tries)
      [] q.at = "markOrderPaid" -> 7 + MaxQrAttempts
      [] q.at \in {"succeedPayment", "approveClaim", "insertApproved"} -> 8 + MaxQrAttempts
      [] q.at \in {"findPayment", "findApproval"} -> 9 + MaxQrAttempts
      [] q.at = "recordEvent" -> 10 + MaxQrAttempts

(* Every statement brings its request nearer to its response, the retries  *)
(* of taken codes included, and nothing that others do puts it further away*)
StatementsAreProgress ==
    [][\A r \in Requests :
          /\ Continue(r) => StatementsLeft(req'[r]) < StatementsLeft(req[r])
          /\ req[r] # Idle => StatementsLeft(req'[r]) <= StatementsLeft(req[r])]_vars

(* PaymentsService.handleWebhook: "Already processed this exact event"     *)
(* (payments.service.ts:68).  An event that is dismissed as a replay is    *)
(* one that has been recorded.                                             *)
DismissedIsReplay ==
    [][\A r \in Requests :
           DismissEvent(r) /\ req[r].event.order \in Orders
               => req[r].event \in webhookEvents]_vars

(* "Payment keeps the original providerPaymentId so a refund is always     *)
(* traceable to the exact transaction it reverses" (docs/plans/04, PAY-006)*)
PaymentKeepsTransaction ==
    [][\A p \in PaymentIds :
           payments[p].status \in {"SUCCESS", "REFUNDED"} /\ payments[p].attempt # NoAttempt
               => payments'[p].attempt = payments[p].attempt]_vars
=============================================================================
