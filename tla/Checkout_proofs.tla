--------------------------- MODULE Checkout_proofs ---------------------------
(***************************************************************************)
(* Proofs about Checkout, for any number of orders, payments, requests,    *)
(* gateways, attempts and QR codes.                                        *)
(*                                                                         *)
(* The argument has three layers.  TypeOK comes first.  StepIsMonotone     *)
(* then says what no step of any request ever takes back: rows do not      *)
(* vanish, an order that was paid stays settled, money stays received.     *)
(* On that rests RequestsOK, which says for each statement a request is    *)
(* about to run what its earlier reads and writes have established and no  *)
(* other request can undo; and from RequestsOK follows that each write     *)
(* keeps the tables consistent (TablesOK).                                 *)
(***************************************************************************)
EXTENDS Checkout, TLAPS

Confirming == {"markOrderPaid", "confirmRegistration", "readOrder", "readInvoice",
               "insertInvoice", "attachDocument", "emitSucceeded"}
Webhook == {"recordEvent", "findPayment", "failPayment", "succeedPayment"}
HoldsPayment == {"failPayment", "succeedPayment", "updateClaim", "approveClaim",
                 "rejectClaim", "refundPayment"}

(* What a request knows when it is about to run its next statement.        *)
RequestOK(r) ==
    LET q == req[r] IN
    /\ q.at \notin Webhook \cup {"idle"} => q.order \in Orders
    /\ q.at \notin Webhook \cup {"idle", "insertOrder"} => orderStatus[q.order] # "NONE"
    /\ q.at \in Webhook => q.event \in Events
    /\ Applying(r) => q.event \in webhookEvents
    /\ q.at \in HoldsPayment => /\ q.payment \in PaymentIds
                                /\ payments[q.payment].status # "ABSENT"
    /\ q.at = "approveClaim" => payments[q.payment].order = q.order
    /\ q.at = "refundPayment" => payments[q.payment].paid
    /\ q.at \in Confirming => MoneyFor(q.order)
    /\ q.at \in (Confirming \ {"markOrderPaid"}) \cup
                {"findRefund", "refundPayment", "refundOrder", "refundRegistration"}
           => Settled(q.order)
    /\ q.at \in {"attachDocument", "emitSucceeded"} => invoice[q.order] # "NONE"

RequestsOK == \A r \in Requests : RequestOK(r)

(* Every payment row belongs to an order that exists.                      *)
RowsOK ==
    \A p \in PaymentIds :
        /\ payments[p].status = "ABSENT" => payments[p] = Absent
        /\ payments[p].status # "ABSENT" => /\ payments[p].order \in Orders
                                            /\ orderStatus[payments[p].order] # "NONE"

TablesOK ==
    /\ RowsOK
    /\ PaidOrderHasMoney
    /\ RefundedMoneyWasReceived
    /\ AdmissionIsPaidFor
    /\ ReceiptsAreInvoiced

IInv == TypeOK /\ RequestsOK /\ TablesOK /\ QrCodesIdentify /\ OneOpenClaim /\ EventAppliedOnce

-----------------------------------------------------------------------------
(* Typing: the few ways in which a step changes the requests ...           *)

LEMMA GotoType ==
  ASSUME TypeOK, NEW r \in Requests, NEW step \in Steps, Goto(r, step)
  PROVE  req' \in [Requests -> RequestStates]
BY DEF TypeOK, Goto, RequestStates

LEMMA GotoWithType ==
  ASSUME TypeOK, NEW r \in Requests, NEW step \in Steps, NEW p \in PaymentIds,
         GotoWith(r, step, p)
  PROVE  req' \in [Requests -> RequestStates]
BY DEF TypeOK, GotoWith, RequestStates

LEMMA IdleType == Idle \in RequestStates
BY CheckoutAssumption DEF Idle, RequestStates, Steps

LEMMA RespondType ==
  ASSUME TypeOK, NEW r \in Requests, Respond(r)
  PROVE  req' \in [Requests -> RequestStates]
BY IdleType DEF TypeOK, Respond

LEMMA RestartType ==
  ASSUME TypeOK, NEW r \in Requests, NEW step \in Steps, NEW o \in Orders \cup {NoOrder},
         req' = [req EXCEPT ![r] = [Idle EXCEPT !.at = step, !.order = o]]
  PROVE  req' \in [Requests -> RequestStates]
BY IdleType DEF TypeOK, RequestStates

LEMMA ClaimType ==
  ASSUME TypeOK, NEW r \in Requests, NEW step \in Steps, NEW o \in Orders, NEW p \in PaymentIds,
         req' = [req EXCEPT ![r].at = step, ![r].order = o, ![r].payment = p]
  PROVE  req' \in [Requests -> RequestStates]
<1> DEFINE claim == [req[r] EXCEPT !.at = step, !.order = o, !.payment = p]
<1>1. req[r] \in RequestStates
  BY DEF TypeOK
<1>2. claim \in RequestStates
  BY <1>1 DEF RequestStates
<1>3. req' = [req EXCEPT ![r] = claim]
  OBVIOUS
<1> HIDE DEF claim
<1> QED
  BY <1>2, <1>3 DEF TypeOK

LEMMA EventType ==
  ASSUME TypeOK, NEW r \in Requests, NEW step \in Steps, NEW e \in Events,
         req' = [req EXCEPT ![r].at = step, ![r].event = e]
  PROVE  req' \in [Requests -> RequestStates]
BY DEF TypeOK, RequestStates

LEMMA TriesType ==
  ASSUME TypeOK, NEW r \in Requests, NEW step \in Steps, NEW t \in 0 .. MaxQrAttempts,
         req' = [req EXCEPT ![r].at = step, ![r].tries = t]
  PROVE  req' \in [Requests -> RequestStates]
BY DEF TypeOK, RequestStates

LEMMA RetryType ==
  ASSUME TypeOK, NEW r \in Requests, NEW t \in 0 .. MaxQrAttempts,
         req' = [req EXCEPT ![r].tries = t]
  PROVE  req' \in [Requests -> RequestStates]
BY DEF TypeOK, RequestStates

(* ... and the payments table.                                             *)
LEMMA InsertType ==
  ASSUME TypeOK, NEW row \in PaymentRows, InsertPayment(row)
  PROVE  payments' \in [PaymentIds -> PaymentRows]
BY DEF TypeOK, InsertPayment

LEMMA UpdateType ==
  ASSUME TypeOK, NEW p \in PaymentIds, NEW status \in PaymentStatuses,
         NEW attempt \in Attempts \cup {NoAttempt}, NEW paid \in BOOLEAN
  PROVE  [payments[p] EXCEPT !.status = status, !.attempt = attempt, !.paid = paid]
             \in PaymentRows
BY DEF TypeOK, PaymentRows

LEMMA TypeInit == Init => TypeOK
BY CheckoutAssumption, IdleType DEF Init, TypeOK, Absent, OrderStatuses, RegStatuses,
   PaymentRows, PaymentStatuses, InvoiceStates

LEMMA ReadOnlyType ==
  ASSUME TypeOK, UNCHANGED tables, req' \in [Requests -> RequestStates]
  PROVE  TypeOK'
BY DEF TypeOK, tables

(* Typing is preserved by each statement of each handler.                  *)
LEMMA TypeStep ==
  ASSUME TypeOK, RequestsOK, RowsOK, [Next]_vars
  PROVE  TypeOK'
<1> USE DEF Steps
<1>1. CASE UNCHANGED vars
  BY <1>1 DEF vars, TypeOK
<1>2. ASSUME NEW r \in Requests, RequestOK(r), NEW o \in Orders, CreateOrder(r, o)
      PROVE  TypeOK'
  BY <1>2, RestartType, ReadOnlyType DEF CreateOrder, Arrive
<1>3. ASSUME NEW r \in Requests, RequestOK(r), NEW o \in Orders, SubmitProof(r, o)
      PROVE  TypeOK'
  BY <1>3, RestartType, ReadOnlyType DEF SubmitProof, Arrive
<1>4. ASSUME NEW r \in Requests, RequestOK(r), NEW o \in Orders, ApproveManualPayment(r, o)
      PROVE  TypeOK'
  BY <1>4, RestartType, ReadOnlyType DEF ApproveManualPayment, Arrive
<1>5. ASSUME NEW r \in Requests, RequestOK(r), NEW o \in Orders, RejectManualPayment(r, o)
      PROVE  TypeOK'
  <2>1. PICK p \in PaymentIds : req' = [req EXCEPT ![r].at = "rejectClaim",
                                                   ![r].order = o, ![r].payment = p]
    BY <1>5 DEF RejectManualPayment, PendingClaims
  <2>2. req' \in [Requests -> RequestStates]
    BY <2>1, ClaimType
  <2> QED
    BY <1>5, <2>2, ReadOnlyType DEF RejectManualPayment
<1>6. ASSUME NEW r \in Requests, RequestOK(r), NEW o \in Orders, Refund(r, o)
      PROVE  TypeOK'
  BY <1>6, RestartType, ReadOnlyType DEF Refund, Arrive
<1>7. ASSUME NEW r \in Requests, RequestOK(r), NEW e \in Events, ReceiveWebhook(r, e)
      PROVE  TypeOK'
  <2>1. req' = [req EXCEPT ![r].at = "recordEvent", ![r].event = e]
    BY <1>7 DEF ReceiveWebhook
  <2>2. req' \in [Requests -> RequestStates]
    BY <2>1, EventType
  <2> QED
    BY <1>7, <2>2, ReadOnlyType DEF ReceiveWebhook
<1>8. ASSUME NEW r \in Requests, RequestOK(r), InsertOrder(r)
      PROVE  TypeOK'
  BY <1>8, RespondType, GotoType DEF InsertOrder, At, TypeOK, OrderStatuses
<1>9. ASSUME NEW r \in Requests, RequestOK(r), InsertOrderConflict(r)
      PROVE  TypeOK'
  BY <1>9, RespondType, ReadOnlyType DEF InsertOrderConflict, At
<1>10. ASSUME NEW r \in Requests, RequestOK(r), InsertGatewayPayment(r)
      PROVE  TypeOK'
  <2>1. PICK pv \in Providers :
            InsertPayment([order |-> req[r].order, provider |-> pv, status |-> "INITIATED",
                           attempt |-> NoAttempt, paid |-> FALSE])
    BY <1>10 DEF InsertGatewayPayment
  <2>2. req[r].order \in Orders
    BY <1>10 DEF InsertGatewayPayment, At, RequestOK, Webhook
  <2>3. payments' \in [PaymentIds -> PaymentRows]
    BY <2>1, <2>2, InsertType DEF PaymentRows, PaymentStatuses
  <2> QED
    BY <1>10, <2>3, RespondType DEF InsertGatewayPayment, TypeOK
<1>11. ASSUME NEW r \in Requests, RequestOK(r), RecordEvent(r)
      PROVE  TypeOK'
  <2>1. req[r].event \in Events
    BY <1>11 DEF RecordEvent, At, RequestOK, Webhook
  <2> QED
    BY <1>11, <2>1, GotoType DEF RecordEvent, TypeOK
<1>12. ASSUME NEW r \in Requests, RequestOK(r), DismissEvent(r)
      PROVE  TypeOK'
  BY <1>12, RespondType, ReadOnlyType DEF DismissEvent, At
<1>13. ASSUME NEW r \in Requests, RequestOK(r), FindPayment(r)
      PROVE  TypeOK'
  BY <1>13, RespondType, GotoWithType, ReadOnlyType DEF FindPayment, At
<1>14. ASSUME NEW r \in Requests, RequestOK(r), FailPayment(r)
      PROVE  TypeOK'
  <2>1. req[r].payment \in PaymentIds /\ req[r].event \in Events
    BY <1>14 DEF FailPayment, At, RequestOK, HoldsPayment, Webhook
  <2>2. payments' \in [PaymentIds -> PaymentRows]
    BY <1>14, <2>1 DEF FailPayment, TypeOK, PaymentRows, PaymentStatuses, Events
  <2> QED
    BY <1>14, <2>2, RespondType DEF FailPayment, TypeOK
<1>15. ASSUME NEW r \in Requests, RequestOK(r), SucceedPayment(r)
      PROVE  TypeOK'
  <2>1. req[r].payment \in PaymentIds /\ req[r].event \in Events
    BY <1>15 DEF SucceedPayment, At, RequestOK, HoldsPayment, Webhook
  <2>2. payments' \in [PaymentIds -> PaymentRows]
    BY <1>15, <2>1 DEF SucceedPayment, TypeOK, PaymentRows, PaymentStatuses, Events
  <2>3. ConfirmOrder(r, payments[req[r].payment].order)
    BY <1>15 DEF SucceedPayment
  <2>4. payments[req[r].payment].order \in Orders \cup {NoOrder}
    BY <2>1 DEF TypeOK, PaymentRows, RequestStates
  <2>5. req' \in [Requests -> RequestStates]
    BY <2>3, <2>4, RestartType DEF ConfirmOrder
  <2> QED
    BY <1>15, <2>2, <2>5 DEF SucceedPayment, TypeOK
<1>16. ASSUME NEW r \in Requests, RequestOK(r), MarkOrderPaid(r)
      PROVE  TypeOK'
  BY <1>16, GotoType DEF MarkOrderPaid, TypeOK, OrderStatuses
<1>17. ASSUME NEW r \in Requests, RequestOK(r), ConfirmRegistration(r)
      PROVE  TypeOK'
  <2>1. 0 \in 0 .. MaxQrAttempts
    BY CheckoutAssumption
  <2>2. req' \in [Requests -> RequestStates]
    BY <1>17, <2>1, TriesType DEF ConfirmRegistration
  <2> QED
    BY <1>17, <2>2 DEF ConfirmRegistration, TypeOK, RegStatuses
<1>18. ASSUME NEW r \in Requests, RequestOK(r), QrCollision(r)
      PROVE  TypeOK'
  <2>1. CASE Respond(r)
    BY <1>18, <2>1, RespondType, ReadOnlyType DEF QrCollision
  <2>2. CASE req[r].tries < MaxQrAttempts /\ req' = [req EXCEPT ![r].tries = @ + 1]
    <3>1. req[r].tries + 1 \in 0 .. MaxQrAttempts
      BY <2>2, CheckoutAssumption DEF TypeOK, RequestStates
    <3>2. req' \in [Requests -> RequestStates]
      BY <2>2, <3>1, RetryType
    <3> QED
      BY <1>18, <3>2, ReadOnlyType DEF QrCollision
  <2> QED
    BY <1>18, <2>1, <2>2 DEF QrCollision
<1>19. ASSUME NEW r \in Requests, RequestOK(r), ReadOrder(r)
      PROVE  TypeOK'
  BY <1>19, RespondType, GotoType, ReadOnlyType DEF ReadOrder, At
<1>20. ASSUME NEW r \in Requests, RequestOK(r), ReadInvoice(r)
      PROVE  TypeOK'
  BY <1>20, GotoType, ReadOnlyType DEF ReadInvoice
<1>21. ASSUME NEW r \in Requests, RequestOK(r), InsertInvoice(r)
      PROVE  TypeOK'
  BY <1>21, GotoType DEF InsertInvoice, TypeOK, InvoiceStates
<1>22. ASSUME NEW r \in Requests, RequestOK(r), InsertInvoiceConflict(r)
      PROVE  TypeOK'
  BY <1>22, RespondType, ReadOnlyType DEF InsertInvoiceConflict, At
<1>23. ASSUME NEW r \in Requests, RequestOK(r), AttachDocument(r)
      PROVE  TypeOK'
  BY <1>23, GotoType DEF AttachDocument, TypeOK, InvoiceStates
<1>24. ASSUME NEW r \in Requests, RequestOK(r), EmitSucceeded(r)
      PROVE  TypeOK'
  <2>1. req[r].order \in Orders
    BY <1>24 DEF EmitSucceeded, At, RequestOK, Webhook
  <2> QED
    BY <1>24, <2>1, RespondType DEF EmitSucceeded, TypeOK
<1>25. ASSUME NEW r \in Requests, RequestOK(r), FindClaim(r)
      PROVE  TypeOK'
  BY <1>25, GotoType, GotoWithType, ReadOnlyType DEF FindClaim, PendingClaims
<1>26. ASSUME NEW r \in Requests, RequestOK(r), UpdateClaim(r)
      PROVE  TypeOK'
  BY <1>26, RespondType, ReadOnlyType DEF UpdateClaim, At
<1>27. ASSUME NEW r \in Requests, RequestOK(r), InsertClaim(r)
      PROVE  TypeOK'
  <2>1. req[r].order \in Orders
    BY <1>27 DEF InsertClaim, At, RequestOK, Webhook
  <2>2. payments' \in [PaymentIds -> PaymentRows]
    BY <1>27, <2>1, InsertType DEF InsertClaim, PaymentRows, PaymentStatuses
  <2> QED
    BY <1>27, <2>2, RespondType DEF InsertClaim, TypeOK
<1>28. ASSUME NEW r \in Requests, RequestOK(r), InsertClaimConflict(r)
      PROVE  TypeOK'
  BY <1>28, GotoType, ReadOnlyType DEF InsertClaimConflict, At
<1>29. ASSUME NEW r \in Requests, RequestOK(r), RefindClaim(r)
      PROVE  TypeOK'
  BY <1>29, RespondType, GotoWithType, ReadOnlyType DEF RefindClaim, PendingClaims
<1>30. ASSUME NEW r \in Requests, RequestOK(r), FindApproval(r)
      PROVE  TypeOK'
  BY <1>30, GotoType, GotoWithType, ReadOnlyType DEF FindApproval, PendingClaims
<1>31. ASSUME NEW r \in Requests, RequestOK(r), ApproveClaim(r)
      PROVE  TypeOK'
  <2>1. req[r].payment \in PaymentIds
    BY <1>31 DEF ApproveClaim, At, RequestOK, HoldsPayment
  <2>2. payments' \in [PaymentIds -> PaymentRows]
    BY <1>31, <2>1 DEF ApproveClaim, TypeOK, PaymentRows, PaymentStatuses
  <2>3. ConfirmOrder(r, req[r].order)
    BY <1>31 DEF ApproveClaim
  <2>4. req[r].order \in Orders \cup {NoOrder}
    BY DEF TypeOK, RequestStates
  <2>5. req' \in [Requests -> RequestStates]
    BY <2>3, <2>4, RestartType DEF ConfirmOrder
  <2> QED
    BY <1>31, <2>2, <2>5 DEF ApproveClaim, TypeOK
<1>32. ASSUME NEW r \in Requests, RequestOK(r), InsertApproved(r)
      PROVE  TypeOK'
  <2>1. req[r].order \in Orders
    BY <1>32 DEF InsertApproved, At, RequestOK, Webhook
  <2>2. payments' \in [PaymentIds -> PaymentRows]
    BY <1>32, <2>1, InsertType DEF InsertApproved, PaymentRows, PaymentStatuses
  <2>3. ConfirmOrder(r, req[r].order)
    BY <1>32 DEF InsertApproved
  <2>4. req' \in [Requests -> RequestStates]
    BY <2>1, <2>3, RestartType DEF ConfirmOrder
  <2> QED
    BY <1>32, <2>2, <2>4 DEF InsertApproved, TypeOK
<1>33. ASSUME NEW r \in Requests, RequestOK(r), RejectClaim(r)
      PROVE  TypeOK'
  <2>1. req[r].payment \in PaymentIds
    BY <1>33 DEF RejectClaim, At, RequestOK, HoldsPayment
  <2>2. payments' \in [PaymentIds -> PaymentRows]
    BY <1>33, <2>1 DEF RejectClaim, TypeOK, PaymentRows, PaymentStatuses
  <2> QED
    BY <1>33, <2>2, RespondType DEF RejectClaim, TypeOK
<1>34. ASSUME NEW r \in Requests, RequestOK(r), FindRefund(r)
      PROVE  TypeOK'
  BY <1>34, RespondType, GotoWithType, ReadOnlyType DEF FindRefund, At
<1>35. ASSUME NEW r \in Requests, RequestOK(r), RefundPayment(r)
      PROVE  TypeOK'
  <2>1. req[r].payment \in PaymentIds
    BY <1>35 DEF RefundPayment, At, RequestOK, HoldsPayment
  <2>2. payments' \in [PaymentIds -> PaymentRows]
    BY <1>35, <2>1 DEF RefundPayment, TypeOK, PaymentRows, PaymentStatuses
  <2>3. req[r].order \in Orders \cup {NoOrder}
    BY DEF TypeOK, RequestStates
  <2>4. req' \in [Requests -> RequestStates]
    BY <1>35, <2>3, RestartType DEF RefundPayment
  <2> QED
    BY <1>35, <2>2, <2>4 DEF RefundPayment, TypeOK
<1>36. ASSUME NEW r \in Requests, RequestOK(r), RefundOrder(r)
      PROVE  TypeOK'
  BY <1>36, GotoType DEF RefundOrder, TypeOK, OrderStatuses
<1>37. ASSUME NEW r \in Requests, RequestOK(r), RefundRegistration(r)
      PROVE  TypeOK'
  BY <1>37, RespondType DEF RefundRegistration, TypeOK, RegStatuses
<1>38. ASSUME NEW r \in Requests, RequestOK(r), Abort(r)
      PROVE  TypeOK'
  BY <1>38, RespondType, ReadOnlyType DEF Abort, At
<1> QED
  BY <1>1, <1>2, <1>3, <1>4, <1>5, <1>6, <1>7, <1>8, <1>9, <1>10, <1>11, <1>12, <1>13, <1>14, <1>15, <1>16, <1>17, <1>18, <1>19, <1>20, <1>21, <1>22, <1>23, <1>24, <1>25, <1>26, <1>27, <1>28, <1>29, <1>30, <1>31, <1>32, <1>33, <1>34, <1>35, <1>36, <1>37, <1>38
     DEF Next, Begin, Continue, RequestsOK

-----------------------------------------------------------------------------
(* What no step takes back.                                                *)

Monotone ==
    /\ \A o \in Orders : /\ orderStatus[o] # "NONE" => orderStatus'[o] # "NONE"
                         /\ Settled(o) => Settled(o)'
                         /\ invoice[o] # "NONE" => invoice'[o] # "NONE"
    /\ \A p \in PaymentIds :
           payments[p].status # "ABSENT" =>
               /\ payments'[p].status # "ABSENT"
               /\ payments'[p].order = payments[p].order
               /\ payments'[p].provider = payments[p].provider
               /\ payments[p].paid => payments'[p].paid
    /\ webhookEvents \subseteq webhookEvents'

(* Writing one payment row, existing before, keeps it a row of its order.  *)
RowWritten(p) ==
    /\ p \in PaymentIds
    /\ payments[p].status # "ABSENT"
    /\ payments'[p].status # "ABSENT"
    /\ payments'[p].order = payments[p].order
    /\ payments'[p].provider = payments[p].provider
    /\ payments[p].paid => payments'[p].paid
    /\ \A other \in PaymentIds \ {p} : payments'[other] = payments[other]

RowInserted(o) ==
    \E p \in PaymentIds :
        /\ payments[p].status = "ABSENT"
        /\ payments'[p].status # "ABSENT"
        /\ payments'[p].order = o
        /\ \A other \in PaymentIds \ {p} : payments'[other] = payments[other]

(* The six handlers that update a payment row, and the three that insert   *)
(* one, change the table in these two ways only.                           *)
LEMMA PaymentWrites ==
  ASSUME TypeOK, RequestsOK, [Next]_vars
  PROVE  \/ UNCHANGED payments
         \/ \E p \in PaymentIds : RowWritten(p)
         \/ \E o \in Orders : orderStatus[o] # "NONE" /\ RowInserted(o)
<1> DEFINE Goal == \/ UNCHANGED payments
                   \/ \E p \in PaymentIds : RowWritten(p)
                   \/ \E o \in Orders : orderStatus[o] # "NONE" /\ RowInserted(o)
<1> USE DEF TypeOK, PaymentRows
<1>1. ASSUME NEW r \in Requests, RequestOK(r), FailPayment(r)
      PROVE  Goal
  <2>1. req[r].payment \in PaymentIds /\ payments[req[r].payment].status # "ABSENT"
    BY <1>1 DEF FailPayment, At, RequestOK, HoldsPayment
  <2>2. RowWritten(req[r].payment)
    BY <1>1, <2>1 DEF FailPayment, RowWritten
  <2> QED
    BY <2>1, <2>2
<1>2. ASSUME NEW r \in Requests, RequestOK(r), SucceedPayment(r)
      PROVE  Goal
  <2>1. req[r].payment \in PaymentIds /\ payments[req[r].payment].status # "ABSENT"
    BY <1>2 DEF SucceedPayment, At, RequestOK, HoldsPayment
  <2>2. RowWritten(req[r].payment)
    BY <1>2, <2>1 DEF SucceedPayment, RowWritten
  <2> QED
    BY <2>1, <2>2
<1>3. ASSUME NEW r \in Requests, RequestOK(r), ApproveClaim(r)
      PROVE  Goal
  <2>1. req[r].payment \in PaymentIds /\ payments[req[r].payment].status # "ABSENT"
    BY <1>3 DEF ApproveClaim, At, RequestOK, HoldsPayment
  <2>2. RowWritten(req[r].payment)
    BY <1>3, <2>1 DEF ApproveClaim, RowWritten
  <2> QED
    BY <2>1, <2>2
<1>4. ASSUME NEW r \in Requests, RequestOK(r), RejectClaim(r)
      PROVE  Goal
  <2>1. req[r].payment \in PaymentIds /\ payments[req[r].payment].status # "ABSENT"
    BY <1>4 DEF RejectClaim, At, RequestOK, HoldsPayment
  <2>2. RowWritten(req[r].payment)
    BY <1>4, <2>1 DEF RejectClaim, RowWritten
  <2> QED
    BY <2>1, <2>2
<1>5. ASSUME NEW r \in Requests, RequestOK(r), RefundPayment(r)
      PROVE  Goal
  <2>1. req[r].payment \in PaymentIds /\ payments[req[r].payment].status # "ABSENT"
    BY <1>5 DEF RefundPayment, At, RequestOK, HoldsPayment
  <2>2. RowWritten(req[r].payment)
    BY <1>5, <2>1 DEF RefundPayment, RowWritten
  <2> QED
    BY <2>1, <2>2
<1>6. ASSUME NEW r \in Requests, RequestOK(r), InsertGatewayPayment(r)
      PROVE  Goal
  <2>1. req[r].order \in Orders /\ orderStatus[req[r].order] # "NONE"
    BY <1>6 DEF InsertGatewayPayment, At, RequestOK, Webhook
  <2>2. RowInserted(req[r].order)
    BY <1>6 DEF InsertGatewayPayment, InsertPayment, RowInserted
  <2> QED
    BY <2>1, <2>2
<1>7. ASSUME NEW r \in Requests, RequestOK(r), InsertClaim(r)
      PROVE  Goal
  <2>1. req[r].order \in Orders /\ orderStatus[req[r].order] # "NONE"
    BY <1>7 DEF InsertClaim, At, RequestOK, Webhook
  <2>2. RowInserted(req[r].order)
    BY <1>7 DEF InsertClaim, InsertPayment, RowInserted
  <2> QED
    BY <2>1, <2>2
<1>8. ASSUME NEW r \in Requests, RequestOK(r), InsertApproved(r)
      PROVE  Goal
  <2>1. req[r].order \in Orders /\ orderStatus[req[r].order] # "NONE"
    BY <1>8 DEF InsertApproved, At, RequestOK, Webhook
  <2>2. RowInserted(req[r].order)
    BY <1>8 DEF InsertApproved, InsertPayment, RowInserted
  <2> QED
    BY <2>1, <2>2
<1>9. ASSUME NEW r \in Requests, Begin(r) \/ Abort(r) PROVE UNCHANGED payments
  BY <1>9 DEF Begin, Abort, tables, CreateOrder, SubmitProof, ApproveManualPayment, RejectManualPayment, Refund, ReceiveWebhook
<1>10. ASSUME NEW r \in Requests, Continue(r),
             ~FailPayment(r), ~SucceedPayment(r), ~ApproveClaim(r), ~RejectClaim(r),
             ~RefundPayment(r), ~InsertGatewayPayment(r), ~InsertClaim(r), ~InsertApproved(r)
      PROVE  UNCHANGED payments
  BY <1>10 DEF Continue, tables, InsertOrder, RecordEvent, MarkOrderPaid, ConfirmRegistration, InsertInvoice,
     AttachDocument, EmitSucceeded, RefundOrder, RefundRegistration,
     InsertOrderConflict, DismissEvent, FindPayment, QrCollision, ReadOrder, ReadInvoice,
     InsertInvoiceConflict, FindClaim, UpdateClaim, InsertClaimConflict, RefindClaim, FindApproval, FindRefund
<1> QED
  BY <1>1, <1>2, <1>3, <1>4, <1>5, <1>6, <1>7, <1>8, <1>9, <1>10 DEF Next, vars, RequestsOK

(* An order row is inserted once, and once paid it stays settled.          *)
LEMMA OrderWrites ==
  ASSUME TypeOK, RequestsOK, [Next]_vars, NEW o \in Orders
  PROVE  /\ orderStatus[o] # "NONE" => orderStatus'[o] # "NONE"
         /\ Settled(o) => Settled(o)'
<1> USE DEF TypeOK, Settled
<1>1. ASSUME NEW r \in Requests, RequestOK(r), InsertOrder(r) \/ MarkOrderPaid(r) \/ RefundOrder(r)
      PROVE  /\ orderStatus[o] # "NONE" => orderStatus'[o] # "NONE"
             /\ Settled(o) => Settled(o)'
  BY <1>1 DEF InsertOrder, MarkOrderPaid, RefundOrder
<1>2. ASSUME NEW r \in Requests, Begin(r) \/ Abort(r) PROVE UNCHANGED orderStatus
  BY <1>2 DEF Begin, Abort, tables, CreateOrder, SubmitProof, ApproveManualPayment, RejectManualPayment, Refund, ReceiveWebhook
<1>3. ASSUME NEW r \in Requests, Continue(r),
             ~InsertOrder(r), ~MarkOrderPaid(r), ~RefundOrder(r)
      PROVE  UNCHANGED orderStatus
  BY <1>3 DEF Continue, tables, InsertGatewayPayment, RecordEvent, FailPayment, SucceedPayment,
     ConfirmRegistration, InsertInvoice, AttachDocument, EmitSucceeded, InsertClaim,
     ApproveClaim, InsertApproved, RejectClaim, RefundPayment, RefundRegistration,
     InsertOrderConflict, DismissEvent, FindPayment, QrCollision, ReadOrder, ReadInvoice,
     InsertInvoiceConflict, FindClaim, UpdateClaim, InsertClaimConflict, RefindClaim, FindApproval, FindRefund
<1> QED
  BY <1>1, <1>2, <1>3 DEF Next, vars, RequestsOK

(* Invoices and recorded events are never deleted.                         *)
LEMMA InvoiceWrites ==
  ASSUME TypeOK, [Next]_vars, NEW o \in Orders, invoice[o] # "NONE"
  PROVE  invoice'[o] # "NONE"
<1>1. ASSUME NEW r \in Requests, InsertInvoice(r) \/ AttachDocument(r)
      PROVE  invoice'[o] # "NONE"
  BY <1>1 DEF TypeOK, InsertInvoice, AttachDocument
<1>2. ASSUME NEW r \in Requests, Begin(r) \/ Abort(r) PROVE UNCHANGED invoice
  BY <1>2 DEF Begin, Abort, tables, CreateOrder, SubmitProof, ApproveManualPayment, RejectManualPayment, Refund, ReceiveWebhook
<1>3. ASSUME NEW r \in Requests, Continue(r), ~InsertInvoice(r), ~AttachDocument(r)
      PROVE  UNCHANGED invoice
  BY <1>3 DEF Continue, tables, InsertOrder, MarkOrderPaid, RefundOrder, InsertGatewayPayment,
     RecordEvent, FailPayment, SucceedPayment, ConfirmRegistration, EmitSucceeded, InsertClaim,
     ApproveClaim, InsertApproved, RejectClaim, RefundPayment, RefundRegistration,
     InsertOrderConflict, DismissEvent, FindPayment, QrCollision, ReadOrder, ReadInvoice,
     InsertInvoiceConflict, FindClaim, UpdateClaim, InsertClaimConflict, RefindClaim, FindApproval, FindRefund
<1> QED
  BY <1>1, <1>2, <1>3 DEF Next, vars

LEMMA EventWrites ==
  ASSUME [Next]_vars
  PROVE  webhookEvents \subseteq webhookEvents'
<1>1. ASSUME NEW r \in Requests, Begin(r) \/ Abort(r) PROVE UNCHANGED webhookEvents
  BY <1>1 DEF Begin, Abort, tables, CreateOrder, SubmitProof, ApproveManualPayment, RejectManualPayment, Refund, ReceiveWebhook
<1>2. ASSUME NEW r \in Requests, Continue(r), ~RecordEvent(r) PROVE UNCHANGED webhookEvents
  BY <1>2 DEF Continue, tables, InsertOrder, MarkOrderPaid, RefundOrder, InsertGatewayPayment,
     InsertInvoice, AttachDocument, FailPayment, SucceedPayment, ConfirmRegistration,
     EmitSucceeded, InsertClaim, ApproveClaim, InsertApproved, RejectClaim, RefundPayment,
     RefundRegistration,
     InsertOrderConflict, DismissEvent, FindPayment, QrCollision, ReadOrder, ReadInvoice,
     InsertInvoiceConflict, FindClaim, UpdateClaim, InsertClaimConflict, RefindClaim, FindApproval, FindRefund
<1> QED
  BY <1>1, <1>2 DEF Next, vars, RecordEvent

LEMMA StepIsMonotone ==
  ASSUME TypeOK, RequestsOK, RowsOK, [Next]_vars
  PROVE  Monotone /\ RowsOK'
<1>1. Monotone
  BY PaymentWrites, OrderWrites, InvoiceWrites, EventWrites
     DEF Monotone, RowWritten, RowInserted
<1>2. RowsOK'
  BY PaymentWrites, OrderWrites DEF RowsOK, RowWritten, RowInserted
<1> QED
  BY <1>1, <1>2

LEMMA MoneyStays ==
  ASSUME RowsOK, Monotone, NEW o \in Orders, MoneyFor(o)
  PROVE  MoneyFor(o)'
BY DEF MoneyFor, RowsOK, Monotone, Absent

(* What a request relies on survives the steps of the others.              *)
LEMMA OthersOK ==
  ASSUME TypeOK, RowsOK, Monotone, NEW s \in Requests, RequestOK(s), req'[s] = req[s]
  PROVE  RequestOK(s)'
<1>1. req[s].at \in Confirming => MoneyFor(req[s].order)'
  BY MoneyStays DEF RequestOK, Confirming, Webhook
<1> QED
  BY <1>1 DEF RequestOK, Monotone, Applying, Confirming, Webhook, HoldsPayment

LEMMA IdleOK ==
  ASSUME NEW r \in Requests, req'[r] = Idle
  PROVE  RequestOK(r)'
BY DEF RequestOK, Idle, Webhook, HoldsPayment, Confirming, Applying

-----------------------------------------------------------------------------
(* What a request relies on holds after each step of its own.              *)

LEMMA RequestsStep ==
  ASSUME TypeOK, RequestsOK, RowsOK, PaidOrderHasMoney, RefundedMoneyWasReceived, [Next]_vars
  PROVE  RequestsOK'
<1> DEFINE Others(r) == \A s \in Requests \ {r} : req'[s] = req[s]
<1>0. Monotone /\ RowsOK'
  BY StepIsMonotone
<1>1. CASE UNCHANGED vars
  BY <1>0, <1>1, OthersOK DEF vars, RequestsOK
<1> USE CheckoutAssumption DEF TypeOK, RequestOK, Webhook, Confirming, HoldsPayment, Applying, Idle
<1>2. ASSUME NEW r \in Requests, RequestOK(r), NEW o \in Orders, CreateOrder(r, o)
      PROVE  RequestOK(r)' /\ Others(r)
  BY <1>2 DEF CreateOrder, Arrive, tables
<1>3. ASSUME NEW r \in Requests, RequestOK(r), NEW o \in Orders, SubmitProof(r, o)
      PROVE  RequestOK(r)' /\ Others(r)
  BY <1>3 DEF SubmitProof, Arrive, tables
<1>4. ASSUME NEW r \in Requests, RequestOK(r), NEW o \in Orders, ApproveManualPayment(r, o)
      PROVE  RequestOK(r)' /\ Others(r)
  BY <1>4 DEF ApproveManualPayment, Arrive, tables
<1>5. ASSUME NEW r \in Requests, RequestOK(r), NEW o \in Orders, Refund(r, o)
      PROVE  RequestOK(r)' /\ Others(r)
  BY <1>5 DEF Refund, Arrive, tables, Settled
<1>6. ASSUME NEW r \in Requests, RequestOK(r), NEW o \in Orders, RejectManualPayment(r, o)
      PROVE  RequestOK(r)' /\ Others(r)
  BY <1>6 DEF RejectManualPayment, PendingClaims, tables
<1>7. ASSUME NEW r \in Requests, RequestOK(r), NEW e \in Events, ReceiveWebhook(r, e)
      PROVE  RequestOK(r)' /\ Others(r)
  BY <1>7 DEF ReceiveWebhook, tables
<1>8. ASSUME NEW r \in Requests, RequestOK(r), InsertOrderConflict(r)
      PROVE  RequestOK(r)' /\ Others(r)
  BY <1>8, IdleOK DEF InsertOrderConflict, Respond
<1>9. ASSUME NEW r \in Requests, RequestOK(r), InsertGatewayPayment(r)
      PROVE  RequestOK(r)' /\ Others(r)
  BY <1>9, IdleOK DEF InsertGatewayPayment, Respond
<1>10. ASSUME NEW r \in Requests, RequestOK(r), DismissEvent(r)
      PROVE  RequestOK(r)' /\ Others(r)
  BY <1>10, IdleOK DEF DismissEvent, Respond
<1>11. ASSUME NEW r \in Requests, RequestOK(r), FailPayment(r)
      PROVE  RequestOK(r)' /\ Others(r)
  BY <1>11, IdleOK DEF FailPayment, Respond
<1>12. ASSUME NEW r \in Requests, RequestOK(r), InsertInvoiceConflict(r)
      PROVE  RequestOK(r)' /\ Others(r)
  BY <1>12, IdleOK DEF InsertInvoiceConflict, Respond
<1>13. ASSUME NEW r \in Requests, RequestOK(r), EmitSucceeded(r)
      PROVE  RequestOK(r)' /\ Others(r)
  BY <1>13, IdleOK DEF EmitSucceeded, Respond
<1>14. ASSUME NEW r \in Requests, RequestOK(r), UpdateClaim(r)
      PROVE  RequestOK(r)' /\ Others(r)
  BY <1>14, IdleOK DEF UpdateClaim, Respond
<1>15. ASSUME NEW r \in Requests, RequestOK(r), InsertClaim(r)
      PROVE  RequestOK(r)' /\ Others(r)
  BY <1>15, IdleOK DEF InsertClaim, Respond
<1>16. ASSUME NEW r \in Requests, RequestOK(r), RejectClaim(r)
      PROVE  RequestOK(r)' /\ Others(r)
  BY <1>16, IdleOK DEF RejectClaim, Respond
<1>17. ASSUME NEW r \in Requests, RequestOK(r), RefundRegistration(r)
      PROVE  RequestOK(r)' /\ Others(r)
  BY <1>17, IdleOK DEF RefundRegistration, Respond
<1>18. ASSUME NEW r \in Requests, RequestOK(r), Abort(r)
      PROVE  RequestOK(r)' /\ Others(r)
  BY <1>18, IdleOK DEF Abort, Respond
<1>19. ASSUME NEW r \in Requests, RequestOK(r), InsertOrder(r)
      PROVE  RequestOK(r)' /\ Others(r)
  <2>1. CASE Respond(r)
    BY <2>1, IdleOK DEF Respond
  <2>2. CASE Goto(r, "openCheckout")
    BY <1>19, <2>2 DEF InsertOrder, At, Goto
  <2> QED
    BY <1>19, <2>1, <2>2 DEF InsertOrder
<1>20. ASSUME NEW r \in Requests, RequestOK(r), RecordEvent(r)
      PROVE  RequestOK(r)' /\ Others(r)
  BY <1>20 DEF RecordEvent, At, Goto
<1>21. ASSUME NEW r \in Requests, RequestOK(r), FindPayment(r)
      PROVE  RequestOK(r)' /\ Others(r)
  <2>1. CASE Respond(r)
    BY <2>1, IdleOK DEF Respond
  <2>2. ASSUME NEW p \in PaymentIds, payments[p].order = req[r].event.order,
               NEW step \in {"succeedPayment", "failPayment"}, GotoWith(r, step, p)
        PROVE  RequestOK(r)' /\ Others(r)
    <3>1. req[r].event.order # NoOrder
      BY <1>21 DEF FindPayment, At, Events
    <3>2. payments[p].status # "ABSENT"
      BY <2>2, <3>1 DEF RowsOK, Absent
    <3>3. req'[r] = [req[r] EXCEPT !.at = step, !.payment = p]
      BY <2>2 DEF GotoWith
    <3>4. req[r].event \in Events /\ req[r].event \in webhookEvents /\ UNCHANGED tables
      BY <1>21 DEF FindPayment, At
    <3>5. RequestOK(r)'
      BY <2>2, <3>2, <3>3, <3>4 DEF tables, RequestStates
    <3> QED
      BY <2>2, <3>5 DEF GotoWith
  <2> QED
    BY <1>21, <2>1, <2>2 DEF FindPayment
<1>22. ASSUME NEW r \in Requests, RequestOK(r), SucceedPayment(r)
      PROVE  RequestOK(r)' /\ Others(r)
  <2> DEFINE p == req[r].payment
  <2>1. PICK o \in Orders : p \in PaymentIds /\ payments[p].order = o /\ orderStatus[o] # "NONE"
    BY <1>22 DEF SucceedPayment, At, RowsOK
  <2>2. payments'[p].order = o /\ payments'[p].paid
    BY <1>22, <2>1 DEF SucceedPayment, PaymentRows
  <2>3. MoneyFor(o)'
    BY <2>1, <2>2 DEF MoneyFor
  <2>4. req' = [req EXCEPT ![r] = [Idle EXCEPT !.at = "markOrderPaid", !.order = o]]
    BY <1>22, <2>1 DEF SucceedPayment, ConfirmOrder
  <2>5. UNCHANGED orderStatus
    BY <1>22 DEF SucceedPayment
  <2> QED
    BY <2>1, <2>3, <2>4, <2>5
<1>23. ASSUME NEW r \in Requests, RequestOK(r), MarkOrderPaid(r)
      PROVE  RequestOK(r)' /\ Others(r)
  <2>1. PICK o \in Orders : o = req[r].order /\ MoneyFor(o)
    BY <1>23 DEF MarkOrderPaid, At
  <2>2. MoneyFor(o)'
    BY <1>0, <2>1, MoneyStays
  <2>3. Settled(o)' /\ orderStatus'[o] # "NONE"
    BY <1>23, <2>1 DEF MarkOrderPaid, Settled
  <2> QED
    BY <1>23, <2>1, <2>2, <2>3 DEF MarkOrderPaid, Goto
<1>24. ASSUME NEW r \in Requests, RequestOK(r), ConfirmRegistration(r)
      PROVE  RequestOK(r)' /\ Others(r)
  <2>1. PICK o \in Orders : o = req[r].order /\ MoneyFor(o) /\ Settled(o)
    BY <1>24 DEF ConfirmRegistration, At
  <2>2. MoneyFor(o)' /\ Settled(o)' /\ orderStatus'[o] # "NONE"
    BY <1>0, <2>1, MoneyStays DEF Monotone, Settled
  <2>3. req'[r].at = "readOrder" /\ req'[r].order = o
    BY <1>24, <2>1 DEF ConfirmRegistration, At, Goto, tables
  <2>4. RequestOK(r)'
    BY <2>2, <2>3
  <2> QED
    BY <1>24, <2>4 DEF ConfirmRegistration, Goto
<1>25. ASSUME NEW r \in Requests, RequestOK(r), ReadInvoice(r)
      PROVE  RequestOK(r)' /\ Others(r)
  <2>1. PICK o \in Orders : o = req[r].order /\ MoneyFor(o) /\ Settled(o)
    BY <1>25 DEF ReadInvoice, At
  <2>2. MoneyFor(o)' /\ Settled(o)' /\ orderStatus'[o] # "NONE"
    BY <1>0, <2>1, MoneyStays DEF Monotone, Settled
  <2>3. req'[r].at \in {"insertInvoice", "emitSucceeded"} /\ req'[r].order = o /\ (req'[r].at = "emitSucceeded" => invoice'[o] # "NONE")
    BY <1>25, <2>1 DEF ReadInvoice, At, Goto, tables
  <2>4. RequestOK(r)'
    BY <2>2, <2>3
  <2> QED
    BY <1>25, <2>4 DEF ReadInvoice, Goto
<1>26. ASSUME NEW r \in Requests, RequestOK(r), InsertInvoice(r)
      PROVE  RequestOK(r)' /\ Others(r)
  <2>1. PICK o \in Orders : o = req[r].order /\ MoneyFor(o) /\ Settled(o)
    BY <1>26 DEF InsertInvoice, At
  <2>2. MoneyFor(o)' /\ Settled(o)' /\ orderStatus'[o] # "NONE"
    BY <1>0, <2>1, MoneyStays DEF Monotone, Settled
  <2>3. req'[r].at = "attachDocument" /\ req'[r].order = o /\ invoice'[o] # "NONE"
    BY <1>26, <2>1 DEF InsertInvoice, At, Goto, tables
  <2>4. RequestOK(r)'
    BY <2>2, <2>3
  <2> QED
    BY <1>26, <2>4 DEF InsertInvoice, Goto
<1>27. ASSUME NEW r \in Requests, RequestOK(r), AttachDocument(r)
      PROVE  RequestOK(r)' /\ Others(r)
  <2>1. PICK o \in Orders : o = req[r].order /\ MoneyFor(o) /\ Settled(o)
    BY <1>27 DEF AttachDocument, At
  <2>2. MoneyFor(o)' /\ Settled(o)' /\ orderStatus'[o] # "NONE"
    BY <1>0, <2>1, MoneyStays DEF Monotone, Settled
  <2>3. req'[r].at = "emitSucceeded" /\ req'[r].order = o /\ invoice'[o] # "NONE"
    BY <1>27, <2>1 DEF AttachDocument, At, Goto, tables
  <2>4. RequestOK(r)'
    BY <2>2, <2>3
  <2> QED
    BY <1>27, <2>4 DEF AttachDocument, Goto
<1>28. ASSUME NEW r \in Requests, RequestOK(r), ReadOrder(r)
      PROVE  RequestOK(r)' /\ Others(r)
  <2>1. PICK o \in Orders : o = req[r].order /\ MoneyFor(o) /\ Settled(o)
    BY <1>28 DEF ReadOrder, At
  <2>2. MoneyFor(o)' /\ Settled(o)' /\ orderStatus'[o] # "NONE"
    BY <1>0, <2>1, MoneyStays DEF Monotone, Settled
  <2>3. CASE Respond(r)
    BY <2>3, IdleOK DEF Respond
  <2>4. CASE Goto(r, "readInvoice")
    <3>1. req'[r].at \in {"readInvoice", "confirmRegistration"} /\ req'[r].order = o
      BY <1>28, <2>1, <2>4 DEF ReadOrder, At, Goto
    <3>2. RequestOK(r)'
      BY <2>2, <3>1
    <3> QED
      BY <2>4, <3>2 DEF Goto
  <2> QED
    BY <1>28, <2>3, <2>4 DEF ReadOrder
<1>29. ASSUME NEW r \in Requests, RequestOK(r), QrCollision(r)
      PROVE  RequestOK(r)' /\ Others(r)
  <2>1. PICK o \in Orders : o = req[r].order /\ MoneyFor(o) /\ Settled(o)
    BY <1>29 DEF QrCollision, At
  <2>2. MoneyFor(o)' /\ Settled(o)' /\ orderStatus'[o] # "NONE"
    BY <1>0, <2>1, MoneyStays DEF Monotone, Settled
  <2>3. CASE Respond(r)
    BY <2>3, IdleOK DEF Respond
  <2>4. CASE req' = [req EXCEPT ![r].tries = @ + 1]
    <3>1. req'[r].at \in {"readInvoice", "confirmRegistration"} /\ req'[r].order = o
      BY <1>29, <2>1, <2>4 DEF QrCollision, At, Goto
    <3>2. RequestOK(r)'
      BY <2>2, <3>1
    <3> QED
      BY <2>4, <3>2 DEF Goto
  <2> QED
    BY <1>29, <2>3, <2>4 DEF QrCollision
<1>30. ASSUME NEW r \in Requests, RequestOK(r), FindClaim(r)
      PROVE  RequestOK(r)' /\ Others(r)
  <2>1. PICK o \in Orders : o = req[r].order /\ orderStatus[o] # "NONE"
    BY <1>30 DEF FindClaim, At
  <2>2. ASSUME NEW p \in PendingClaims(o), GotoWith(r, "updateClaim", p)
        PROVE  RequestOK(r)' /\ Others(r)
    <3>1. p \in PaymentIds /\ payments[p].status # "ABSENT" /\ payments[p].order = o
      BY DEF PendingClaims
    <3>2. req'[r].at = "updateClaim" /\ req'[r].payment = p /\ req'[r].order = o
      BY <2>1, <2>2 DEF GotoWith
    <3>3. UNCHANGED tables
      BY <1>30 DEF FindClaim
    <3>4. RequestOK(r)'
      BY <2>1, <3>1, <3>2, <3>3 DEF tables
    <3> QED
      BY <2>2, <3>4 DEF GotoWith
  <2>3. CASE Goto(r, "insertClaim")
    BY <1>30, <2>1, <2>3 DEF FindClaim, At, Goto, tables
  <2> QED
    BY <1>30, <2>1, <2>2, <2>3 DEF FindClaim
<1>31. ASSUME NEW r \in Requests, RequestOK(r), InsertClaimConflict(r)
      PROVE  RequestOK(r)' /\ Others(r)
  BY <1>31 DEF InsertClaimConflict, At, Goto, tables
<1>32. ASSUME NEW r \in Requests, RequestOK(r), RefindClaim(r)
      PROVE  RequestOK(r)' /\ Others(r)
  <2>1. PICK o \in Orders : o = req[r].order /\ orderStatus[o] # "NONE"
    BY <1>32 DEF RefindClaim, At
  <2>2. ASSUME NEW p \in PendingClaims(o), GotoWith(r, "updateClaim", p)
        PROVE  RequestOK(r)' /\ Others(r)
    <3>1. p \in PaymentIds /\ payments[p].status # "ABSENT" /\ payments[p].order = o
      BY DEF PendingClaims
    <3>2. req'[r].at = "updateClaim" /\ req'[r].payment = p /\ req'[r].order = o
      BY <2>1, <2>2 DEF GotoWith
    <3>3. UNCHANGED tables
      BY <1>32 DEF RefindClaim
    <3>4. RequestOK(r)'
      BY <2>1, <3>1, <3>2, <3>3 DEF tables
    <3> QED
      BY <2>2, <3>4 DEF GotoWith
  <2>3. CASE Respond(r)
    BY <2>3, IdleOK DEF Respond
  <2> QED
    BY <1>32, <2>1, <2>2, <2>3 DEF RefindClaim
<1>33. ASSUME NEW r \in Requests, RequestOK(r), FindApproval(r)
      PROVE  RequestOK(r)' /\ Others(r)
  <2>1. PICK o \in Orders : o = req[r].order /\ orderStatus[o] # "NONE"
    BY <1>33 DEF FindApproval, At
  <2>2. ASSUME NEW p \in PendingClaims(o), GotoWith(r, "approveClaim", p)
        PROVE  RequestOK(r)' /\ Others(r)
    <3>1. p \in PaymentIds /\ payments[p].status # "ABSENT" /\ payments[p].order = o
      BY DEF PendingClaims
    <3>2. req'[r].at = "approveClaim" /\ req'[r].payment = p /\ req'[r].order = o
      BY <2>1, <2>2 DEF GotoWith
    <3>3. UNCHANGED tables
      BY <1>33 DEF FindApproval
    <3>4. RequestOK(r)'
      BY <2>1, <3>1, <3>2, <3>3 DEF tables
    <3> QED
      BY <2>2, <3>4 DEF GotoWith
  <2>3. CASE Goto(r, "insertApproved")
    BY <1>33, <2>1, <2>3 DEF FindApproval, At, Goto, tables
  <2> QED
    BY <1>33, <2>1, <2>2, <2>3 DEF FindApproval
<1>34. ASSUME NEW r \in Requests, RequestOK(r), ApproveClaim(r)
      PROVE  RequestOK(r)' /\ Others(r)
  <2> DEFINE p == req[r].payment
  <2>1. PICK o \in Orders : /\ p \in PaymentIds /\ payments[p].order = o
                           /\ o = req[r].order /\ orderStatus[o] # "NONE"
    BY <1>34 DEF ApproveClaim, At
  <2>2. payments'[p].order = o /\ payments'[p].paid
    BY <1>34, <2>1 DEF ApproveClaim, PaymentRows
  <2>3. MoneyFor(o)'
    BY <2>1, <2>2 DEF MoneyFor
  <2>4. req' = [req EXCEPT ![r] = [Idle EXCEPT !.at = "markOrderPaid", !.order = o]]
    BY <1>34, <2>1 DEF ApproveClaim, ConfirmOrder
  <2>5. UNCHANGED orderStatus
    BY <1>34 DEF ApproveClaim
  <2> QED
    BY <2>1, <2>3, <2>4, <2>5
<1>35. ASSUME NEW r \in Requests, RequestOK(r), InsertApproved(r)
      PROVE  RequestOK(r)' /\ Others(r)
  <2>1. PICK o \in Orders : o = req[r].order /\ orderStatus[o] # "NONE"
    BY <1>35 DEF InsertApproved, At
  <2>2. PICK p \in PaymentIds :
            payments' = [payments EXCEPT ![p] =
                [order |-> o, provider |-> "MANUAL", status |-> "SUCCESS",
                 attempt |-> NoAttempt, paid |-> TRUE]]
    BY <1>35, <2>1 DEF InsertApproved, InsertPayment
  <2>3. MoneyFor(o)'
    <3>1. payments'[p].order = o /\ payments'[p].paid
      BY <2>2
    <3> QED
      BY <3>1 DEF MoneyFor
  <2>4. req' = [req EXCEPT ![r] = [Idle EXCEPT !.at = "markOrderPaid", !.order = o]]
    BY <1>35, <2>1 DEF InsertApproved, ConfirmOrder
  <2>5. UNCHANGED orderStatus
    BY <1>35 DEF InsertApproved
  <2> QED
    BY <2>1, <2>3, <2>4, <2>5
<1>36. ASSUME NEW r \in Requests, RequestOK(r), FindRefund(r)
      PROVE  RequestOK(r)' /\ Others(r)
  <2>1. PICK o \in Orders : o = req[r].order /\ orderStatus[o] # "NONE" /\ Settled(o)
    BY <1>36 DEF FindRefund, At
  <2>2. ASSUME NEW p \in PaymentIds, payments[p].status = "SUCCESS", GotoWith(r, "refundPayment", p)
        PROVE  RequestOK(r)' /\ Others(r)
    <3>1. payments[p].paid
      BY <2>2 DEF RefundedMoneyWasReceived
    <3>2. req'[r].at = "refundPayment" /\ req'[r].payment = p /\ req'[r].order = o
      BY <2>1, <2>2 DEF GotoWith
    <3>3. UNCHANGED tables
      BY <1>36 DEF FindRefund
    <3>4. RequestOK(r)'
      BY <2>1, <2>2, <3>1, <3>2, <3>3 DEF tables, Settled
    <3> QED
      BY <2>2, <3>4 DEF GotoWith
  <2>3. CASE Respond(r)
    BY <2>3, IdleOK DEF Respond
  <2> QED
    BY <1>36, <2>1, <2>2, <2>3 DEF FindRefund
<1>37. ASSUME NEW r \in Requests, RequestOK(r), RefundPayment(r)
      PROVE  RequestOK(r)' /\ Others(r)
  BY <1>37, <1>0 DEF RefundPayment, At, Monotone
<1>38. ASSUME NEW r \in Requests, RequestOK(r), RefundOrder(r)
      PROVE  RequestOK(r)' /\ Others(r)
  BY <1>38, <1>0 DEF RefundOrder, At, Goto, Monotone
<1> HIDE DEF Others, TypeOK, RequestOK, Webhook, Confirming, HoldsPayment, Applying, Idle
<1>39. ASSUME NEW r \in Requests, RequestOK(r)', Others(r)
      PROVE  RequestsOK'
  BY <1>0, <1>39, OthersOK DEF RequestsOK, Others
<1>40. ASSUME NEW r \in Requests, RequestOK(r), Begin(r)
      PROVE  RequestOK(r)' /\ Others(r)
  BY <1>40, <1>2, <1>3, <1>4, <1>5, <1>6, <1>7 DEF Begin
<1>41. ASSUME NEW r \in Requests, RequestOK(r), Continue(r)
      PROVE  RequestOK(r)' /\ Others(r)
  BY <1>41, <1>8, <1>9, <1>10, <1>11, <1>12, <1>13, <1>14, <1>15, <1>16, <1>17, <1>18, <1>19, <1>20, <1>21, <1>22, <1>23, <1>24, <1>25, <1>26, <1>27, <1>28, <1>29, <1>30, <1>31, <1>32, <1>33, <1>34, <1>35, <1>36, <1>37, <1>38 DEF Continue
<1> QED
  BY <1>1, <1>18, <1>39, <1>40, <1>41 DEF Next, RequestsOK

-----------------------------------------------------------------------------
(* The invariants on the tables.                                           *)

LEMMA PaidStep ==
  ASSUME TypeOK, RequestsOK, RowsOK, PaidOrderHasMoney, [Next]_vars
  PROVE  PaidOrderHasMoney'
<1>0. Monotone
  BY StepIsMonotone
<1> SUFFICES ASSUME NEW o \in Orders, Settled(o)' PROVE MoneyFor(o)'
  BY DEF PaidOrderHasMoney
<1>1. ASSUME NEW r \in Requests, RequestOK(r), InsertOrder(r) \/ MarkOrderPaid(r) \/ RefundOrder(r)
      PROVE  MoneyFor(o)
  BY <1>1 DEF TypeOK, PaidOrderHasMoney, Settled, InsertOrder, MarkOrderPaid, RefundOrder, At,
     RequestOK, Confirming, Webhook
<1>2. ASSUME NEW r \in Requests, Begin(r) \/ Abort(r) PROVE UNCHANGED orderStatus
  BY <1>2 DEF Begin, Abort, tables, CreateOrder, SubmitProof, ApproveManualPayment, RejectManualPayment, Refund,
     ReceiveWebhook
<1>3. ASSUME NEW r \in Requests, Continue(r),
             ~InsertOrder(r), ~MarkOrderPaid(r), ~RefundOrder(r)
      PROVE  UNCHANGED orderStatus
  BY <1>3 DEF Continue, tables, InsertOrderConflict, InsertGatewayPayment, RecordEvent, DismissEvent, FindPayment,
     FailPayment, SucceedPayment, ConfirmRegistration, QrCollision, ReadOrder,
     ReadInvoice, InsertInvoice, InsertInvoiceConflict, AttachDocument, EmitSucceeded,
     FindClaim, UpdateClaim, InsertClaim, InsertClaimConflict, RefindClaim, FindApproval,
     ApproveClaim, InsertApproved, RejectClaim, FindRefund, RefundPayment,
     RefundRegistration
<1>4. ASSUME UNCHANGED orderStatus PROVE MoneyFor(o)
  <2>1. Settled(o)
    BY <1>4 DEF Settled
  <2> QED
    BY <2>1 DEF PaidOrderHasMoney
<1>5. CASE UNCHANGED vars
  BY <1>4, <1>5, <1>0, MoneyStays DEF vars
<1>6. ASSUME NEW r \in Requests, Begin(r) \/ Continue(r) \/ Abort(r)
      PROVE  MoneyFor(o)
  <2>1. RequestOK(r)
    BY DEF RequestsOK
  <2>2. CASE Begin(r) \/ Abort(r)
    BY <2>2, <1>2, <1>4
  <2>3. CASE Continue(r) /\ (InsertOrder(r) \/ MarkOrderPaid(r) \/ RefundOrder(r))
    BY <2>1, <2>3, <1>1
  <2>4. CASE Continue(r) /\ ~InsertOrder(r) /\ ~MarkOrderPaid(r) /\ ~RefundOrder(r)
    BY <2>4, <1>3, <1>4
  <2> QED
    BY <1>6, <2>2, <2>3, <2>4
<1> QED
  BY <1>0, <1>5, <1>6, MoneyStays DEF Next

LEMMA ReceivedStep ==
  ASSUME TypeOK, RequestsOK, RowsOK, RefundedMoneyWasReceived, [Next]_vars
  PROVE  RefundedMoneyWasReceived'
<1> USE DEF RefundedMoneyWasReceived
<1>1. ASSUME NEW r \in Requests, RequestOK(r), InsertGatewayPayment(r)
      PROVE  RefundedMoneyWasReceived'
  BY <1>1 DEF TypeOK, InsertGatewayPayment, InsertPayment
<1>2. ASSUME NEW r \in Requests, RequestOK(r), InsertClaim(r)
      PROVE  RefundedMoneyWasReceived'
  BY <1>2 DEF TypeOK, InsertClaim, InsertPayment
<1>3. ASSUME NEW r \in Requests, RequestOK(r), InsertApproved(r)
      PROVE  RefundedMoneyWasReceived'
  BY <1>3 DEF TypeOK, InsertApproved, InsertPayment
<1>4. ASSUME NEW r \in Requests, RequestOK(r), FailPayment(r)
      PROVE  RefundedMoneyWasReceived'
  BY <1>4 DEF TypeOK, FailPayment, PaymentRows, At, RequestOK, HoldsPayment
<1>5. ASSUME NEW r \in Requests, RequestOK(r), SucceedPayment(r)
      PROVE  RefundedMoneyWasReceived'
  BY <1>5 DEF TypeOK, SucceedPayment, PaymentRows, At, RequestOK, HoldsPayment
<1>6. ASSUME NEW r \in Requests, RequestOK(r), ApproveClaim(r)
      PROVE  RefundedMoneyWasReceived'
  BY <1>6 DEF TypeOK, ApproveClaim, PaymentRows, At, RequestOK, HoldsPayment
<1>7. ASSUME NEW r \in Requests, RequestOK(r), RejectClaim(r)
      PROVE  RefundedMoneyWasReceived'
  BY <1>7 DEF TypeOK, RejectClaim, PaymentRows, At, RequestOK, HoldsPayment
<1>8. ASSUME NEW r \in Requests, RequestOK(r), RefundPayment(r)
      PROVE  RefundedMoneyWasReceived'
  BY <1>8 DEF TypeOK, RefundPayment, PaymentRows, At, RequestOK, HoldsPayment
<1>9. ASSUME NEW r \in Requests, Begin(r) \/ Abort(r) PROVE UNCHANGED payments
  BY <1>9 DEF Begin, Abort, tables, CreateOrder, SubmitProof, ApproveManualPayment, RejectManualPayment, Refund,
     ReceiveWebhook
<1>10. ASSUME NEW r \in Requests, Continue(r),
             ~InsertGatewayPayment(r), ~InsertClaim(r), ~InsertApproved(r), ~FailPayment(r),
             ~SucceedPayment(r), ~ApproveClaim(r), ~RejectClaim(r), ~RefundPayment(r)
      PROVE  UNCHANGED payments
  BY <1>10 DEF Continue, tables, InsertOrder, InsertOrderConflict, RecordEvent, DismissEvent, FindPayment, MarkOrderPaid,
     ConfirmRegistration, QrCollision, ReadOrder, ReadInvoice, InsertInvoice,
     InsertInvoiceConflict, AttachDocument, EmitSucceeded, FindClaim, UpdateClaim,
     InsertClaimConflict, RefindClaim, FindApproval, FindRefund, RefundOrder,
     RefundRegistration
<1>11. CASE UNCHANGED payments
  BY <1>11
<1> QED
  BY <1>1, <1>2, <1>3, <1>4, <1>5, <1>6, <1>7, <1>8, <1>9, <1>10, <1>11 DEF Next, vars, RequestsOK

LEMMA AdmissionStep ==
  ASSUME TypeOK, RequestsOK, RowsOK, AdmissionIsPaidFor, [Next]_vars
  PROVE  AdmissionIsPaidFor'
<1>0. Monotone
  BY StepIsMonotone
<1> SUFFICES ASSUME NEW o \in Orders, (regStatus[o] # "PENDING" \/ qr[o] # NoQr)' PROVE Settled(o)
  BY <1>0 DEF AdmissionIsPaidFor, Monotone
<1>1. ASSUME NEW r \in Requests, RequestOK(r), ConfirmRegistration(r) \/ RefundRegistration(r)
      PROVE  Settled(o)
  BY <1>1 DEF TypeOK, AdmissionIsPaidFor, ConfirmRegistration, RefundRegistration, At,
     RequestOK, Confirming
<1>2. ASSUME NEW r \in Requests, Begin(r) \/ Abort(r) PROVE UNCHANGED <<regStatus, qr>>
  BY <1>2 DEF Begin, Abort, tables, CreateOrder, SubmitProof, ApproveManualPayment, RejectManualPayment, Refund,
     ReceiveWebhook
<1>3. ASSUME NEW r \in Requests, Continue(r),
             ~ConfirmRegistration(r), ~RefundRegistration(r)
      PROVE  UNCHANGED <<regStatus, qr>>
  BY <1>3 DEF Continue, tables, InsertOrder, InsertOrderConflict, InsertGatewayPayment, RecordEvent, DismissEvent,
     FindPayment, FailPayment, SucceedPayment, MarkOrderPaid, QrCollision, ReadOrder,
     ReadInvoice, InsertInvoice, InsertInvoiceConflict, AttachDocument, EmitSucceeded,
     FindClaim, UpdateClaim, InsertClaim, InsertClaimConflict, RefindClaim, FindApproval,
     ApproveClaim, InsertApproved, RejectClaim, FindRefund, RefundPayment, RefundOrder
<1>4. CASE UNCHANGED <<regStatus, qr>>
  BY <1>4 DEF AdmissionIsPaidFor
<1> QED
  BY <1>1, <1>2, <1>3, <1>4 DEF Next, vars, RequestsOK

LEMMA ReceiptStep ==
  ASSUME TypeOK, RequestsOK, RowsOK, ReceiptsAreInvoiced, [Next]_vars
  PROVE  ReceiptsAreInvoiced'
<1>0. Monotone
  BY StepIsMonotone
<1> SUFFICES ASSUME NEW o \in Orders
             PROVE  /\ invoice'[o] # "NONE" => Settled(o)
                    /\ o \in receipts' => invoice[o] # "NONE"
  BY <1>0 DEF ReceiptsAreInvoiced, Monotone
<1> USE DEF TypeOK, ReceiptsAreInvoiced, At, RequestOK, Confirming
<1>1. ASSUME NEW r \in Requests, RequestOK(r), InsertInvoice(r) \/ AttachDocument(r)
      PROVE  /\ invoice'[o] # "NONE" => Settled(o)
             /\ o \in receipts' => invoice[o] # "NONE"
  BY <1>1 DEF InsertInvoice, AttachDocument
<1>2. ASSUME NEW r \in Requests, RequestOK(r), EmitSucceeded(r)
      PROVE  /\ invoice'[o] # "NONE" => Settled(o)
             /\ o \in receipts' => invoice[o] # "NONE"
  BY <1>2 DEF EmitSucceeded
<1> HIDE DEF TypeOK, RequestOK
<1>3. ASSUME NEW r \in Requests, Begin(r) \/ Abort(r) PROVE UNCHANGED <<invoice, receipts>>
  BY <1>3 DEF Begin, Abort, tables, CreateOrder, SubmitProof, ApproveManualPayment, RejectManualPayment, Refund,
     ReceiveWebhook
<1>4. ASSUME NEW r \in Requests, Continue(r),
             ~InsertInvoice(r), ~AttachDocument(r), ~EmitSucceeded(r)
      PROVE  UNCHANGED <<invoice, receipts>>
  BY <1>4 DEF Continue, tables, InsertOrder, InsertOrderConflict, InsertGatewayPayment, RecordEvent, DismissEvent,
     FindPayment, FailPayment, SucceedPayment, MarkOrderPaid, ConfirmRegistration,
     QrCollision, ReadOrder, ReadInvoice, InsertInvoiceConflict, FindClaim, UpdateClaim,
     InsertClaim, InsertClaimConflict, RefindClaim, FindApproval, ApproveClaim,
     InsertApproved, RejectClaim, FindRefund, RefundPayment, RefundOrder,
     RefundRegistration
<1>5. CASE UNCHANGED <<invoice, receipts>>
  BY <1>5
<1> QED
  BY <1>1, <1>2, <1>3, <1>4, <1>5 DEF Next, vars, RequestsOK

LEMMA QrStep ==
  ASSUME TypeOK, RequestsOK, QrCodesIdentify, [Next]_vars
  PROVE  QrCodesIdentify'
<1>1. ASSUME NEW r \in Requests, ConfirmRegistration(r)
      PROVE  QrCodesIdentify'
  <2>1. PICK code \in QrCodes : /\ ~Taken(req[r].order, code)
                                /\ qr' = [qr EXCEPT ![req[r].order] = code]
    BY <1>1 DEF ConfirmRegistration
  <2> QED
    BY <1>1, <2>1, CheckoutAssumption DEF TypeOK, ConfirmRegistration, QrCodesIdentify, Taken
<1>2. ASSUME NEW r \in Requests, RefundRegistration(r)
      PROVE  QrCodesIdentify'
  BY <1>2 DEF TypeOK, RefundRegistration, QrCodesIdentify
<1>3. ASSUME NEW r \in Requests, Begin(r) \/ Abort(r) PROVE UNCHANGED <<regStatus, qr>>
  BY <1>3 DEF Begin, Abort, tables, CreateOrder, SubmitProof, ApproveManualPayment, RejectManualPayment, Refund,
     ReceiveWebhook
<1>4. ASSUME NEW r \in Requests, Continue(r),
             ~ConfirmRegistration(r), ~RefundRegistration(r)
      PROVE  UNCHANGED <<regStatus, qr>>
  BY <1>4 DEF Continue, tables, InsertOrder, InsertOrderConflict, InsertGatewayPayment, RecordEvent, DismissEvent,
     FindPayment, FailPayment, SucceedPayment, MarkOrderPaid, QrCollision, ReadOrder,
     ReadInvoice, InsertInvoice, InsertInvoiceConflict, AttachDocument, EmitSucceeded,
     FindClaim, UpdateClaim, InsertClaim, InsertClaimConflict, RefindClaim, FindApproval,
     ApproveClaim, InsertApproved, RejectClaim, FindRefund, RefundPayment, RefundOrder
<1>5. CASE UNCHANGED <<regStatus, qr>>
  BY <1>5 DEF QrCodesIdentify
<1> QED
  BY <1>1, <1>2, <1>3, <1>4, <1>5 DEF Next, vars

(* A step opens no claim beside an open one: only InsertClaim creates a    *)
(* PENDING MANUAL row, under the index, and no update makes a row PENDING. *)
LEMMA ClaimStep ==
  ASSUME TypeOK, RequestsOK, OneOpenClaim, [Next]_vars
  PROVE  OneOpenClaim'
<1> USE DEF OneOpenClaim, PendingClaims
<1>1. ASSUME NEW r \in Requests, RequestOK(r), InsertGatewayPayment(r)
      PROVE  OneOpenClaim'
  BY <1>1, CheckoutAssumption DEF TypeOK, InsertGatewayPayment, InsertPayment, At, RequestOK, Webhook
<1>2. ASSUME NEW r \in Requests, RequestOK(r), InsertClaim(r)
      PROVE  OneOpenClaim'
  BY <1>2 DEF TypeOK, InsertClaim, InsertPayment, At, RequestOK, Webhook
<1>3. ASSUME NEW r \in Requests, RequestOK(r), InsertApproved(r)
      PROVE  OneOpenClaim'
  BY <1>3 DEF TypeOK, InsertApproved, InsertPayment, At, RequestOK, Webhook
<1>4. ASSUME NEW r \in Requests, RequestOK(r), FailPayment(r)
      PROVE  OneOpenClaim'
  BY <1>4 DEF TypeOK, FailPayment, PaymentRows, At, RequestOK, HoldsPayment
<1>5. ASSUME NEW r \in Requests, RequestOK(r), SucceedPayment(r)
      PROVE  OneOpenClaim'
  BY <1>5 DEF TypeOK, SucceedPayment, PaymentRows, At, RequestOK, HoldsPayment
<1>6. ASSUME NEW r \in Requests, RequestOK(r), ApproveClaim(r)
      PROVE  OneOpenClaim'
  BY <1>6 DEF TypeOK, ApproveClaim, PaymentRows, At, RequestOK, HoldsPayment
<1>7. ASSUME NEW r \in Requests, RequestOK(r), RejectClaim(r)
      PROVE  OneOpenClaim'
  BY <1>7 DEF TypeOK, RejectClaim, PaymentRows, At, RequestOK, HoldsPayment
<1>8. ASSUME NEW r \in Requests, RequestOK(r), RefundPayment(r)
      PROVE  OneOpenClaim'
  BY <1>8 DEF TypeOK, RefundPayment, PaymentRows, At, RequestOK, HoldsPayment
<1>9. ASSUME NEW r \in Requests, Begin(r) \/ Abort(r) PROVE UNCHANGED payments
  BY <1>9 DEF Begin, Abort, tables, CreateOrder, SubmitProof, ApproveManualPayment, RejectManualPayment, Refund,
     ReceiveWebhook
<1>10. ASSUME NEW r \in Requests, Continue(r),
             ~InsertGatewayPayment(r), ~InsertClaim(r), ~InsertApproved(r), ~FailPayment(r),
             ~SucceedPayment(r), ~ApproveClaim(r), ~RejectClaim(r), ~RefundPayment(r)
      PROVE  UNCHANGED payments
  BY <1>10 DEF Continue, tables, InsertOrder, InsertOrderConflict, RecordEvent, DismissEvent, FindPayment, MarkOrderPaid,
     ConfirmRegistration, QrCollision, ReadOrder, ReadInvoice, InsertInvoice,
     InsertInvoiceConflict, AttachDocument, EmitSucceeded, FindClaim, UpdateClaim,
     InsertClaimConflict, RefindClaim, FindApproval, FindRefund, RefundOrder,
     RefundRegistration
<1>11. CASE UNCHANGED payments
  BY <1>11
<1> QED
  BY <1>1, <1>2, <1>3, <1>4, <1>5, <1>6, <1>7, <1>8, <1>9, <1>10, <1>11 DEF Next, vars, RequestsOK
-----------------------------------------------------------------------------
(* A request works on payments for an event only after RecordEvent.        *)

Others(r) == \A s \in Requests \ {r} : req'[s] = req[s]

LEMMA ApplyingStep ==
  ASSUME TypeOK, NEW r \in Requests, Begin(r) \/ Continue(r) \/ Abort(r)
  PROVE  /\ Others(r)
         /\ Applying(r)' => \/ RecordEvent(r)
                            \/ Applying(r) /\ req'[r].event = req[r].event
<1> DEFINE Goal == /\ Others(r)
                   /\ Applying(r)' => \/ RecordEvent(r)
                                      \/ Applying(r) /\ req'[r].event = req[r].event
<1> USE DEF TypeOK, RequestStates, Others, Applying, Respond, Idle
<1>1. ASSUME NEW o, NEW step, step \notin {"findPayment", "failPayment", "succeedPayment"},
             Arrive(r, step, o)
      PROVE  Goal
  BY <1>1 DEF Arrive
<1>2. ASSUME NEW o, ConfirmOrder(r, o)
      PROVE  Goal
  BY <1>2 DEF ConfirmOrder
<1>3. ASSUME NEW o \in Orders, RejectManualPayment(r, o)
      PROVE  Goal
  BY <1>3 DEF RejectManualPayment
<1>4. ASSUME NEW e \in Events, ReceiveWebhook(r, e)
      PROVE  Goal
  BY <1>4 DEF ReceiveWebhook
<1>5. ASSUME InsertOrderConflict(r) \/ InsertGatewayPayment(r) \/ DismissEvent(r)
                     \/ FailPayment(r) \/ InsertInvoiceConflict(r) \/ EmitSucceeded(r)
      PROVE  Goal
  BY <1>5 DEF InsertOrderConflict, InsertGatewayPayment, DismissEvent, FailPayment,
     InsertInvoiceConflict, EmitSucceeded
<1>6. ASSUME UpdateClaim(r) \/ InsertClaim(r) \/ RejectClaim(r)
                     \/ RefundRegistration(r) \/ Abort(r)
      PROVE  Goal
  BY <1>6 DEF UpdateClaim, InsertClaim, RejectClaim, RefundRegistration, Abort
<1>7. ASSUME InsertOrder(r) \/ ReadOrder(r) \/ QrCollision(r)
      PROVE  Goal
  BY <1>7 DEF InsertOrder, ReadOrder, QrCollision, Goto, At
<1>8. ASSUME FindClaim(r) \/ RefindClaim(r) \/ FindApproval(r) \/ FindRefund(r)
      PROVE  Goal
  BY <1>8 DEF FindClaim, RefindClaim, FindApproval, FindRefund, Goto, GotoWith
<1>9. ASSUME RefundPayment(r)
      PROVE  Goal
  BY <1>9 DEF RefundPayment
<1>10. ASSUME MarkOrderPaid(r) \/ ConfirmRegistration(r) \/ ReadInvoice(r)
                     \/ InsertInvoice(r)
      PROVE  Goal
  BY <1>10 DEF MarkOrderPaid, ConfirmRegistration, ReadInvoice, InsertInvoice, Goto
<1>11. ASSUME AttachDocument(r) \/ InsertClaimConflict(r) \/ RefundOrder(r)
      PROVE  Goal
  BY <1>11 DEF AttachDocument, InsertClaimConflict, RefundOrder, Goto
<1>12. ASSUME RecordEvent(r) \/ FindPayment(r)
      PROVE  Goal
  BY <1>12 DEF RecordEvent, FindPayment, Goto, GotoWith, At
<1> HIDE DEF TypeOK, RequestStates, Others, Applying, Respond, Idle, Goal
<1>13. ASSUME Begin(r) PROVE Goal
  BY <1>13, <1>1, <1>3, <1>4 DEF Begin, CreateOrder, SubmitProof, ApproveManualPayment, Refund
<1>14. ASSUME SucceedPayment(r) \/ ApproveClaim(r) \/ InsertApproved(r) PROVE Goal
  BY <1>14, <1>2 DEF SucceedPayment, ApproveClaim, InsertApproved
<1> QED
  <2>1. Goal
    BY <1>5, <1>6, <1>7, <1>8, <1>9, <1>10, <1>11, <1>12, <1>13, <1>14 DEF Continue
  <2> QED
    BY <2>1 DEF Goal

LEMMA EventStep ==
  ASSUME TypeOK, RequestsOK, EventAppliedOnce, [Next]_vars
  PROVE  EventAppliedOnce'
<1>1. CASE UNCHANGED vars
  BY <1>1 DEF vars, EventAppliedOnce, Applying, EventKey
<1>2. ASSUME NEW r \in Requests, Begin(r) \/ Continue(r) \/ Abort(r)
      PROVE  EventAppliedOnce'
  <2>1. /\ Others(r)
        /\ Applying(r)' => \/ RecordEvent(r)
                           \/ Applying(r) /\ req'[r].event = req[r].event
    BY <1>2, ApplyingStep
  <2>2. \A s \in Requests \ {r} : Applying(s)' => Applying(s) /\ req'[s].event = req[s].event
    BY <2>1 DEF Others, Applying
  <2>3. ASSUME NEW s \in Requests \ {r}, Applying(r)', Applying(s)'
        PROVE  EventKey(req'[r].event) # EventKey(req'[s].event)
    <3>1. CASE RecordEvent(r)
      <4>1. ~Recorded(req[r].event) /\ req'[r].event = req[r].event
        BY <3>1 DEF RecordEvent, Goto, TypeOK, RequestStates
      <4>2. req[s].event \in webhookEvents
        BY <2>2, <2>3 DEF RequestsOK, RequestOK
      <4>3. EventKey(req[r].event) # EventKey(req[s].event)
        BY <4>1, <4>2 DEF Recorded
      <4> QED
        BY <4>1, <4>3, <2>2, <2>3
    <3>2. CASE Applying(r) /\ req'[r].event = req[r].event
      BY <3>2, <2>2, <2>3 DEF EventAppliedOnce
    <3> QED
      BY <2>1, <2>3, <3>1, <3>2
  <2> SUFFICES ASSUME NEW t \in Requests, NEW s \in Requests, t # s,
                      Applying(t)', Applying(s)'
               PROVE  EventKey(req'[t].event) # EventKey(req'[s].event)
    BY DEF EventAppliedOnce, EventKey
  <2>4. CASE t = r \/ s = r
    BY <2>3, <2>4
  <2>5. CASE t # r /\ s # r
    BY <2>2, <2>5 DEF EventAppliedOnce
  <2> QED
    BY <2>4, <2>5
<1> QED
  BY <1>1, <1>2 DEF Next
-----------------------------------------------------------------------------
(* Each statement is a step of the ledger, or none.                        *)

Money == [o \in Orders |-> MoneyFor(o)]
Invoiced == [o \in Orders |-> invoice[o] # "NONE"]

LEMMA SameMoney == UNCHANGED payments => UNCHANGED Money
BY DEF Money, MoneyFor

(* A write to the payments table adds to the money of one order at most,   *)
(* that of an order that exists.                                           *)
LEMMA MoneyWrites ==
  ASSUME TypeOK, RequestsOK, RowsOK, [Next]_vars
  PROVE  \/ UNCHANGED Money
         \/ \E o \in Orders : /\ orderStatus[o] # "NONE"
                              /\ Money' = [Money EXCEPT ![o] = TRUE]
<1>0. Monotone
  BY StepIsMonotone
<1>1. ASSUME NEW o \in Orders, orderStatus[o] # "NONE",
             NEW p \in PaymentIds, payments'[p].order = o,
             payments[p].status = "ABSENT" \/ payments[p].order = o,
             \A other \in PaymentIds \ {p} : payments'[other] = payments[other]
      PROVE  \/ UNCHANGED Money
             \/ Money' = [Money EXCEPT ![o] = TRUE]
  <2>1. \A w \in Orders \ {o} : MoneyFor(w)' <=> MoneyFor(w)
    BY <1>1 DEF MoneyFor, RowsOK, Absent
  <2>2. MoneyFor(o) => MoneyFor(o)'
    BY <1>0, MoneyStays
  <2>3. CASE MoneyFor(o)'
    <3>1. \A w \in Orders : MoneyFor(w)' = (IF w = o THEN TRUE ELSE MoneyFor(w))
      BY <2>1, <2>3 DEF MoneyFor
    <3> QED
      BY <3>1, Zenon DEF Money
  <2>4. CASE ~MoneyFor(o)'
    <3>1. \A w \in Orders : MoneyFor(w)' = MoneyFor(w)
      BY <2>1, <2>2, <2>4 DEF MoneyFor
    <3> QED
      BY <3>1, Zenon DEF Money
  <2> QED
    BY <2>3, <2>4
<1>2. CASE UNCHANGED payments
  BY <1>2, SameMoney
<1>3. ASSUME NEW p \in PaymentIds, RowWritten(p)
      PROVE  \/ UNCHANGED Money
             \/ \E o \in Orders : /\ orderStatus[o] # "NONE"
                                  /\ Money' = [Money EXCEPT ![o] = TRUE]
  <2>1. payments[p].order \in Orders /\ orderStatus[payments[p].order] # "NONE"
    BY <1>3 DEF RowWritten, RowsOK
  <2> QED
    BY <1>1, <1>3, <2>1 DEF RowWritten
<1>4. ASSUME NEW o \in Orders, orderStatus[o] # "NONE", RowInserted(o)
      PROVE  \/ UNCHANGED Money
             \/ Money' = [Money EXCEPT ![o] = TRUE]
  BY <1>1, <1>4 DEF RowInserted
<1> QED
  BY <1>2, <1>3, <1>4, PaymentWrites

LEMMA LedgerInit == Init => Ledger!Init
<1>1. ASSUME Init, NEW o \in Orders PROVE MoneyFor(o) = FALSE /\ (invoice[o] # "NONE") = FALSE
  BY <1>1, CheckoutAssumption DEF Init, MoneyFor, Absent
<1>2. Init => orderStatus = [o \in Orders |-> "NONE"] /\ regStatus = [o \in Orders |-> "PENDING"]
  BY DEF Init
<1> QED
  BY <1>1, <1>2, Zenon DEF Ledger!Init

LEMMA LedgerStep ==
  ASSUME IInv, [Next]_vars
  PROVE  [Ledger!Next]_(Ledger!ledger)
<1> USE DEF Money, Invoiced
<1>1. ASSUME NEW r \in Requests, RequestOK(r), InsertOrder(r)
      PROVE  \E o \in Orders : Ledger!Open(o)
  <2>1. req[r].order \in Orders
    BY <1>1 DEF InsertOrder, At, RequestOK, Webhook
  <2>2. UNCHANGED <<regStatus, Money, Invoiced>>
    BY <1>1, SameMoney DEF InsertOrder
  <2> QED
    BY <1>1, <2>1, <2>2 DEF InsertOrder, Ledger!Open
<1>2. ASSUME NEW r \in Requests, RequestOK(r), MarkOrderPaid(r)
      PROVE  \E o \in Orders : Ledger!Pay(o)
  <2>1. req[r].order \in Orders /\ orderStatus[req[r].order] # "NONE" /\ MoneyFor(req[r].order)
    BY <1>2 DEF MarkOrderPaid, At, RequestOK, Webhook, Confirming
  <2>2. UNCHANGED <<regStatus, Money, Invoiced>>
    BY <1>2, SameMoney DEF MarkOrderPaid
  <2> QED
    BY <1>2, <2>1, <2>2 DEF MarkOrderPaid, Ledger!Pay
<1>3. ASSUME NEW r \in Requests, RequestOK(r), RefundOrder(r)
      PROVE  \E o \in Orders : Ledger!GiveBack(o)
  <2>1. req[r].order \in Orders /\ Ledger!Paid(req[r].order)
    BY <1>3 DEF RefundOrder, At, RequestOK, Webhook, Settled, Ledger!Paid
  <2>2. UNCHANGED <<regStatus, Money, Invoiced>>
    BY <1>3, SameMoney DEF RefundOrder
  <2> QED
    BY <1>3, <2>1, <2>2 DEF RefundOrder, Ledger!GiveBack
<1>4. ASSUME NEW r \in Requests, RequestOK(r), ConfirmRegistration(r)
      PROVE  \E o \in Orders : Ledger!Admit(o)
  <2>1. req[r].order \in Orders /\ Ledger!Paid(req[r].order)
    BY <1>4 DEF ConfirmRegistration, At, RequestOK, Webhook, Confirming, Settled, Ledger!Paid
  <2>2. UNCHANGED <<orderStatus, Money, Invoiced>>
    BY <1>4, SameMoney DEF ConfirmRegistration
  <2> QED
    BY <1>4, <2>1, <2>2 DEF ConfirmRegistration, Ledger!Admit
<1>5. ASSUME NEW r \in Requests, RequestOK(r), RefundRegistration(r)
      PROVE  \E o \in Orders : Ledger!Withdraw(o)
  <2>1. req[r].order \in Orders /\ Ledger!Paid(req[r].order)
    BY <1>5 DEF RefundRegistration, At, RequestOK, Webhook, Settled, Ledger!Paid
  <2>2. UNCHANGED <<orderStatus, Money, Invoiced>>
    BY <1>5, SameMoney DEF RefundRegistration
  <2> QED
    BY <1>5, <2>1, <2>2 DEF RefundRegistration, Ledger!Withdraw
<1>6. ASSUME NEW r \in Requests, RequestOK(r), InsertInvoice(r)
      PROVE  \E o \in Orders : Ledger!Bill(o)
  <2> DEFINE o == req[r].order
  <2>1. o \in Orders /\ Ledger!Paid(o)
    BY <1>6 DEF InsertInvoice, At, RequestOK, Webhook, Confirming, Settled, Ledger!Paid
  <2>2. UNCHANGED <<orderStatus, regStatus, Money>>
    BY <1>6, SameMoney DEF InsertInvoice
  <2>3. \A w \in Orders : (invoice'[w] # "NONE") = (IF w = o THEN TRUE ELSE invoice[w] # "NONE")
    BY <1>6, <2>1 DEF InsertInvoice, IInv, TypeOK
  <2>4. Invoiced' = [Invoiced EXCEPT ![o] = TRUE]
    BY <2>3, Zenon
  <2> QED
    BY <1>6, <2>1, <2>2, <2>4 DEF Ledger!Bill
<1>7. ASSUME NEW r \in Requests, RequestOK(r), AttachDocument(r)
      PROVE  UNCHANGED Ledger!ledger
  <2>1. req[r].order \in Orders /\ invoice[req[r].order] # "NONE"
    BY <1>7 DEF AttachDocument, At, RequestOK, Webhook, Confirming
  <2>2. UNCHANGED <<orderStatus, regStatus, Money>>
    BY <1>7, SameMoney DEF AttachDocument
  <2>3. \A w \in Orders : (invoice'[w] # "NONE") = (invoice[w] # "NONE")
    BY <1>7, <2>1 DEF AttachDocument, IInv, TypeOK
  <2>4. UNCHANGED Invoiced
    BY <2>3, Zenon
  <2> QED
    BY <2>2, <2>4 DEF Ledger!ledger
<1>8. ASSUME UNCHANGED <<orderStatus, regStatus, invoice>>
      PROVE  [\E o \in Orders : Ledger!Receive(o)]_(Ledger!ledger)
  <2>1. \/ UNCHANGED Money
        \/ \E o \in Orders : /\ orderStatus[o] # "NONE"
                             /\ Money' = [Money EXCEPT ![o] = TRUE]
    BY MoneyWrites DEF IInv, TablesOK
  <2>2. UNCHANGED Invoiced
    BY <1>8
  <2> QED
    BY <1>8, <2>1, <2>2 DEF Ledger!Receive, Ledger!ledger
<1>9. ASSUME NEW r \in Requests, Begin(r) \/ Abort(r)
      PROVE  UNCHANGED <<orderStatus, regStatus, invoice>>
  BY <1>9 DEF Begin, Abort, tables, CreateOrder, SubmitProof, ApproveManualPayment, RejectManualPayment, Refund,
     ReceiveWebhook
<1>10. ASSUME NEW r \in Requests, Continue(r),
             ~InsertOrder(r), ~MarkOrderPaid(r), ~RefundOrder(r), ~ConfirmRegistration(r),
             ~RefundRegistration(r), ~InsertInvoice(r), ~AttachDocument(r)
      PROVE  UNCHANGED <<orderStatus, regStatus, invoice>>
  BY <1>10 DEF Continue, tables, InsertOrderConflict, InsertGatewayPayment, RecordEvent, DismissEvent,
     FindPayment, FailPayment, SucceedPayment, QrCollision, ReadOrder, ReadInvoice,
     InsertInvoiceConflict, EmitSucceeded, FindClaim, UpdateClaim, InsertClaim,
     InsertClaimConflict, RefindClaim, FindApproval, ApproveClaim, InsertApproved,
     RejectClaim, FindRefund, RefundPayment
<1> HIDE DEF Money, Invoiced
<1>11. ASSUME NEW r \in Requests, Begin(r) \/ Continue(r) \/ Abort(r)
       PROVE  [Ledger!Next]_(Ledger!ledger)
  <2>1. RequestOK(r)
    BY DEF IInv, RequestsOK
  <2> QED
    BY <2>1, <1>1, <1>2, <1>3, <1>4, <1>5, <1>6, <1>7, <1>8, <1>9, <1>10, <1>11 DEF Ledger!Next
<1> QED
  BY <1>8, <1>11 DEF Next, vars, Ledger!Next

-----------------------------------------------------------------------------
(* The theorems.                                                           *)

LEMMA InitIInv == Init => IInv
<1> SUFFICES ASSUME Init PROVE IInv
  OBVIOUS
<1>1. TypeOK
  BY TypeInit
<1>2. RequestsOK
  BY DEF Init, Idle, RequestsOK, RequestOK, Webhook, Confirming, HoldsPayment, Applying
<1>3. TablesOK
  BY CheckoutAssumption DEF Init, Absent, TablesOK, RowsOK, PaidOrderHasMoney,
     RefundedMoneyWasReceived, AdmissionIsPaidFor, ReceiptsAreInvoiced, Settled
<1>4. QrCodesIdentify /\ OneOpenClaim /\ EventAppliedOnce
  BY DEF Init, Absent, Idle, QrCodesIdentify, OneOpenClaim, PendingClaims, EventAppliedOnce, Applying
<1> QED
  BY <1>1, <1>2, <1>3, <1>4 DEF IInv

LEMMA StepIInv == IInv /\ [Next]_vars => IInv'
BY TypeStep, StepIsMonotone, RequestsStep, PaidStep, ReceivedStep, AdmissionStep, ReceiptStep,
   QrStep, ClaimStep, EventStep DEF IInv, TablesOK

(* The strengthened invariant holds in every reachable state: types, what  *)
(* each request in flight relies on, and the consistency of the tables.    *)
THEOREM Invariance == Spec => []IInv
BY InitIInv, StepIInv, PTL DEF Spec

(* Every variable keeps its type, whatever requests interleave or die.     *)
THEOREM TypeCorrect == Spec => []TypeOK
<1>1. IInv => TypeOK
  BY DEF IInv
<1> QED
  BY <1>1, Invariance, PTL

(* No order is PAID or REFUNDED unless a payment of that order was         *)
(* received: confirmOrderPaid is reached on no other path.                 *)
THEOREM PaidOnlyWithMoney == Spec => []PaidOrderHasMoney
<1>1. IInv => PaidOrderHasMoney
  BY DEF IInv, TablesOK
<1> QED
  BY <1>1, Invariance, PTL

(* Only payments that were received are successful, and only such a        *)
(* payment is ever refunded.                                               *)
THEOREM RefundsAreOfReceived == Spec => []RefundedMoneyWasReceived
<1>1. IInv => RefundedMoneyWasReceived
  BY DEF IInv, TablesOK
<1> QED
  BY <1>1, Invariance, PTL

(* No registration leaves PENDING, and none gets a QR code, before its     *)
(* order was paid.                                                         *)
THEOREM AdmissionOnlyIfPaid == Spec => []AdmissionIsPaidFor
<1>1. IInv => AdmissionIsPaidFor
  BY DEF IInv, TablesOK
<1> QED
  BY <1>1, Invariance, PTL

(* A QR code at the door identifies one registration, and every confirmed  *)
(* registration has one.                                                   *)
THEOREM QrCodesAreUnique == Spec => []QrCodesIdentify
<1>1. IInv => QrCodesIdentify
  BY DEF IInv
<1> QED
  BY <1>1, Invariance, PTL

(* Proofs submitted and decided concurrently leave one open claim at most. *)
THEOREM AtMostOneClaim == Spec => []OneOpenClaim
<1>1. IInv => OneOpenClaim
  BY DEF IInv
<1> QED
  BY <1>1, Invariance, PTL

(* Only paid orders are invoiced, and only invoiced ones are receipted.    *)
THEOREM InvoicesArePaidFor == Spec => []ReceiptsAreInvoiced
<1>1. IInv => ReceiptsAreInvoiced
  BY DEF IInv, TablesOK
<1> QED
  BY <1>1, Invariance, PTL

(* Of concurrent deliveries of one event, one at most touches payments.    *)
THEOREM OneDeliveryApplies == Spec => []EventAppliedOnce
<1>1. IInv => EventAppliedOnce
  BY DEF IInv
<1> QED
  BY <1>1, Invariance, PTL

(* No step of any request deletes a row, unsettles an order that was paid, *)
(* loses the mark that money was received or forgets an event.             *)
THEOREM NothingIsTakenBack == Spec => [][Monotone]_vars
<1>1. IInv /\ [Next]_vars => Monotone
  BY StepIsMonotone DEF IInv, TablesOK
<1> QED
  BY <1>1, Invariance, PTL DEF Spec

(* The statement-by-statement requests implement the ledger: read through  *)
(* the mapping, each is one step of an order's life or none.               *)
THEOREM Refinement == Spec => ImplementsLedger
<1>1. Init => Ledger!Init
  BY LedgerInit
<1>2. IInv /\ [Next]_vars => [Ledger!Next]_(Ledger!ledger)
  BY LedgerStep
<1> QED
  BY <1>1, <1>2, Invariance, PTL DEF Spec, ImplementsLedger, Ledger!Spec
-----------------------------------------------------------------------------
(* What is under way when no request dies: a safety property that liveness *)
(* rests on.  A step of request r in such a run.                           *)
SmoothStep(r) ==
    \/ Begin(r)
    \/ Continue(r) /\ (At(r, "confirmRegistration") => req'[r] # Idle)

LEMMA OneMoves ==
  ASSUME TypeOK, NEW r \in Requests, Begin(r) \/ Continue(r) \/ Abort(r)
  PROVE  \A s \in Requests \ {r} : req'[s] = req[s]
<1> DEFINE Moves == \E new : req' = [req EXCEPT ![r] = new]
<1>1. Begin(r) \/ Abort(r) => Moves
  BY DEF Begin, Abort, CreateOrder, SubmitProof, ApproveManualPayment, RejectManualPayment, Refund,
         ReceiveWebhook, Arrive, Respond
<1>2. Continue(r) => Moves
  <2>1. Respond(r) \/ (\E step : Goto(r, step)) \/ (\E step, p : GotoWith(r, step, p))
           \/ (\E o : ConfirmOrder(r, o)) => Moves
    BY DEF Respond, Goto, GotoWith, ConfirmOrder
  <2>2. InsertOrder(r) \/ InsertOrderConflict(r) \/ InsertGatewayPayment(r) \/ RecordEvent(r)
           \/ DismissEvent(r) \/ FindPayment(r) \/ FailPayment(r) \/ SucceedPayment(r) => Moves
    BY <2>1 DEF InsertOrder, InsertOrderConflict, InsertGatewayPayment, RecordEvent, DismissEvent,
                FindPayment, FailPayment, SucceedPayment
  <2>3. MarkOrderPaid(r) \/ ReadOrder(r) \/ ReadInvoice(r) \/ InsertInvoice(r)
           \/ InsertInvoiceConflict(r) \/ AttachDocument(r) \/ EmitSucceeded(r) => Moves
    BY <2>1 DEF MarkOrderPaid, ReadOrder, ReadInvoice, InsertInvoice, InsertInvoiceConflict,
                AttachDocument, EmitSucceeded
  <2>4. ConfirmRegistration(r) \/ QrCollision(r) => Moves
    BY <2>1 DEF ConfirmRegistration, QrCollision
  <2>5. FindClaim(r) \/ UpdateClaim(r) \/ InsertClaim(r) \/ InsertClaimConflict(r)
           \/ RefindClaim(r) \/ FindApproval(r) \/ ApproveClaim(r) \/ InsertApproved(r)
           \/ RejectClaim(r) => Moves
    BY <2>1 DEF FindClaim, UpdateClaim, InsertClaim, InsertClaimConflict, RefindClaim,
                FindApproval, ApproveClaim, InsertApproved, RejectClaim
  <2>6. FindRefund(r) \/ RefundPayment(r) \/ RefundOrder(r) \/ RefundRegistration(r) => Moves
    BY <2>1 DEF FindRefund, RefundPayment, RefundOrder, RefundRegistration
  <2> QED
    BY <2>2, <2>3, <2>4, <2>5, <2>6 DEF Continue
<1> QED
  BY <1>1, <1>2 DEF TypeOK

(* A request arrives at an idle slot and writes nothing.                   *)
LEMMA BeginIsArrival ==
  ASSUME NEW r \in Requests, Begin(r)
  PROVE  req[r] = Idle /\ UNCHANGED tables
BY DEF Begin, CreateOrder, SubmitProof, ApproveManualPayment, RejectManualPayment, Refund,
       ReceiveWebhook, Arrive

(* Steps that have nothing to do with an order's confirmation.             *)
Elsewhere(r) ==
    /\ UNCHANGED <<orderStatus, qr, invoice, receipts>>
    /\ req[r].at \notin Confirming

LEMMA ConfirmingSteps ==
  ASSUME TypeOK, NEW r \in Requests, SmoothStep(r)
  PROVE  \/ Elsewhere(r)
         \/ InsertOrder(r) \/ RefundOrder(r)
         \/ MarkOrderPaid(r) \/ ConfirmRegistration(r) \/ QrCollision(r)
         \/ ReadOrder(r) \/ ReadInvoice(r) \/ InsertInvoice(r) \/ InsertInvoiceConflict(r)
         \/ AttachDocument(r) \/ EmitSucceeded(r)
<1>1. Begin(r) => Elsewhere(r)
  BY BeginIsArrival DEF Idle, Elsewhere, Confirming, tables
<1>2. InsertOrderConflict(r) \/ InsertGatewayPayment(r) \/ RecordEvent(r)
         \/ DismissEvent(r) \/ FindPayment(r) \/ FailPayment(r) \/ SucceedPayment(r) => Elsewhere(r)
  BY DEF InsertOrderConflict, InsertGatewayPayment, RecordEvent, DismissEvent,
         FindPayment, FailPayment, SucceedPayment, At, Elsewhere, Confirming, tables
<1>3. FindClaim(r) \/ UpdateClaim(r) \/ InsertClaim(r) \/ InsertClaimConflict(r)
         \/ RefindClaim(r) \/ FindApproval(r) \/ ApproveClaim(r) \/ InsertApproved(r)
         \/ RejectClaim(r) => Elsewhere(r)
  BY DEF FindClaim, UpdateClaim, InsertClaim, InsertClaimConflict, RefindClaim, FindApproval,
         ApproveClaim, InsertApproved, RejectClaim, At, Elsewhere, Confirming, tables
<1>4. FindRefund(r) \/ RefundPayment(r) \/ RefundRegistration(r) => Elsewhere(r)
  BY DEF FindRefund, RefundPayment, RefundRegistration, At, Elsewhere, Confirming, tables
<1> QED
  BY <1>1, <1>2, <1>3, <1>4 DEF SmoothStep, Continue

(* An order is in hand as long as the request that has it goes on with it. *)
LEMMA HandStays ==
  ASSUME NEW o \in Orders, NEW steps, NEW r \in Requests,
         \A s \in Requests \ {r} : req'[s] = req[s],
         InHand(o, steps),
         req[r].at \in steps /\ req[r].order = o => req'[r].at \in steps /\ req'[r].order = o
  PROVE  InHand(o, steps)'
BY DEF InHand

(* How the confirmation of an order goes on.                               *)
LEMMA NextStep ==
  ASSUME TypeOK, NEW r \in Requests, NEW step, Goto(r, step)
  PROVE  req'[r].at = step /\ req'[r].order = req[r].order /\ req'[r].event = req[r].event
BY DEF TypeOK, RequestStates, Goto

(* A draw of a taken code that is not the last one leaves all as it was.   *)
LEMMA CollisionStays ==
  ASSUME TypeOK, NEW r \in Requests, SmoothStep(r), QrCollision(r)
  PROVE  req'[r].at = "confirmRegistration" /\ req'[r].order = req[r].order
<1>1. At(r, "confirmRegistration")
  BY DEF QrCollision
<1>2. req'[r] # Idle
  BY <1>1, BeginIsArrival DEF SmoothStep, At, Idle
<1>3. req' = [req EXCEPT ![r].tries = @ + 1]
  BY <1>2 DEF QrCollision, Respond, TypeOK
<1> QED
  BY <1>1, <1>3 DEF At, TypeOK, RequestStates

BeforeInvoice == {"confirmRegistration", "readOrder", "readInvoice", "insertInvoice"}

InvoiceInHand(o) ==
    /\ orderStatus[o] = "PAID" /\ invoice[o] = "NONE" => InHand(o, BeforeInvoice)
    /\ invoice[o] = "ISSUED" => InHand(o, {"attachDocument"})
    /\ invoice[o] = "ATTACHED" /\ o \notin receipts => InHand(o, {"emitSucceeded"})

LEMMA InvoiceStep ==
  ASSUME TypeOK, RequestsOK, InvoicesAreInHand, NEW r \in Requests, SmoothStep(r),
         NEW o \in Orders
  PROVE  InvoiceInHand(o)'
<1> DEFINE mine == req[r].order = o
<1>1. /\ \A s \in Requests \ {r} : req'[s] = req[s]
      /\ InvoiceInHand(o)
  BY OneMoves DEF SmoothStep, InvoicesAreInHand, InvoiceInHand, BeforeInvoice
<1>2. CASE Elsewhere(r)
  BY <1>1, <1>2, HandStays DEF Elsewhere, Confirming, InvoiceInHand, BeforeInvoice
<1>3. CASE InsertOrder(r) \/ RefundOrder(r)
  <2>1. /\ orderStatus'[o] = "PAID" => orderStatus[o] = "PAID"
        /\ UNCHANGED <<invoice, receipts>>
        /\ req[r].at \in {"insertOrder", "refundOrder"}
    BY <1>3 DEF InsertOrder, RefundOrder, TypeOK, At
  <2> QED
    BY <1>1, <2>1, HandStays DEF InvoiceInHand, BeforeInvoice
<1>4. CASE MarkOrderPaid(r)
  <2>1. /\ UNCHANGED <<invoice, receipts>> /\ req[r].at = "markOrderPaid"
        /\ req'[r].at = "confirmRegistration" /\ req'[r].order = req[r].order
        /\ ~mine => orderStatus'[o] = orderStatus[o]
    BY <1>4, NextStep DEF MarkOrderPaid, At, TypeOK
  <2>2. invoice'[o] = "ISSUED" => InHand(o, {"attachDocument"})'
    BY <1>1, <2>1, HandStays DEF InvoiceInHand
  <2>3. invoice'[o] = "ATTACHED" /\ o \notin receipts' => InHand(o, {"emitSucceeded"})'
    BY <1>1, <2>1, HandStays DEF InvoiceInHand
  <2>4. CASE mine
    BY <2>1, <2>2, <2>3, <2>4 DEF InvoiceInHand, InHand, BeforeInvoice
  <2>5. CASE ~mine
    BY <1>1, <2>1, <2>2, <2>3, <2>5, HandStays DEF InvoiceInHand, BeforeInvoice
  <2> QED
    BY <2>4, <2>5
<1>5. CASE ConfirmRegistration(r) \/ QrCollision(r)
  <2>1. /\ UNCHANGED <<orderStatus, invoice, receipts>> /\ req[r].at = "confirmRegistration"
        /\ req'[r].at \in {"confirmRegistration", "readOrder"} /\ req'[r].order = req[r].order
    <3>1. CASE ConfirmRegistration(r)
      BY <3>1 DEF ConfirmRegistration, At, TypeOK, RequestStates
    <3>2. CASE QrCollision(r)
      BY <3>2, CollisionStays DEF QrCollision, At, tables
    <3> QED
      BY <1>5, <3>1, <3>2
  <2> QED
    BY <1>1, <2>1, HandStays DEF InvoiceInHand, BeforeInvoice
<1>6. CASE ReadOrder(r)
  <2>1. UNCHANGED <<orderStatus, invoice, receipts>> /\ req[r].at = "readOrder"
    BY <1>6 DEF ReadOrder, At, tables
  <2>2. mine /\ orderStatus[o] = "PAID" => req'[r].at = "readInvoice" /\ req'[r].order = o
    BY <1>6, NextStep DEF ReadOrder
  <2> QED
    BY <1>1, <2>1, <2>2, HandStays DEF InvoiceInHand, BeforeInvoice
<1>7. CASE ReadInvoice(r)
  <2>1. UNCHANGED <<orderStatus, invoice, receipts>> /\ req[r].at = "readInvoice"
    BY <1>7 DEF ReadInvoice, At, tables
  <2>2. mine /\ invoice[o] = "NONE" => req'[r].at = "insertInvoice" /\ req'[r].order = o
    BY <1>7, NextStep DEF ReadInvoice
  <2> QED
    BY <1>1, <2>1, <2>2, HandStays DEF InvoiceInHand, BeforeInvoice
<1>8. CASE InsertInvoice(r)
  <2>1. /\ UNCHANGED <<orderStatus, receipts>> /\ req[r].at = "insertInvoice"
        /\ req'[r].at = "attachDocument" /\ req'[r].order = req[r].order
        /\ mine => invoice'[o] = "ISSUED"
        /\ ~mine => invoice'[o] = invoice[o]
    BY <1>8, NextStep DEF InsertInvoice, At, TypeOK
  <2>2. CASE mine
    BY <2>1, <2>2 DEF InvoiceInHand, InHand
  <2>3. CASE ~mine
    BY <1>1, <2>1, <2>3, HandStays DEF InvoiceInHand, BeforeInvoice
  <2> QED
    BY <2>2, <2>3
<1>9. CASE InsertInvoiceConflict(r)
  <2>1. /\ UNCHANGED <<orderStatus, invoice, receipts>> /\ req[r].at = "insertInvoice"
        /\ mine => invoice[o] # "NONE"
    BY <1>9 DEF InsertInvoiceConflict, At, tables
  <2> QED
    BY <1>1, <2>1, HandStays DEF InvoiceInHand, BeforeInvoice
<1>10. CASE AttachDocument(r)
  <2>1. /\ UNCHANGED <<orderStatus, receipts>> /\ req[r].at = "attachDocument"
        /\ req'[r].at = "emitSucceeded" /\ req'[r].order = req[r].order
        /\ mine => invoice'[o] = "ATTACHED"
        /\ ~mine => invoice'[o] = invoice[o]
    BY <1>10, NextStep DEF AttachDocument, At, TypeOK
  <2>2. CASE mine
    BY <2>1, <2>2 DEF InvoiceInHand, InHand
  <2>3. CASE ~mine
    BY <1>1, <2>1, <2>3, HandStays DEF InvoiceInHand, BeforeInvoice
  <2> QED
    BY <2>2, <2>3
<1>11. CASE EmitSucceeded(r)
  <2>1. /\ UNCHANGED <<orderStatus, invoice>> /\ req[r].at = "emitSucceeded"
        /\ receipts' = receipts \cup {req[r].order}
    BY <1>11 DEF EmitSucceeded, At
  <2> QED
    BY <1>1, <2>1, HandStays DEF InvoiceInHand, BeforeInvoice
<1> QED
  BY <1>2, <1>3, <1>4, <1>5, <1>6, <1>7, <1>8, <1>9, <1>10, <1>11, ConfirmingSteps

(* A captured payment on its way to the order: what a delivery that goes on*)
(* relies on.  A checkout that was open once has its payment row for good. *)
DeliveryOK(r) ==
    LET q == req[r] IN
    /\ q.at \in {"recordEvent", "findPayment"} /\ q.event.order \in Orders
           => CheckoutOpen(q.event.order, q.event.provider)
    /\ q.at = "succeedPayment" => /\ payments[q.payment].order = q.event.order
                                  /\ q.event.kind = "captured"
    /\ q.at = "failPayment" => q.event.kind # "captured"

DeliveriesOK == \A r \in Requests : DeliveryOK(r)

LEMMA CheckoutStays ==
  ASSUME RowsOK, Monotone, NEW o \in Orders, NEW pv, CheckoutOpen(o, pv)
  PROVE  CheckoutOpen(o, pv)'
BY CheckoutAssumption DEF CheckoutOpen, RowsOK, Monotone, Absent

(* Statements that have nothing to do with an event's way to the order.    *)
Undelivered(r) ==
    /\ UNCHANGED webhookEvents
    /\ req[r].at \notin {"findPayment", "succeedPayment", "markOrderPaid"}
    /\ req'[r].at \notin Webhook

LEMMA DeliverySteps ==
  ASSUME TypeOK, NEW r \in Requests, SmoothStep(r)
  PROVE  \/ \E e \in Events : ReceiveWebhook(r, e)
         \/ RecordEvent(r) \/ FindPayment(r) \/ SucceedPayment(r) \/ MarkOrderPaid(r)
         \/ Undelivered(r)
<1>1. /\ Respond(r) => req'[r].at \notin Webhook
      /\ \A step : Goto(r, step) => req'[r].at = step
      /\ \A step, p : GotoWith(r, step, p) => req'[r].at = step
      /\ \A o : ConfirmOrder(r, o) => req'[r].at = "markOrderPaid"
  <2>1. Respond(r) => req'[r] = Idle
    BY DEF TypeOK, Respond
  <2>2. \A step : Goto(r, step) => req'[r].at = step
    BY DEF TypeOK, RequestStates, Goto
  <2>3. \A step, p : GotoWith(r, step, p) => req'[r].at = step
    BY DEF TypeOK, RequestStates, GotoWith
  <2>4. \A o : ConfirmOrder(r, o) => req'[r].at = "markOrderPaid"
    BY DEF TypeOK, ConfirmOrder, Idle
  <2> QED
    BY <2>1, <2>2, <2>3, <2>4 DEF Idle, Webhook
<1>2. ASSUME Begin(r), \A e \in Events : ~ReceiveWebhook(r, e) PROVE Undelivered(r)
  <2>1. req[r] = Idle /\ UNCHANGED tables
    BY <1>2, BeginIsArrival
  <2>2. req'[r].at \in {"insertOrder", "findClaim", "findApproval", "rejectClaim", "findRefund"}
    <3>1. \A step, o : Arrive(r, step, o) => req'[r].at = step
      BY DEF Arrive, Idle, TypeOK
    <3>2. ASSUME NEW o \in Orders, RejectManualPayment(r, o) PROVE req'[r].at = "rejectClaim"
      BY <3>2 DEF RejectManualPayment, TypeOK, RequestStates
    <3> QED
      BY <1>2, <3>1, <3>2 DEF Begin, CreateOrder, SubmitProof, ApproveManualPayment, Refund
  <2> QED
    BY <2>1, <2>2 DEF Undelivered, Webhook, Idle, tables
<1>3. InsertOrder(r) \/ InsertOrderConflict(r) \/ InsertGatewayPayment(r) \/ DismissEvent(r)
         \/ FailPayment(r) => Undelivered(r)
  BY <1>1 DEF InsertOrder, InsertOrderConflict, InsertGatewayPayment, DismissEvent, FailPayment,
              Undelivered, At, Webhook, tables
<1>4. ConfirmRegistration(r) \/ QrCollision(r) => Undelivered(r)
  <2>1. ConfirmRegistration(r) => req'[r].at = "readOrder"
    BY DEF ConfirmRegistration, TypeOK, RequestStates
  <2>2. QrCollision(r) => req'[r].at \notin Webhook
    BY <1>1 DEF QrCollision, At, TypeOK, RequestStates, Webhook
  <2> QED
    BY <2>1, <2>2 DEF ConfirmRegistration, QrCollision, Undelivered, At, Webhook, tables
<1>5. ReadOrder(r) \/ ReadInvoice(r) \/ InsertInvoice(r) \/ InsertInvoiceConflict(r)
         \/ AttachDocument(r) \/ EmitSucceeded(r) => Undelivered(r)
  BY <1>1 DEF ReadOrder, ReadInvoice, InsertInvoice, InsertInvoiceConflict, AttachDocument,
              EmitSucceeded, Undelivered, At, Webhook, tables
<1>6. FindClaim(r) \/ UpdateClaim(r) \/ InsertClaim(r) \/ InsertClaimConflict(r)
         \/ RefindClaim(r) => Undelivered(r)
  BY <1>1 DEF FindClaim, UpdateClaim, InsertClaim, InsertClaimConflict, RefindClaim,
              Undelivered, At, Webhook, tables
<1>7. FindApproval(r) \/ ApproveClaim(r) \/ InsertApproved(r) \/ RejectClaim(r) => Undelivered(r)
  BY <1>1 DEF FindApproval, ApproveClaim, InsertApproved, RejectClaim, Undelivered, At, Webhook,
              tables
<1>8. FindRefund(r) \/ RefundPayment(r) \/ RefundOrder(r) \/ RefundRegistration(r)
         => Undelivered(r)
  <2>1. RefundPayment(r) => req'[r].at = "refundOrder"
    BY DEF RefundPayment, TypeOK
  <2> QED
    BY <1>1, <2>1 DEF FindRefund, RefundPayment, RefundOrder, RefundRegistration, Undelivered,
                      At, Webhook, tables
<1> QED
  BY <1>2, <1>3, <1>4, <1>5, <1>6, <1>7, <1>8 DEF SmoothStep, Continue

LEMMA DeliveriesStep ==
  ASSUME TypeOK, RequestsOK, RowsOK, Monotone, DeliveriesOK, NEW r \in Requests, SmoothStep(r)
  PROVE  DeliveriesOK'
<1>1. \A s \in Requests \ {r} : req'[s] = req[s]
  BY OneMoves DEF SmoothStep
<1>2. ASSUME NEW s \in Requests \ {r} PROVE DeliveryOK(s)'
  BY <1>1, <1>2, CheckoutStays
     DEF DeliveriesOK, DeliveryOK, RequestsOK, RequestOK, Monotone, HoldsPayment
<1>3. DeliveryOK(r)'
  <2>1. CASE \E e \in Events : ReceiveWebhook(r, e)
    <3>1. PICK e \in Events : ReceiveWebhook(r, e)
      BY <2>1
    <3>2. Deliverable(e) /\ req'[r].at = "recordEvent" /\ req'[r].event = e /\ UNCHANGED payments
      BY <3>1 DEF ReceiveWebhook, TypeOK, RequestStates, tables
    <3> QED
      BY <3>2, CheckoutAssumption DEF DeliveryOK, Deliverable, CheckoutOpen
  <2>2. CASE RecordEvent(r)
    <3>1. req[r].at = "recordEvent" /\ req'[r].at = "findPayment" /\ req'[r].event = req[r].event
      BY <2>2, NextStep DEF RecordEvent, At
    <3> QED
      BY <3>1, CheckoutStays DEF DeliveriesOK, DeliveryOK
  <2>3. CASE FindPayment(r)
    <3>1. CASE Respond(r)
      BY <3>1 DEF Respond, Idle, DeliveryOK, TypeOK
    <3>2. CASE ~Respond(r)
      <4> DEFINE step == IF req[r].event.kind = "captured" THEN "succeedPayment"
                                                           ELSE "failPayment"
      <4>1. PICK p \in PaymentIds :
                payments[p].order = req[r].event.order /\ GotoWith(r, step, p)
        BY <2>3, <3>2 DEF FindPayment
      <4> HIDE DEF step
      <4>2. /\ req'[r].at = step /\ req'[r].payment = p /\ req'[r].event = req[r].event
            /\ UNCHANGED payments
        <5>1. req[r] \in RequestStates
          BY DEF TypeOK
        <5>2. req'[r] = [req[r] EXCEPT !.at = step, !.payment = p]
          BY <4>1 DEF GotoWith, TypeOK
        <5>3. UNCHANGED payments
          BY <2>3 DEF FindPayment, tables
        <5> QED
          BY <5>1, <5>2, <5>3 DEF RequestStates
      <4> USE DEF step
      <4> QED
        BY <4>1, <4>2 DEF DeliveryOK
    <3> QED
      BY <3>1, <3>2
  <2>4. CASE SucceedPayment(r) \/ MarkOrderPaid(r)
    <3>1. req'[r].at \in {"markOrderPaid", "confirmRegistration"}
      <4>1. SucceedPayment(r) => req'[r].at = "markOrderPaid"
        BY DEF SucceedPayment, ConfirmOrder, Idle, TypeOK
      <4> QED
        BY <2>4, <4>1, NextStep DEF MarkOrderPaid
    <3> QED
      BY <3>1 DEF DeliveryOK
  <2>5. CASE Undelivered(r)
    BY <2>5 DEF Undelivered, DeliveryOK, Webhook
  <2> QED
    BY <2>1, <2>2, <2>3, <2>4, <2>5, DeliverySteps
<1> QED
  BY <1>2, <1>3 DEF DeliveriesOK

PaymentInHand(e) ==
    \/ \E r \in Requests : req[r].event = e /\ req[r].at \in {"findPayment", "succeedPayment"}
    \/ InHand(e.order, {"markOrderPaid"})
    \/ Settled(e.order)

Captures(e) == e.kind = "captured" /\ e.order \in Orders

LEMMA PaymentStep ==
  ASSUME TypeOK, RequestsOK, Monotone, DeliveriesOK, PaymentsAreInHand,
         NEW r \in Requests, SmoothStep(r), NEW e \in webhookEvents', Captures(e)
  PROVE  PaymentInHand(e)'
<1>1. \A s \in Requests \ {r} : req'[s] = req[s]
  BY OneMoves DEF SmoothStep
<1>2. e \in webhookEvents => PaymentInHand(e)
  BY DEF PaymentsAreInHand, PaymentInHand, Captures
<1>3. CASE e \notin webhookEvents \/ RecordEvent(r)
  <2>1. RecordEvent(r)
    BY <1>3, DeliverySteps
       DEF ReceiveWebhook, FindPayment, SucceedPayment, MarkOrderPaid, Undelivered, tables
  <2>2. /\ req[r].at = "recordEvent" /\ req'[r].at = "findPayment"
        /\ req'[r].event = req[r].event /\ UNCHANGED orderStatus
        /\ webhookEvents' = webhookEvents \cup {req[r].event}
    BY <2>1, NextStep DEF RecordEvent, At
  <2>3. CASE e = req[r].event
    BY <2>2, <2>3 DEF PaymentInHand
  <2>4. CASE e # req[r].event
    BY <1>1, <1>2, <2>2, <2>4, HandStays DEF PaymentInHand, Settled, InHand
  <2> QED
    BY <2>3, <2>4
<1>4. CASE e \in webhookEvents /\ Settled(e.order)
  BY <1>4 DEF Monotone, Captures, PaymentInHand
<1>5. ASSUME e \in webhookEvents, NEW s \in Requests \ {r},
             \/ req[s].event = e /\ req[s].at \in {"findPayment", "succeedPayment"}
             \/ req[s].order = e.order /\ req[s].at = "markOrderPaid"
      PROVE  PaymentInHand(e)'
  BY <1>1, <1>5 DEF PaymentInHand, InHand
<1>6. /\ \A f \in Events : ReceiveWebhook(r, f) => req[r].at = "idle"
      /\ RecordEvent(r) => req[r].at = "recordEvent"
      /\ FindPayment(r) => req[r].at = "findPayment"
      /\ SucceedPayment(r) => req[r].at = "succeedPayment"
      /\ MarkOrderPaid(r) => req[r].at = "markOrderPaid"
      /\ Undelivered(r) => req[r].at \notin {"findPayment", "succeedPayment", "markOrderPaid"}
  BY DEF ReceiveWebhook, RecordEvent, FindPayment, SucceedPayment, MarkOrderPaid, Undelivered,
         At, Idle
<1>7. CASE req[r].event = e /\ req[r].at = "findPayment"
  <2>1. FindPayment(r)
    BY <1>7, <1>6, DeliverySteps
  <2>2. CheckoutOpen(e.order, e.provider)
    BY <1>7 DEF DeliveriesOK, DeliveryOK, Captures
  <2>3. \E p \in PaymentIds : GotoWith(r, "succeedPayment", p)
    BY <1>7, <2>1, <2>2 DEF FindPayment, CheckoutOpen, Captures
  <2>4. req'[r].at = "succeedPayment" /\ req'[r].event = e
    BY <1>7, <2>3 DEF GotoWith, TypeOK, RequestStates
  <2> QED
    BY <2>4 DEF PaymentInHand
<1>8. CASE req[r].event = e /\ req[r].at = "succeedPayment"
  <2>1. SucceedPayment(r)
    BY <1>8, <1>6, DeliverySteps
  <2>2. payments[req[r].payment].order = e.order
    BY <1>8 DEF DeliveriesOK, DeliveryOK
  <2>3. req'[r].at = "markOrderPaid" /\ req'[r].order = e.order
    BY <2>1, <2>2 DEF SucceedPayment, ConfirmOrder, Idle, TypeOK
  <2> QED
    BY <2>3 DEF PaymentInHand, InHand
<1>9. CASE req[r].order = e.order /\ req[r].at = "markOrderPaid"
  <2>1. MarkOrderPaid(r)
    BY <1>9, <1>6, DeliverySteps
  <2> QED
    BY <1>9, <2>1 DEF MarkOrderPaid, PaymentInHand, Settled, Captures, TypeOK
<1> QED
  BY <1>2, <1>3, <1>4, <1>5, <1>7, <1>8, <1>9 DEF PaymentInHand, InHand

(* Whoever marks an order PAID goes on to give the registration its code.  *)
LEMMA CodeStep ==
  ASSUME TypeOK, RequestsOK, PaymentsAreInHand, NEW r \in Requests, SmoothStep(r),
         NEW o \in Orders, Settled(o)'
  PROVE  (qr[o] # NoQr \/ InHand(o, {"confirmRegistration"}))'
<1>1. /\ \A s \in Requests \ {r} : req'[s] = req[s]
      /\ Settled(o) => qr[o] # NoQr \/ InHand(o, {"confirmRegistration"})
  BY OneMoves DEF SmoothStep, PaymentsAreInHand
<1>2. CASE Elsewhere(r)
  BY <1>1, <1>2, HandStays DEF Elsewhere, Confirming, Settled
<1>3. CASE InsertOrder(r) \/ RefundOrder(r)
  <2>1. /\ Settled(o) /\ UNCHANGED qr /\ req[r].at \in {"insertOrder", "refundOrder"}
    BY <1>3 DEF InsertOrder, RefundOrder, TypeOK, At, Settled, RequestsOK, RequestOK
  <2> QED
    BY <1>1, <2>1, HandStays
<1>4. CASE MarkOrderPaid(r)
  <2>1. /\ UNCHANGED qr /\ req[r].at = "markOrderPaid"
        /\ req'[r].at = "confirmRegistration" /\ req'[r].order = req[r].order
        /\ req[r].order # o => orderStatus'[o] = orderStatus[o]
    BY <1>4, NextStep DEF MarkOrderPaid, At, TypeOK
  <2>2. CASE req[r].order = o
    BY <2>1, <2>2 DEF InHand
  <2>3. CASE req[r].order # o
    BY <1>1, <2>1, <2>3, HandStays DEF Settled
  <2> QED
    BY <2>2, <2>3
<1>5. CASE ConfirmRegistration(r)
  <2>1. /\ UNCHANGED orderStatus
        /\ req[r].order = o => qr'[o] # NoQr
        /\ req[r].order # o => qr'[o] = qr[o]
    BY <1>5, CheckoutAssumption DEF ConfirmRegistration, TypeOK
  <2> QED
    BY <1>1, <2>1, HandStays DEF Settled
<1>6. CASE QrCollision(r)
  <2>1. UNCHANGED <<orderStatus, qr>>
    BY <1>6 DEF QrCollision, tables
  <2>2. req'[r].at = "confirmRegistration" /\ req'[r].order = req[r].order
    BY <1>6, CollisionStays
  <2> QED
    BY <1>1, <2>1, <2>2, HandStays DEF Settled
<1>7. CASE ReadOrder(r) \/ ReadInvoice(r) \/ InsertInvoice(r) \/ InsertInvoiceConflict(r)
              \/ AttachDocument(r) \/ EmitSucceeded(r)
  <2>1. UNCHANGED <<orderStatus, qr>> /\ req[r].at # "confirmRegistration"
    BY <1>7 DEF ReadOrder, ReadInvoice, InsertInvoice, InsertInvoiceConflict, AttachDocument,
                EmitSucceeded, At, tables
  <2> QED
    BY <1>1, <2>1, HandStays DEF Settled
<1> QED
  BY <1>2, <1>3, <1>4, <1>5, <1>6, <1>7, ConfirmingSteps

(* What holds in every run in which no request dies.                       *)
SmoothInv == IInv /\ DeliveriesOK /\ PaymentsAreInHand /\ InvoicesAreInHand

LEMMA SmoothInit == Init => SmoothInv
<1> SUFFICES ASSUME Init PROVE DeliveriesOK /\ PaymentsAreInHand /\ InvoicesAreInHand
  BY InitIInv DEF SmoothInv
<1> QED
  BY DEF Init, Idle, DeliveriesOK, DeliveryOK, PaymentsAreInHand, InvoicesAreInHand, Settled

LEMMA SmoothStepInv == SmoothInv /\ [Smooth]_vars => SmoothInv'
<1> SUFFICES ASSUME SmoothInv, [Smooth]_vars PROVE SmoothInv'
  OBVIOUS
<1>1. CASE UNCHANGED vars
  <2>1. IInv'
    BY <1>1, StepIInv DEF SmoothInv
  <2> QED
    BY <1>1, <2>1 DEF vars, SmoothInv, DeliveriesOK, DeliveryOK, CheckoutOpen, PaymentsAreInHand,
                      InvoicesAreInHand, InHand, Settled
<1>2. CASE Smooth
  <2>1. PICK r \in Requests : SmoothStep(r)
    BY <1>2 DEF Smooth, SmoothStep
  <2>2. [Next]_vars
    BY <2>1 DEF SmoothStep, Next
  <2>3. IInv' /\ TypeOK /\ RequestsOK /\ RowsOK
    BY <2>2, StepIInv DEF SmoothInv, IInv, TablesOK
  <2>4. Monotone
    BY <2>2, <2>3, StepIsMonotone
  <2>5. DeliveriesOK'
    BY <2>1, <2>3, <2>4, DeliveriesStep DEF SmoothInv
  <2>6. PaymentsAreInHand'
    <3>1. \A e \in webhookEvents' : Captures(e) => PaymentInHand(e)'
      BY <2>1, <2>3, <2>4, PaymentStep DEF SmoothInv
    <3>2. \A o \in Orders : Settled(o)' => (qr[o] # NoQr \/ InHand(o, {"confirmRegistration"}))'
      BY <2>1, <2>3, CodeStep DEF SmoothInv
    <3> QED
      BY <3>1, <3>2 DEF PaymentsAreInHand, PaymentInHand, Captures
  <2>7. InvoicesAreInHand'
    <3>1. \A o \in Orders : InvoiceInHand(o)'
      BY <2>1, <2>3, InvoiceStep DEF SmoothInv
    <3> QED
      BY <3>1 DEF InvoicesAreInHand, InvoiceInHand, BeforeInvoice
  <2> QED
    BY <2>3, <2>5, <2>6, <2>7 DEF SmoothInv
<1> QED
  BY <1>1, <1>2

(* In a run without failures no captured payment is ever dropped: until    *)
(* the order is paid and the code assigned, a request has it in hand.      *)
THEOREM CapturedPaymentsAreInHand == SmoothSpec => []PaymentsAreInHand
<1>1. SmoothInv => PaymentsAreInHand
  BY DEF SmoothInv
<1> QED
  BY <1>1, SmoothInit, SmoothStepInv, PTL DEF SmoothSpec

(* Nor is a paid order: until its receipt is sent, one of the requests     *)
(* that compete for the invoice has the next step to take.                 *)
THEOREM PaidOrdersAreInHand == SmoothSpec => []InvoicesAreInHand
<1>1. SmoothInv => InvoicesAreInHand
  BY DEF SmoothInv
<1> QED
  BY <1>1, SmoothInit, SmoothStepInv, PTL DEF SmoothSpec
-----------------------------------------------------------------------------
(* Every request comes to an end: the measure of Checkout, case by case.   *)

LEMMA LeftAt ==
  ASSUME NEW q \in RequestStates
  PROVE  /\ StatementsLeft(q) \in Nat
         /\ q.at = "idle" => StatementsLeft(q) = 0
         /\ q.at # "idle" => StatementsLeft(q) > 0
         /\ q.at \in {"openCheckout", "failPayment", "updateClaim", "rejectClaim",
                      "refundRegistration", "emitSucceeded"} => StatementsLeft(q) = 1
         /\ q.at \in {"insertOrder", "refindClaim", "refundOrder", "attachDocument"}
                => StatementsLeft(q) = 2
         /\ q.at \in {"insertClaim", "refundPayment", "insertInvoice"} => StatementsLeft(q) = 3
         /\ q.at \in {"findClaim", "findRefund", "readInvoice"} => StatementsLeft(q) = 4
         /\ q.at = "readOrder" => StatementsLeft(q) = 5
         /\ q.at = "confirmRegistration" => StatementsLeft(q) = 6 + (MaxQrAttempts - q.tries)
         /\ q.at = "markOrderPaid" => StatementsLeft(q) = 7 + MaxQrAttempts
         /\ q.at \in {"succeedPayment", "approveClaim", "insertApproved"}
                => StatementsLeft(q) = 8 + MaxQrAttempts
         /\ q.at \in {"findPayment", "findApproval"} => StatementsLeft(q) = 9 + MaxQrAttempts
         /\ q.at = "recordEvent" => StatementsLeft(q) = 10 + MaxQrAttempts
<1>1. MaxQrAttempts \in Nat /\ q.tries \in 0 .. MaxQrAttempts /\ q.at \in Steps
  BY CheckoutAssumption DEF RequestStates
<1> QED
  BY <1>1 DEF StatementsLeft, Steps

LEMMA ContinueIsProgress ==
  ASSUME TypeOK, TypeOK', NEW r \in Requests, Continue(r)
  PROVE  StatementsLeft(req'[r]) < StatementsLeft(req[r])
<1> DEFINE before == req[r]
           after == req'[r]
           Shorter == StatementsLeft(after) < StatementsLeft(before)
<1>1. /\ before \in RequestStates /\ after \in RequestStates
      /\ MaxQrAttempts \in Nat /\ before.tries \in 0 .. MaxQrAttempts
      /\ after.tries \in 0 .. MaxQrAttempts
  BY CheckoutAssumption DEF TypeOK, RequestStates
<1>2. ASSUME Respond(r), before.at # "idle" PROVE Shorter
  <2>1. after.at = "idle"
    BY <1>2 DEF Respond, Idle, TypeOK
  <2> QED
    BY <1>1, <1>2, <2>1, LeftAt
<1>3. /\ \A step : Goto(r, step) => after.at = step
      /\ \A step, p : GotoWith(r, step, p) => after.at = step
      /\ \A o : ConfirmOrder(r, o) => after.at = "markOrderPaid"
  <2>1. \A step : Goto(r, step) => after.at = step
    BY <1>1 DEF Goto, TypeOK, RequestStates
  <2>2. \A step, p : GotoWith(r, step, p) => after.at = step
    BY <1>1 DEF GotoWith, TypeOK, RequestStates
  <2>3. \A o : ConfirmOrder(r, o) => after.at = "markOrderPaid"
    BY DEF ConfirmOrder, Idle, TypeOK
  <2> QED
    BY <2>1, <2>2, <2>3
<1> HIDE DEF before, after, Shorter
<1>4. InsertOrder(r) \/ InsertOrderConflict(r) \/ InsertGatewayPayment(r) => Shorter
  <2>1. InsertOrder(r) =>
            before.at = "insertOrder" /\ (Respond(r) \/ after.at = "openCheckout")
    BY <1>3 DEF InsertOrder, At, before
  <2>2. InsertOrderConflict(r) \/ InsertGatewayPayment(r) => before.at # "idle" /\ Respond(r)
    BY DEF InsertOrderConflict, InsertGatewayPayment, At, before
  <2> QED
    BY <1>1, <1>2, <2>1, <2>2, LeftAt DEF Shorter
<1>5. RecordEvent(r) \/ DismissEvent(r) \/ FindPayment(r) \/ FailPayment(r) \/ SucceedPayment(r)
         => Shorter
  <2>1. DismissEvent(r) \/ FailPayment(r) => before.at # "idle" /\ Respond(r)
    BY DEF DismissEvent, FailPayment, At, before
  <2>2. RecordEvent(r) => before.at = "recordEvent" /\ after.at = "findPayment"
    BY <1>3 DEF RecordEvent, At, before
  <2>3. FindPayment(r) =>
            /\ before.at = "findPayment"
            /\ Respond(r) \/ after.at \in {"succeedPayment", "failPayment"}
    BY <1>3 DEF FindPayment, At, before
  <2>4. SucceedPayment(r) => before.at = "succeedPayment" /\ after.at = "markOrderPaid"
    BY <1>3 DEF SucceedPayment, At, before
  <2> QED
    BY <1>1, <1>2, <2>1, <2>2, <2>3, <2>4, LeftAt DEF Shorter
<1>6. MarkOrderPaid(r) \/ ConfirmRegistration(r) \/ QrCollision(r) => Shorter
  <2>1. MarkOrderPaid(r) => before.at = "markOrderPaid" /\ after.at = "confirmRegistration"
    BY <1>3 DEF MarkOrderPaid, At, before
  <2>2. ConfirmRegistration(r) => before.at = "confirmRegistration" /\ after.at = "readOrder"
    BY DEF ConfirmRegistration, At, before, after, TypeOK, RequestStates
  <2>3. QrCollision(r) =>
            /\ before.at = "confirmRegistration"
            /\ Respond(r) \/ (after.at = "confirmRegistration" /\ after.tries = before.tries + 1)
    BY DEF QrCollision, At, before, after, TypeOK, RequestStates
  <2> QED
    BY <1>1, <1>2, <2>1, <2>2, <2>3, LeftAt DEF Shorter
<1>7. ReadOrder(r) \/ ReadInvoice(r) \/ InsertInvoice(r) \/ InsertInvoiceConflict(r)
         \/ AttachDocument(r) \/ EmitSucceeded(r) => Shorter
  <2>1. ReadOrder(r) => before.at = "readOrder" /\ (Respond(r) \/ after.at = "readInvoice")
    BY <1>3 DEF ReadOrder, At, before
  <2>2. ReadInvoice(r) =>
            before.at = "readInvoice" /\ after.at \in {"insertInvoice", "emitSucceeded"}
    BY <1>3 DEF ReadInvoice, At, before
  <2>3. InsertInvoice(r) => before.at = "insertInvoice" /\ after.at = "attachDocument"
    BY <1>3 DEF InsertInvoice, At, before
  <2>4. AttachDocument(r) => before.at = "attachDocument" /\ after.at = "emitSucceeded"
    BY <1>3 DEF AttachDocument, At, before
  <2>5. InsertInvoiceConflict(r) \/ EmitSucceeded(r) => before.at # "idle" /\ Respond(r)
    BY DEF InsertInvoiceConflict, EmitSucceeded, At, before
  <2> QED
    BY <1>1, <1>2, <2>1, <2>2, <2>3, <2>4, <2>5, LeftAt DEF Shorter
<1>8. FindClaim(r) \/ UpdateClaim(r) \/ InsertClaim(r) \/ InsertClaimConflict(r)
         \/ RefindClaim(r) => Shorter
  <2>1. FindClaim(r) => before.at = "findClaim" /\ after.at \in {"updateClaim", "insertClaim"}
    BY <1>3 DEF FindClaim, At, before
  <2>2. InsertClaimConflict(r) => before.at = "insertClaim" /\ after.at = "refindClaim"
    BY <1>3 DEF InsertClaimConflict, At, before
  <2>3. RefindClaim(r) => before.at = "refindClaim" /\ (Respond(r) \/ after.at = "updateClaim")
    BY <1>3 DEF RefindClaim, At, before
  <2>4. UpdateClaim(r) \/ InsertClaim(r) => before.at # "idle" /\ Respond(r)
    BY DEF UpdateClaim, InsertClaim, At, before
  <2> QED
    BY <1>1, <1>2, <2>1, <2>2, <2>3, <2>4, LeftAt DEF Shorter
<1>9. FindApproval(r) \/ ApproveClaim(r) \/ InsertApproved(r) \/ RejectClaim(r) => Shorter
  <2>1. FindApproval(r) =>
            before.at = "findApproval" /\ after.at \in {"approveClaim", "insertApproved"}
    BY <1>3 DEF FindApproval, At, before
  <2>2. ApproveClaim(r) \/ InsertApproved(r) =>
            before.at \in {"approveClaim", "insertApproved"} /\ after.at = "markOrderPaid"
    BY <1>3 DEF ApproveClaim, InsertApproved, At, before
  <2>3. RejectClaim(r) => before.at # "idle" /\ Respond(r)
    BY DEF RejectClaim, At, before
  <2> QED
    BY <1>1, <1>2, <2>1, <2>2, <2>3, LeftAt DEF Shorter
<1>10. FindRefund(r) \/ RefundPayment(r) \/ RefundOrder(r) \/ RefundRegistration(r) => Shorter
  <2>1. FindRefund(r) => before.at = "findRefund" /\ (Respond(r) \/ after.at = "refundPayment")
    BY <1>3 DEF FindRefund, At, before
  <2>2. RefundPayment(r) => before.at = "refundPayment" /\ after.at = "refundOrder"
    BY DEF RefundPayment, At, before, after, TypeOK
  <2>3. RefundOrder(r) => before.at = "refundOrder" /\ after.at = "refundRegistration"
    BY <1>3 DEF RefundOrder, At, before
  <2>4. RefundRegistration(r) => before.at # "idle" /\ Respond(r)
    BY DEF RefundRegistration, At, before
  <2> QED
    BY <1>1, <1>2, <2>1, <2>2, <2>3, <2>4, LeftAt DEF Shorter
<1>11. Shorter
  BY <1>4, <1>5, <1>6, <1>7, <1>8, <1>9, <1>10 DEF Continue
<1> QED
  BY <1>11 DEF Shorter, before, after

LEMMA NothingIsAdded ==
  ASSUME TypeOK, TypeOK', [Next]_vars, NEW r \in Requests, req[r] # Idle
  PROVE  StatementsLeft(req'[r]) <= StatementsLeft(req[r])
<1>1. StatementsLeft(req[r]) \in Nat /\ StatementsLeft(req'[r]) \in Nat
  <2>1. req[r] \in RequestStates /\ req'[r] \in RequestStates
    BY DEF TypeOK
  <2> QED
    BY <2>1, LeftAt
<1>2. CASE UNCHANGED req[r]
  BY <1>1, <1>2
<1>3. CASE ~UNCHANGED req[r]
  <2>1. PICK s \in Requests : Begin(s) \/ Continue(s) \/ Abort(s)
    BY <1>3 DEF Next, vars
  <2>2. s = r
    BY <1>3, <2>1, OneMoves
  <2>3. ~Begin(r)
    BY BeginIsArrival
  <2>4. CASE Abort(r)
    <3>1. req'[r] = Idle
      BY <2>4 DEF Abort, Respond, TypeOK
    <3>2. StatementsLeft(Idle) = 0
      BY DEF StatementsLeft, Idle
    <3> QED
      BY <1>1, <3>1, <3>2
  <2>5. CASE Continue(r)
    BY <1>1, <2>5, ContinueIsProgress
  <2> QED
    BY <2>1, <2>2, <2>3, <2>4, <2>5
<1> QED
  BY <1>2, <1>3

(* Every statement of a request, the retries of taken codes included,      *)
(* brings it nearer to its response, and no one else puts it further away. *)
THEOREM EveryStatementIsProgress == Spec => StatementsAreProgress
<1> DEFINE A == \A r \in Requests :
                    /\ Continue(r) => StatementsLeft(req'[r]) < StatementsLeft(req[r])
                    /\ req[r] # Idle => StatementsLeft(req'[r]) <= StatementsLeft(req[r])
<1>1. IInv /\ IInv' /\ [Next]_vars => [A]_vars
  BY ContinueIsProgress, NothingIsAdded DEF IInv
<1>2. [][A]_vars => StatementsAreProgress
  BY PTL DEF StatementsAreProgress
<1> QED
  BY <1>1, <1>2, Invariance, PTL DEF Spec
=============================================================================
