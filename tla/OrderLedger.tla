----------------------------- MODULE OrderLedger -----------------------------
(***************************************************************************)
(* What the payment code promises about one order, whatever requests run:  *)
(* an order is opened, money for it is received, it is paid only then, and *)
(* only a paid order admits its registrant, is invoiced and is refunded.   *)
(* A paid order never becomes unpaid again: it can only be refunded and,   *)
(* with money received, be paid anew.  Nothing is said of how requests are *)
(* processed: see Checkout, which implements this module.                  *)
(***************************************************************************)
CONSTANT Orders

VARIABLES
    order,      \* the status of each order
    admission,  \* the status of the registration it is for
    money,      \* whether money for it was ever received
    invoiced    \* whether it has an invoice

ledger == <<order, admission, money, invoiced>>

Paid(o) == order[o] \in {"PAID", "REFUNDED"}

Init ==
    /\ order = [o \in Orders |-> "NONE"]
    /\ admission = [o \in Orders |-> "PENDING"]
    /\ money = [o \in Orders |-> FALSE]
    /\ invoiced = [o \in Orders |-> FALSE]

Open(o) ==
    /\ order[o] = "NONE"
    /\ order' = [order EXCEPT ![o] = "PENDING"]
    /\ UNCHANGED <<admission, money, invoiced>>

Receive(o) ==
    /\ order[o] # "NONE"
    /\ money' = [money EXCEPT ![o] = TRUE]
    /\ UNCHANGED <<order, admission, invoiced>>

Pay(o) ==
    /\ order[o] # "NONE"
    /\ money[o]
    /\ order' = [order EXCEPT ![o] = "PAID"]
    /\ UNCHANGED <<admission, money, invoiced>>

Admit(o) ==
    /\ Paid(o)
    /\ admission' = [admission EXCEPT ![o] = "CONFIRMED"]
    /\ UNCHANGED <<order, money, invoiced>>

Bill(o) ==
    /\ Paid(o)
    /\ invoiced' = [invoiced EXCEPT ![o] = TRUE]
    /\ UNCHANGED <<order, admission, money>>

GiveBack(o) ==
    /\ Paid(o)
    /\ order' = [order EXCEPT ![o] = "REFUNDED"]
    /\ UNCHANGED <<admission, money, invoiced>>

Withdraw(o) ==
    /\ Paid(o)
    /\ admission' = [admission EXCEPT ![o] = "REFUNDED"]
    /\ UNCHANGED <<order, money, invoiced>>

Next == \E o \in Orders : \/ Open(o) \/ Receive(o) \/ Pay(o) \/ Admit(o)
                          \/ Bill(o) \/ GiveBack(o) \/ Withdraw(o)

Spec == Init /\ [][Next]_ledger
=============================================================================
