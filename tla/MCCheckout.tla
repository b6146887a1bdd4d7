----------------------------- MODULE MCCheckout -----------------------------
(* TLC instances of Checkout.                                              *)
EXTENDS Checkout, TLC

(* Ids of rows, request slots and codes are interchangeable; attempts are  *)
(* not, one of them being the captured one.                                *)
Symmetry == Permutations(Orders) \cup Permutations(PaymentIds)
            \cup Permutations(Requests) \cup Permutations(QrCodes)
=============================================================================
