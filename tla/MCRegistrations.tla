---------------------------- MODULE MCRegistrations ----------------------------
(* TLC instances of Registrations: one conference whose category has one   *)
(* limited pricing window, and two conferences with a category each.       *)
EXTENDS Registrations, TLC

CONSTANTS c1, c2, k1, k2, t1, t2

OneConferenceOf == k1 :> c1
OneCategoryOf == t1 :> k1
OneCapacity == t1 :> 1

TwoConferencesOf == (k1 :> c1) @@ (k2 :> c2)
TwoCategoryOf == (t1 :> k1) @@ (t2 :> k2)
TwoNoLimit == (t1 :> Unlimited) @@ (t2 :> Unlimited)

Symmetry == Permutations(Users) \cup Permutations(Requests)
=============================================================================
