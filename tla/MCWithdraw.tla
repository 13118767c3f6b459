----------------------------- MODULE MCWithdraw -----------------------------
(***************************************************************************)
(* Instances of Withdraw for TLC.  Members m1 and m2 share the finance      *)
(* merchants; m1 has two sessions, so that a second request can race the    *)
(* first one.  Its balance covers both, so that only the index refuses it.   *)
(***************************************************************************)
EXTENDS Withdraw, TLC

CONSTANTS m1, m2, f1, f2, w1, w2, w3

MCOwner == (w1 :> m1) @@ (w2 :> m1) @@ (w3 :> m2)
MCAmount == (w1 :> 10) @@ (w2 :> 15) @@ (w3 :> 20)
MCFee == [f \in Finance |-> (w1 :> 1) @@ (w2 :> 2) @@ (w3 :> 0)]
MCOpeningBalance == (m1 :> 25) @@ (m2 :> 20)
MCOpeningPoints == (m1 :> 5) @@ (m2 :> 3)
\* One merchant, whose capacity covers w1 and w3 together but not w2 and w3.
MCOpeningPool == [f \in Finance |-> 29]
MCOverdraft == [f \in Finance |-> 3]

\* Two merchants whose commissions differ, two sessions, one member each: a
\* scan can time out two sessions of one merchant or one of each.
TwoOwner == (w1 :> m1) @@ (w2 :> m2)
TwoAmount == (w1 :> 10) @@ (w2 :> 20)
TwoFee == (f1 :> ((w1 :> 1) @@ (w2 :> 2))) @@ (f2 :> ((w1 :> 0) @@ (w2 :> 20)))
TwoOpeningPool == (f1 :> 30) @@ (f2 :> 20)
TwoOverdraft == (f1 :> 0) @@ (f2 :> 10)
=============================================================================
