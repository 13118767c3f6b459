------------------------------- MODULE MCTopup -------------------------------
(***************************************************************************)
(* Instances of Topup for TLC: a member with two sessions, so that a late   *)
(* write can meet the member's next session.  The merchant reports the      *)
(* amount asked for or another one; the fee on the other one takes it all.  *)
(***************************************************************************)
EXTENDS Topup

CONSTANTS u1, f1, t1, t2, x1, x2

MCDepositor == [s \in Topups |-> u1]
MCAsked == [s \in Topups |-> 10]
MCTopupFee == [f \in Finance |-> [a \in ProviderAmounts |-> IF a = 7 THEN 7 ELSE 1]]
MCTxId == [s \in Topups |-> IF s = t1 THEN x1 ELSE x2]
MCOpeningBalance == [u \in Members |-> 0]
MCOpeningPool == [f \in Finance |-> 5]
MCOverdraft == [f \in Finance |-> 0]
=============================================================================
