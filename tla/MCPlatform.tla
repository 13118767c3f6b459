----------------------------- MODULE MCPlatform -----------------------------
(***************************************************************************)
(* Instances of Integrity for TLC: one member, one finance merchant and one  *)
(* commerce merchant.  The runs differ in which flows have something to do. *)
(***************************************************************************)
EXTENDS Integrity, TLC

CONSTANTS u1, f1, g1, w1, t1, x1, p1, p2, k1, c1, c2, c3, c4, key1

MCOwner == [s \in Withdrawals |-> u1]
MCAmount == [s \in Withdrawals |-> 20]
MCWithdrawFee == [f \in Finance |-> [s \in Withdrawals |-> 2]]
MCOpeningPoints == [u \in Members |-> 1]
MCDepositor == [s \in Topups |-> u1]
MCAsked == [s \in Topups |-> 10]
MCTopupFee == [f \in Finance |-> [a \in ProviderAmounts |-> 1]]
MCTxId == [s \in Topups |-> x1]
MCHolder == [c \in Codes |-> u1]
MCCodeAmount == [c \in Codes |-> IF c = p1 THEN 12 ELSE 6]
MCCreditTo == [k \in Credits |-> u1]
MCCreditAmount == [k \in Credits |-> 4]
MCCommerceFee == [m \in Commerce |-> [r \in Codes \cup Credits |-> 1]]
MCTiers == << [minPoints |-> 0, minTurnover |-> 0],
              [minPoints |-> 2, minTurnover |-> 0] >>
MCOpeningBalance == [u \in Members |-> 30]
MCOpeningPool == [f \in Finance |-> 20]
MCOverdraft == [f \in Finance |-> 0]
MCOpeningSettlement == [m \in Commerce |-> 2]
MCOpeningLimit == [m \in Commerce |-> 3]

\* Two clicks on one adjustment share a key; the other calls have none.
SameKey == [c \in Calls |-> key1]
DebitKey == [c \in Calls |-> IF c \in {c1, c2} THEN key1 ELSE NoKey]

\* A pool adjusted downwards, or set to the value it has at first, so that the
\* set may find that it changes nothing.
PoolTask == [c \in Calls |-> [op |-> "adjustCashPool", on |-> f1, amount |-> -5]]
SetPoolTask == [c \in Calls |-> [op |-> "setCashPool", on |-> f1, amount |-> 20]]
\* A debit that the account covers only while nothing is reserved, sent twice;
\* a settlement paid out to the merchant, and its credit limit lowered.
MixedTask == [c \in Calls |->
               CASE c \in {c1, c2} -> [op |-> "adjustBalance", on |-> u1, amount |-> -15]
                 [] c = c3 -> [op |-> "recordManualSettlement", on |-> g1, amount |-> -4]
                 [] OTHER  -> [op |-> "setCreditLimit", on |-> g1, amount |-> 1]]
=============================================================================
