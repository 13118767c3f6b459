----------------------------- MODULE MCCommerce -----------------------------
(***************************************************************************)
(* Instances of Commerce for TLC.  One member makes several codes, together *)
(* more than its balance; two merchants of different commissions consume    *)
(* them, and one of them can credit the member down to its credit limit.    *)
(***************************************************************************)
EXTENDS Commerce, TLC

CONSTANTS u1, g1, g2, c1, c2, c3, k1, k2

MCHolder == [c \in Codes |-> u1]
MCCodeAmount == [c \in Codes |-> IF c = c1 THEN 10 ELSE 8]
MCCreditTo == [k \in Credits |-> u1]
MCCreditAmount == [k \in Credits |-> IF k = k1 THEN 5 ELSE 3]
MCFee == [m \in Commerce |-> [r \in Codes \cup Credits |->
             IF m = g1 THEN 1 ELSE IF r = c2 THEN 9 ELSE 0]]
MCTiers == << [minPoints |-> 0, minTurnover |-> 0],
              [minPoints |-> 2, minTurnover |-> 0],
              [minPoints |-> 2, minTurnover |-> 10] >>
MCOpeningBalance == [u \in Members |-> 18]
MCOpeningSettlement == [m \in Commerce |-> IF m = g1 THEN 2 ELSE -1]
MCOpeningLimit == [m \in Commerce |-> IF m = g1 THEN 3 ELSE 1]
=============================================================================
