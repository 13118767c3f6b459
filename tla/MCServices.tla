---------------------------- MODULE MCServices ----------------------------
(***************************************************************************)
(* Instance of Services for TLC: three requests with one reference, of      *)
(* which one has another body; two places a dispatcher may run in and two     *)
(* mails; two tabs and two refresh calls; three logins at once, two            *)
(* challenges and two backup codes; two cash-outs that fit one at a time, with   *)
(* a spend and a credit beside them; two campaigns with a pool and one that is     *)
(* created, two calls about them; four about a payout and a referral; two         *)
(* connections, two withdrawals and an adjustment of one member, a top-up, and     *)
(* a session that ends.                                                           *)
(***************************************************************************)
EXTENDS Services, TLC

CONSTANTS r1, r2, r3, k1, b1, b2, g1, o1, o2, o3, s1, s2, ps1, ps2, ps3,
          tw1, tw2, tt, ta, tk, u1, rt1

MCRefOf == [r \in Requests |-> k1]
MCPayloadOf == [r \in Requests |-> IF r = r3 THEN b2 ELSE b1]

MCOpeningSettlement == [m \in Commerce |-> 10]
MCOpeningLimit == [m \in Commerce |-> 4]
MCCashoutOf == [c \in Cashouts |-> g1]
MCTotalOf == [c \in Cashouts |-> IF c = o1 THEN 6 ELSE IF c = o2 THEN 5 ELSE 4]
MCMove == [x \in Refs |-> [merchant |-> g1, change |-> IF x = s1 THEN 3 ELSE -8]]

MCPoolOf == [c \in {ps1, ps2} |-> 5]
\* 3.33 and 1.67 of the pot; 4 and 1, whole numbers; one recipient.
MCTurnovers == [c \in Campaigns |-> CASE c = ps1 -> <<2, 1>>
                                     [] c = ps2 -> <<4, 1>>
                                     [] c = ps3 -> <<3>>]

\* The rows: a member's account and a refresh token.  A top-up locks none.
MCRowWanted == [t \in Transactions \ {tt} |-> IF t = tk THEN rt1 ELSE u1]
=============================================================================
