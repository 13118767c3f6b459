---------------------------- MODULE Settlements ----------------------------
(***************************************************************************)
(* The settlement book of the commerce merchants: what the platform owes    *)
(* each of them (negative when the merchant owes), down to a credit limit,  *)
(* and its append-only log.                                                 *)
(***************************************************************************)
EXTENDS Ledger

CONSTANTS
    Commerce,           \* merchants of type commerce that are not parents
    OpeningSettlement,  \* merchants.balance when the behaviour starts
    OpeningLimit        \* merchants.credit_limit when the behaviour starts

ASSUME SettlementAssumption ==
    /\ OpeningLimit \in [Commerce -> Nat]
    /\ OpeningSettlement \in [Commerce -> Int]
    /\ \A m \in Commerce : OpeningSettlement[m] >= -OpeningLimit[m]

VARIABLES
    settlement,    \* merchants.balance
    creditLimit,   \* merchants.credit_limit
    settlementLog  \* merchant_settlement_log, in id order

settlementVars == <<settlement, creditLimit, settlementLog>>

SettlementReasons == {"spend", "merchant_credit", "manual_settlement"}
SettlementRow == [reason: SettlementReasons, ref: Refs \cup {NoRef},
                  change: Int, before: Int, after: Int]

\* What a merchant may still be debited by flow B.
CreditLeft(m) == settlement[m] + creditLimit[m]

PostSettlement_Unlogged(m, change, reason, ref) ==
    /\ settlement' = [settlement EXCEPT ![m] = @ + change]
    /\ UNCHANGED settlementLog

\* Flows A and B hold the merchant row from the read of its balance to COMMIT.
PostSettlement(m, change, reason, ref) ==
    /\ settlement' = [settlement EXCEPT ![m] = @ + change]
    /\ settlementLog' = [settlementLog EXCEPT
           ![m] = Append(@, LogRow(reason, ref, change, settlement[m]))]

-----------------------------------------------------------------------------
SettlementInit ==
    /\ settlement = OpeningSettlement
    /\ creditLimit = OpeningLimit
    /\ settlementLog = [m \in Commerce |->
                          IF OpeningSettlement[m] = 0 THEN << >>
                          ELSE << LogRow("manual_settlement", NoRef,
                                         OpeningSettlement[m], 0) >>]

SettlementTypeOK ==
    /\ settlement \in [Commerce -> Int]
    /\ creditLimit \in [Commerce -> Nat]
    /\ settlementLog \in [Commerce -> Seq(SettlementRow)]

=============================================================================
