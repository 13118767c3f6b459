------------------------------ MODULE Platform ------------------------------
(***************************************************************************)
(* All the money flows of one platform at once: withdrawals, top-ups,       *)
(* payment codes and merchant credits, and the back office.  They share the *)
(* accounts with their transactions and row locks, the cash pools and the   *)
(* settlement book with their logs, and the members' points; each keeps its *)
(* own sessions, codes or calls.                                            *)
(***************************************************************************)
EXTENDS WalletAdmin, Functions

CONSTANTS
    Withdrawals, Owner, Amount, WithdrawFee, NoMerchant, OpeningPoints,
    CooldownThreshold, MaxPush,
    Topups, Depositor, Asked, ProviderAmounts, TopupFee, TxId, NoTopupMerchant,
    Codes, Holder, CodeAmount, PointChoices, ActiveCap,
    Credits, CreditTo, CreditAmount, CommerceFee, Tiers, NoOne

VARIABLES
    wstatus, wmerchant, request, overdue, pushReads, outbound, payout,
    totalPoints, pointsLog, cooldown,
    tstatus, tmerchant, tamount, tdue, creating, inFlight, shadowLog,
    cstatus, consumedBy, codePoints, cdue, counted, creditedBy,
    spendPoints, tier

W == INSTANCE Withdraw
T == INSTANCE Topup
C == INSTANCE Commerce

\* The assumptions of each flow; ids of different tables are never confused, a
\* row's reference_type says which it is; a merchant has one type.
ASSUME PlatformAssumption ==
    /\ W!WithdrawAssumption /\ T!TopupAssumption /\ C!CommerceAssumption
    /\ Withdrawals \cap (Topups \cup Codes \cup Credits) = {}
    /\ Topups \cap (Codes \cup Credits) = {}
    /\ \A t \in Topups : TxId[t] \notin Withdrawals \cup Codes \cup Credits
    /\ Finance \cap Commerce = {}
    /\ IsFiniteSet(Withdrawals) /\ IsFiniteSet(Calls)

\* What each flow keeps for itself.
withdrawVars == <<wstatus, wmerchant, request, overdue, pushReads, outbound,
                  payout, pointsLog, cooldown>>
topupVars == <<tstatus, tmerchant, tamount, tdue, creating, inFlight, shadowLog>>
commerceVars == <<cstatus, consumedBy, codePoints, cdue, counted, creditedBy,
                  spendPoints, tier>>
vars == <<walletVars, settlementVars, totalPoints,
          withdrawVars, topupVars, commerceVars, adminVars>>

Init ==
    /\ WalletInit
    /\ SettlementInit
    /\ W!WithdrawInit
    /\ T!TopupInit
    /\ C!CommerceInit
    /\ AdminInit

WithdrawStep ==
    W!Next /\ UNCHANGED <<settlementVars, topupVars, commerceVars, adminVars>>
TopupStep ==
    /\ T!Next
    /\ UNCHANGED <<settlementVars, totalPoints, withdrawVars, commerceVars, adminVars>>
CommerceStep ==
    C!Next /\ UNCHANGED <<poolVars, withdrawVars, topupVars, adminVars>>
AdminStep ==
    AdminNext /\ UNCHANGED <<totalPoints, withdrawVars, topupVars, commerceVars>>

Next == WithdrawStep \/ TopupStep \/ CommerceStep \/ AdminStep

Spec == Init /\ [][Next]_vars

-----------------------------------------------------------------------------
TypeOK == W!TypeOK /\ T!TypeOK /\ C!TypeOK /\ AdminTypeOK

\* A balance is what the flows together have moved: the opening balance, plus
\* top-ups and merchant credits, less withdrawals and spending, plus the
\* adjustments done.
BalanceExplained ==
    \A u \in Members :
        LET adjusted == {c \in Calls : /\ stage[c] = "done" /\ Task[c].on = u
                                       /\ Task[c].op = "adjustBalance"}
        IN  balance[u] = OpeningBalance[u]
              + SumFunctionOnSet(tamount, {t \in Topups :
                    Depositor[t] = u /\ T!Credited(t)})
              - SumFunctionOnSet(Amount, {s \in Withdrawals :
                    Owner[s] = u /\ wstatus[s] = "success"})
              - SumFunctionOnSet(CodeAmount, {c \in Codes :
                    Holder[c] = u /\ cstatus[c] = "consumed"})
              + SumFunctionOnSet(CreditAmount, {k \in Credits :
                    CreditTo[k] = u /\ creditedBy[k] # NoOne})
              + SumFunction([c \in adjusted |-> Task[c].amount])

\* Withdrawals and codes each keep the promise of a hold while the other flows
\* use the rest of the account, the other hold included: the holds of both are
\* one set of holds.
HoldOwner == [h \in Withdrawals \cup Codes |->
                IF h \in Withdrawals THEN Owner[h] ELSE Holder[h]]
HoldAmount == [h \in Withdrawals \cup Codes |->
                 IF h \in Withdrawals THEN Amount[h] ELSE CodeAmount[h]]
H == INSTANCE Hold WITH
        Accounts <- Members, Holds <- Withdrawals \cup Codes,
        HolderOf <- HoldOwner, AmountOf <- HoldAmount,
        Opening <- OpeningBalance, funds <- balance,
        held <- W!Open \cup C!Active,
        captured <- W!Ended("success") \cup C!Ended({"consumed"}),
        released <- W!Ended("failed") \cup W!Ended("timeout")
                       \cup C!Ended({"cancelled", "expired"})
ImplementsHold == H!HoldSpec
=============================================================================
