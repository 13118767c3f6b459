------------------------------ MODULE Commerce ------------------------------
(***************************************************************************)
(* Flow A: a member reserves money for a payment code, and a commerce       *)
(* merchant that is shown the code consumes it.  Flow B: a merchant credits *)
(* a member, out of its own settlement balance and credit limit.            *)
(*                                                                          *)
(* Cancelling, consuming, expiring and crediting lock every row they decide *)
(* on and are one step each.  Creating a code counts the member's active    *)
(* codes before it locks the account, so it is two.                         *)
(***************************************************************************)
EXTENDS Accounts, Settlements, FiniteSetsExt, Functions

CONSTANTS
    Codes,         \* payment_codes ids; the transaction has the same id here
    Holder,        \* the member of a code
    CodeAmount,    \* the amount of a code
    PointChoices,  \* points computeSpendPoints may reserve for a code
    ActiveCap,     \* ACTIVE_CODES_CAP
    Credits,       \* requests of flow B a behaviour may use
    CreditTo,      \* the member a request credits
    CreditAmount,  \* the amount it credits
    CommerceFee,   \* computeFee at a merchant for a code or a credit
    Tiers,         \* loyalty tiers in sort order: points and turnover needed
    NoOne          \* consumed_by_merchant of a code that is not consumed

ASSUME CommerceAssumption ==
    /\ Codes \cup Credits \subseteq Refs /\ Codes \cap Credits = {}
    /\ Holder \in [Codes -> Members]
    /\ CodeAmount \in [Codes -> Nat \ {0}]
    /\ PointChoices \subseteq Nat
    /\ ActiveCap \in Nat
    /\ CreditTo \in [Credits -> Members]
    /\ CreditAmount \in [Credits -> Nat \ {0}]
    /\ CommerceFee \in [Commerce -> [Codes \cup Credits -> Nat]]
    /\ Tiers \in Seq([minPoints: Nat, minTurnover: Nat]) /\ Len(Tiers) > 0
    /\ NoOne \notin Commerce
    /\ IsFiniteSet(Members) /\ IsFiniteSet(Commerce)
    /\ IsFiniteSet(Codes) /\ IsFiniteSet(Credits)

VARIABLES
    cstatus,      \* payment_codes.status
    consumedBy,   \* payment_codes.consumed_by_merchant
    codePoints,   \* payment_codes.reserved_spend_points
    cdue,         \* codes whose expires_at has passed
    counted,      \* codes whose creation found the member below the cap
    creditedBy,   \* the merchant that made a flow B credit
    totalPoints,  \* accounts.total_points
    spendPoints,  \* loyalty_points_log rows with reason spend
    tier          \* accounts.current_tier_id, as an index of Tiers

codeVars == <<cstatus, consumedBy, codePoints>>
loyaltyVars == <<totalPoints, spendPoints, tier>>
commerceVars == <<codeVars, cdue, counted, creditedBy, loyaltyVars>>
vars == <<accountVars, locked, settlementVars, commerceVars>>

CodeStatuses == {"unused", "active", "consumed", "cancelled", "expired"}

Active == {c \in Codes : cstatus[c] = "active"}
ActiveOf(u) == {c \in Active : Holder[c] = u}

-----------------------------------------------------------------------------
\* createPaymentCode counts the active codes before it locks anything.
CountCodes(c) ==
    /\ cstatus[c] = "unused" /\ c \notin counted
    /\ Cardinality(ActiveOf(Holder[c])) < ActiveCap
    /\ counted' = counted \cup {c}
    /\ UNCHANGED <<accountVars, locked, settlementVars, codeVars, cdue,
                   creditedBy, loyaltyVars>>

FundsCover(u, amount) == amount <= Available(u)

\* Under the account lock: the available balance covers the amount, the points
\* of the purchase are fixed, the code inserted and the amount reserved.
CreateCode(c, points) ==
    LET u == Holder[c]
    IN  /\ c \in counted
        /\ AccountFree(u)
        /\ FundsCover(u, CodeAmount[c])
        /\ counted' = counted \ {c}
        /\ cstatus' = [cstatus EXCEPT ![c] = "active"]
        /\ codePoints' = [codePoints EXCEPT ![c] = points]
        /\ reserved' = [reserved EXCEPT ![u] = @ + CodeAmount[c]]
        /\ UNCHANGED <<balance, txns, locked, settlementVars, consumedBy, cdue,
                       creditedBy, loyaltyVars>>

\* Not enough funds, or the connection is lost: rolled back.
AbortCode(c) ==
    /\ c \in counted
    /\ counted' = counted \ {c}
    /\ UNCHANGED <<accountVars, locked, settlementVars, codeVars, cdue,
                   creditedBy, loyaltyVars>>

\* The member cancels; the code row is locked first, then the account.
StillActive_Unlocked(c) == cstatus[c] \in {"active", "consumed"}
StillActive(c) == cstatus[c] = "active"
CancelCode(c) ==
    /\ StillActive(c)
    /\ AccountFree(Holder[c])
    /\ cstatus' = [cstatus EXCEPT ![c] = "cancelled"]
    /\ ReleaseReserved(Holder[c], CodeAmount[c])
    /\ UNCHANGED <<balance, txns, locked, settlementVars, consumedBy,
                   codePoints, cdue, counted, creditedBy, loyaltyVars>>

-----------------------------------------------------------------------------
\* The last tier, in sort order, whose two thresholds are met.
Eligible(points, turnover) ==
    LET met == {i \in 1 .. Len(Tiers) : /\ points >= Tiers[i].minPoints
                                        /\ turnover >= Tiers[i].minTurnover}
    IN  IF met = {} THEN 1 ELSE Max(met)

\* queryLifetimeSpendTurnover takes the first row of the result and then
\* element 0 of that row, which no row has: the sum is always the default 0.
TurnoverRead(u) == 0

\* The tier moves up to the eligible one and never down.
MaybeUpgradeTier(u) ==
    LET eligible == Eligible(totalPoints'[u], TurnoverRead(u))
    IN  tier' = [tier EXCEPT ![u] = IF eligible > @ THEN eligible ELSE @]

\* A code is refused once its time is over, expired by the job or not.
Expired(c) == c \in cdue

\* What the merchant's book gains: the amount less the commission.
NetOf_Gross(m, c) == CodeAmount[c]
NetOf(m, c) == CodeAmount[c] - CommerceFee[m][c]

AwardPoints(c) ==
    totalPoints' = [totalPoints EXCEPT ![Holder[c]] = @ + codePoints[c]]

\* consumePaymentCode: the code, the merchant and the account are locked, in
\* this order; the member pays gross, the merchant's book gains net, and the
\* points fixed at creation are awarded.
ConsumeCode(c, m) ==
    LET u == Holder[c]
        net == NetOf(m, c)
    IN  /\ StillActive(c) /\ ~Expired(c)
        /\ net >= 0
        /\ AccountFree(u)
        /\ balance' = [balance EXCEPT ![u] = @ - CodeAmount[c]]
        /\ ReleaseReserved(u, CodeAmount[c])
        /\ AwardPoints(c)
        /\ AppendTx(u, "spend", c, -CodeAmount[c])
        /\ cstatus' = [cstatus EXCEPT ![c] = "consumed"]
        /\ consumedBy' = [consumedBy EXCEPT ![c] = m]
        /\ PostSettlement(m, net, "spend", c)
        /\ spendPoints' = spendPoints \cup
              (IF codePoints[c] > 0 THEN {<<c, codePoints[c]>>} ELSE {})
        /\ MaybeUpgradeTier(u)
        /\ UNCHANGED <<locked, creditLimit, codePoints, cdue, counted,
                       creditedBy>>

\* The TTL of a code runs out.
CodeDue(c) ==
    /\ c \in Active \ cdue
    /\ cdue' = cdue \cup {c}
    /\ UNCHANGED <<accountVars, locked, settlementVars, codeVars, counted,
                   creditedBy, loyaltyVars>>

\* What the job gives back to a member: its loop visits every expired code.
Returned(u, due) == SumFunctionOnSet(CodeAmount, {c \in due : Holder[c] = u})

DueCodes_WrongStatus == {c \in cdue : cstatus[c] = "expired"}
DueCodes == Active \cap cdue

\* The cron job expires every active code that is due, and releases each.
ExpireCodes ==
    LET due == DueCodes
    IN  /\ due # {}
        /\ \A c \in due : AccountFree(Holder[c])
        /\ cstatus' = [c \in Codes |-> IF c \in due THEN "expired" ELSE cstatus[c]]
        /\ reserved' = [u \in Members |-> Clamp(reserved[u] - Returned(u, due))]
        /\ UNCHANGED <<balance, txns, locked, settlementVars, consumedBy,
                       codePoints, cdue, counted, creditedBy, loyaltyVars>>

\* The book and the credit limit cover the amount and its commission.
BookCovers(m, k) == CreditAmount[k] + CommerceFee[m][k] <= CreditLeft(m)

\* creditMember: merchant and account are locked; the merchant is debited the
\* amount and its commission, within its credit limit.
CreditMember(k, m) ==
    LET u == CreditTo[k]
        total == CreditAmount[k] + CommerceFee[m][k]
    IN  /\ creditedBy[k] = NoOne
        /\ BookCovers(m, k)
        /\ AccountFree(u)
        /\ PostSettlement(m, -total, "merchant_credit", k)
        /\ balance' = [balance EXCEPT ![u] = @ + CreditAmount[k]]
        /\ AppendTx(u, "merchant_credit", k, CreditAmount[k])
        /\ creditedBy' = [creditedBy EXCEPT ![k] = m]
        /\ UNCHANGED <<reserved, locked, creditLimit, codeVars, cdue, counted,
                       loyaltyVars>>

-----------------------------------------------------------------------------
CommerceInit ==
    /\ cstatus = [c \in Codes |-> "unused"]
    /\ consumedBy = [c \in Codes |-> NoOne]
    /\ codePoints = [c \in Codes |-> 0]
    /\ cdue = {}
    /\ counted = {}
    /\ creditedBy = [k \in Credits |-> NoOne]
    /\ spendPoints = {}
    /\ tier = [u \in Members |-> 1]

Init ==
    /\ AccountsInit
    /\ SettlementInit
    /\ CommerceInit
    /\ totalPoints = [u \in Members |-> 0]

Next ==
    \/ \E c \in Codes :
          \/ CountCodes(c)
          \/ \E points \in PointChoices : CreateCode(c, points)
          \/ AbortCode(c)
          \/ CancelCode(c)
          \/ CodeDue(c)
          \/ \E m \in Commerce : ConsumeCode(c, m)
    \/ ExpireCodes
    \/ \E k \in Credits, m \in Commerce : CreditMember(k, m)

\* Time passes and the scheduler runs the job every five minutes.
Fairness ==
    /\ \A c \in Codes : WF_vars(CodeDue(c))
    /\ WF_vars(ExpireCodes)

Spec == Init /\ [][Next]_vars
FairSpec == Spec /\ Fairness

-----------------------------------------------------------------------------
TypeOK ==
    /\ AccountsTypeOK
    /\ SettlementTypeOK
    /\ cstatus \in [Codes -> CodeStatuses]
    /\ consumedBy \in [Codes -> Commerce \cup {NoOne}]
    /\ codePoints \in [Codes -> Nat]
    /\ cdue \in SUBSET Codes
    /\ counted \in SUBSET Codes
    /\ creditedBy \in [Credits -> Commerce \cup {NoOne}]
    /\ totalPoints \in [Members -> Nat]
    /\ spendPoints \in SUBSET (Codes \X Nat)
    /\ tier \in [Members -> 1 .. Len(Tiers)]

\* What the active codes of a member set aside: the sum that the critical check
\* member_reserved_vs_active_codes compares with the account.
ReservedForCodes(u) == SumFunctionOnSet(CodeAmount, ActiveOf(u))

\* A code pays once: exactly when it is consumed there is one transaction of
\* its member and one settlement row of the merchant that consumed it, and the
\* member has got the points the code reserved when it was made.
RowsAbout(rows, r) == {i \in 1 .. Len(rows) : rows[i].ref = r}
ConsumedOnce ==
    /\ \A c \in Codes :
          LET paid == RowsAbout(txns[Holder[c]], c)
          IN  IF cstatus[c] = "consumed"
              THEN /\ Cardinality(paid) = 1
                   /\ Cardinality(RowsAbout(settlementLog[consumedBy[c]], c)) = 1
                   /\ \A m \in Commerce \ {consumedBy[c]} :
                         RowsAbout(settlementLog[m], c) = {}
              ELSE /\ paid = {}
                   /\ \A m \in Commerce : RowsAbout(settlementLog[m], c) = {}
    /\ \A u \in Members :
          totalPoints[u] = SumFunction([row \in
              {r \in spendPoints : Holder[r[1]] = u} |-> row[2]])

\* Money is conserved: what the members and the merchants' books hold together
\* is what they held at first less the commissions of the platform.
MoneyConserved ==
    LET consumed == {c \in Codes : cstatus[c] = "consumed"}
        credited == {k \in Credits : creditedBy[k] # NoOne}
    IN  SumFunctionOnSet(balance, Members) + SumFunctionOnSet(settlement, Commerce)
           = SumFunctionOnSet(OpeningBalance, Members)
             + SumFunctionOnSet(OpeningSettlement, Commerce)
             - SumFunction([c \in consumed |-> CommerceFee[consumedBy[c]][c]])
             - SumFunction([k \in credited |-> CommerceFee[creditedBy[k]][k]])

\* Reserved money is not reserved for ever: every active code ends.
EveryCodeEnds == \A c \in Codes : c \in Active ~> c \notin Active

\* Codes that ended in one of the statuses, for the hold they implement.
Ended(statuses) == {c \in Codes : cstatus[c] \in statuses}
=============================================================================
