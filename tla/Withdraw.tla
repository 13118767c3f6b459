------------------------------ MODULE Withdraw ------------------------------
(***************************************************************************)
(* Flow D: a member withdraws to the bank or wallet address of a finance    *)
(* merchant.  The request reserves the amount on the account and the net    *)
(* amount in the merchant's cash pool; the merchant's callback debits the   *)
(* account or gives both reservations back; a cron job times out sessions   *)
(* that got no callback.                                                    *)
(*                                                                          *)
(* A transaction is one step where its row locks make it one.  A request is *)
(* three: the open-session check reads without a lock, the merchant is      *)
(* picked on another connection, and only the last statements are           *)
(* conditional.  A push is two: a read, then a conditional claim.           *)
(***************************************************************************)
EXTENDS Wallet, FiniteSets, Functions

CONSTANTS
    Withdrawals,       \* withdraw_sessions ids a behaviour may use
    Owner,             \* the member of a session
    Amount,            \* the gross amount of a session
    WithdrawFee,       \* computeFee at a merchant for a session's amount
    NoMerchant,        \* merchant_id of a session that has none yet
    OpeningPoints,     \* a member's loyalty points when the behaviour starts
    CooldownThreshold, \* WITHDRAW_COOLDOWN_THRESHOLD
    MaxPush            \* bound on push requests of one session in flight

ASSUME WithdrawAssumption ==
    /\ Withdrawals \subseteq Refs
    /\ Owner \in [Withdrawals -> Members]
    /\ Amount \in [Withdrawals -> Nat \ {0}]
    /\ WithdrawFee \in [Finance -> [Withdrawals -> Nat]]
    /\ NoMerchant \notin Finance
    /\ OpeningPoints \in [Members -> Nat]
    /\ CooldownThreshold \in Nat \ {0}
    /\ MaxPush \in Nat

VARIABLES
    wstatus,     \* withdraw_sessions.status
    wmerchant,   \* withdraw_sessions.merchant_id, set when one is picked
    request,     \* how far the transaction of requestWithdrawV3 has come
    overdue,     \* sessions whose expires_at has passed
    pushReads,   \* push requests that have read status = pending
    outbound,    \* calls to the provider's set-withdraw endpoint
    payout,      \* what the merchant did with the real money
    totalPoints, \* accounts.total_points
    pointsLog,   \* loyalty_points_log rows with reason withdraw_penalty
    cooldown     \* members whose cooldown_until is set

requestVars == <<wstatus, wmerchant, request>>
pushVars == <<pushReads, outbound>>
loyaltyVars == <<totalPoints, pointsLog, cooldown>>
withdrawVars == <<requestVars, overdue, pushVars, payout, loyaltyVars>>
vars == <<walletVars, withdrawVars>>

Statuses == {"unused", "pending", "sent_to_merchant",
             "success", "failed", "timeout"}
Terminal == {"success", "failed", "timeout"}

Open == {s \in Withdrawals : wstatus[s] \in {"pending", "sent_to_merchant"}}
OpenOf(u) == {s \in Open : Owner[s] = u}

\* What leaves the merchant's pool: the gross amount less its commission.
NetAt(m, s) == Amount[s] - WithdrawFee[m][s]
Net(s) == NetAt(wmerchant[s], s)

-----------------------------------------------------------------------------
\* The points a completed withdrawal costs, and the rows they leave.
Penalty(amount) == 2 * (amount \div 10)

ApplyWithdrawPenalty_Unclamped(u, s) ==
    /\ totalPoints' = [totalPoints EXCEPT ![u] = @ - Penalty(Amount[s])]
    /\ pointsLog' = pointsLog \cup {<<s, Penalty(Amount[s])>>}

ApplyWithdrawPenalty(u, s) ==
    IF Penalty(Amount[s]) = 0 \/ s \in {row[1] : row \in pointsLog}
    THEN UNCHANGED <<totalPoints, pointsLog>>
    ELSE /\ totalPoints' =
              [totalPoints EXCEPT ![u] = Clamp(@ - Penalty(Amount[s]))]
         /\ pointsLog' = pointsLog \cup {<<s, Penalty(Amount[s])>>}

WithdrawRows(rows) ==
    {i \in 1 .. Len(rows) : rows[i].type = "merchant_withdraw"}

MaybeSetWithdrawCooldown_Late(u) ==
    cooldown' = IF Cardinality(WithdrawRows(txns[u])) >= CooldownThreshold
                THEN cooldown \cup {u}
                ELSE cooldown

\* Counts the transaction just inserted; the behaviour fits in the 30 days.
MaybeSetWithdrawCooldown(u) ==
    cooldown' = IF Cardinality(WithdrawRows(txns'[u])) >= CooldownThreshold
                THEN cooldown \cup {u}
                ELSE cooldown

-----------------------------------------------------------------------------
\* The three tests a request must pass; the second and third are part of the
\* conditional UPDATE and of the partial unique index.
FundsCover(s) == Amount[s] <= Available(Owner[s])

PoolStillCovers_Unchecked(s) == TRUE
PoolStillCovers(s) == Capacity(wmerchant[s]) >= Net(s)

UniqueOpen_NoIndex(u) == TRUE
UniqueOpen(u) == OpenOf(u) = {}

\* requestWithdrawV3, first statement: a plain SELECT sees the committed
\* sessions of the member and refuses a second open one.
CheckOpen(s) ==
    /\ wstatus[s] = "unused"
    /\ request[s] = "idle"
    /\ OpenOf(Owner[s]) = {}
    /\ request' = [request EXCEPT ![s] = "checked"]
    /\ UNCHANGED <<walletVars, wstatus, wmerchant, overdue,
                   pushVars, payout, loyaltyVars>>

\* The account row is locked, the available balance covers the amount, and a
\* merchant whose capacity covers the gross amount is read, not locked.
PickMerchant(s, m) ==
    /\ request[s] = "checked"
    /\ AccountFree(Owner[s])
    /\ FundsCover(s)
    /\ Capacity(m) >= Amount[s]
    /\ locked' = locked \cup {Owner[s]}
    /\ wmerchant' = [wmerchant EXCEPT ![s] = m]
    /\ request' = [request EXCEPT ![s] = "picked"]
    /\ UNCHANGED <<accountVars, poolVars, wstatus, overdue,
                   pushVars, payout, loyaltyVars>>

\* The conditional UPDATE of the merchant, the reservation, the session under
\* the unique index on open sessions, the audit row, COMMIT.
ReserveWithdraw(s) ==
    LET m == wmerchant[s]
        u == Owner[s]
    IN  /\ request[s] = "picked"
        /\ PoolStillCovers(s)
        /\ UniqueOpen(u)
        /\ cashPool' = [cashPool EXCEPT ![m] = @ - Net(s)]
        /\ cashPoolLog' = [cashPoolLog EXCEPT
               ![m] = Append(@, LogRow("merchant_withdraw_cash_pool", s,
                                       -Net(s), cashPool[m]))]
        /\ reserved' = [reserved EXCEPT ![u] = @ + Amount[s]]
        /\ wstatus' = [wstatus EXCEPT ![s] = "pending"]
        /\ request' = [request EXCEPT ![s] = "idle"]
        /\ locked' = locked \ {u}
        /\ UNCHANGED <<balance, txns, wmerchant, overdue,
                       pushVars, payout, loyaltyVars>>

\* Any statement may throw and the connection may be lost: the transaction
\* rolls back and its account lock is gone.
AbortRequest(s) ==
    /\ request[s] # "idle"
    /\ locked' = IF request[s] = "picked" THEN locked \ {Owner[s]} ELSE locked
    /\ wmerchant' = [wmerchant EXCEPT ![s] = NoMerchant]
    /\ request' = [request EXCEPT ![s] = "idle"]
    /\ UNCHANGED <<accountVars, poolVars, wstatus, overdue,
                   pushVars, payout, loyaltyVars>>

-----------------------------------------------------------------------------
\* POST /withdraw/:id/push reads the session without a lock...
PushRead(s) ==
    /\ wstatus[s] = "pending"
    /\ pushReads[s] < MaxPush
    /\ pushReads' = [pushReads EXCEPT ![s] = @ + 1]
    /\ UNCHANGED <<walletVars, requestVars, overdue, outbound,
                   payout, loyaltyVars>>

StillPending_Unconditional(s) == TRUE
StillPending(s) == wstatus[s] = "pending"

\* ...and calls the provider only when its conditional UPDATE hit a row that
\* is still pending.  A failed call leaves the session sent_to_merchant.
PushClaim(s) ==
    /\ pushReads[s] > 0
    /\ pushReads' = [pushReads EXCEPT ![s] = @ - 1]
    /\ IF StillPending(s)
       THEN /\ wstatus' = [wstatus EXCEPT ![s] = "sent_to_merchant"]
            /\ outbound' = [outbound EXCEPT ![s] = @ + 1]
       ELSE UNCHANGED <<wstatus, outbound>>
    /\ UNCHANGED <<walletVars, wmerchant, request, overdue,
                   payout, loyaltyVars>>

\* The merchant pays the member or refuses, once, whenever it likes: it knows
\* the session from the moment it exists and is not told of a timeout.
MerchantDecides(s, decision) ==
    /\ wstatus[s] # "unused"
    /\ payout[s] = "none"
    /\ payout' = [payout EXCEPT ![s] = decision]
    /\ UNCHANGED <<walletVars, requestVars, overdue, pushVars, loyaltyVars>>

\* finalizeWithdrawCallback refuses a session in any terminal status.
NotFinalized_Late(s) == wstatus[s] \in {"pending", "sent_to_merchant", "timeout"}
NotFinalized_Any(s) == wstatus[s] # "unused"
NotFinalized(s) == wstatus[s] \in {"pending", "sent_to_merchant"}

\* What a reversal puts back into the pool.
Reversed(s) == Net(s)

\* The callback with status failed: both reservations are given back.
FinalizeFailed(s) ==
    /\ payout[s] = "refused"
    /\ NotFinalized(s)
    /\ AccountFree(Owner[s])
    /\ ReleaseReserved(Owner[s], Amount[s])
    /\ WriteCashPoolDelta(wmerchant[s], Reversed(s),
                          "withdraw_reversal_cash_pool", s)
    /\ wstatus' = [wstatus EXCEPT ![s] = "failed"]
    /\ UNCHANGED <<balance, txns, locked, wmerchant, request, overdue,
                   pushVars, payout, loyaltyVars>>

\* The callback with status success: the gross amount is debited, the
\* reservation consumed; the pool was charged when the session was routed.
FinalizeSuccess(s) ==
    LET u == Owner[s]
    IN  /\ payout[s] = "paid"
        /\ NotFinalized(s)
        /\ AccountFree(u)
        /\ balance' = [balance EXCEPT ![u] = @ - Amount[s]]
        /\ ReleaseReserved(u, Amount[s])
        /\ AppendTx(u, "merchant_withdraw", s, -Amount[s])
        /\ ApplyWithdrawPenalty(u, s)
        /\ MaybeSetWithdrawCooldown(u)
        /\ wstatus' = [wstatus EXCEPT ![s] = "success"]
        /\ UNCHANGED <<poolVars, locked, wmerchant, request, overdue,
                       pushVars, payout>>

-----------------------------------------------------------------------------
\* The session's TTL of thirty minutes runs out.
Expire(s) ==
    /\ s \in Open \ overdue
    /\ overdue' = overdue \cup {s}
    /\ UNCHANGED <<walletVars, requestVars, pushVars, payout, loyaltyVars>>

\* UPDATE ... FROM with several joined rows applies one of them, unspecified
\* which: the subsets of S that hold one element for each key.
OnePerKey(S, Key(_)) ==
    {T \in SUBSET S :
        /\ \A s \in S : \E t \in T : Key(t) = Key(s)
        /\ \A t, v \in T : Key(t) = Key(v) => t = v}

DueSessions_PendingOnly == {s \in overdue : wstatus[s] = "pending"}
DueSessions == Open \cap overdue

\* The cron job: one statement times out every overdue open session, releases
\* the reservations and updates the merchants; then one log row is inserted
\* for each merchant row the statement returned.
ScanWithdrawTimeouts ==
    LET due == DueSessions
        OwnerOf(s) == Owner[s]
        MerchantOf(s) == wmerchant[s]
    IN  /\ due # {}
        /\ \A s \in due : AccountFree(Owner[s])
        /\ wstatus' = [s \in Withdrawals |->
                         IF s \in due THEN "timeout" ELSE wstatus[s]]
        /\ \E released \in OnePerKey(due, OwnerOf) :
              reserved' = [u \in Members |->
                 IF \E s \in released : Owner[s] = u
                 THEN Clamp(reserved[u] -
                            Amount[CHOOSE s \in released : Owner[s] = u])
                 ELSE reserved[u]]
        /\ \E returned \in OnePerKey(due, MerchantOf) :
              LET row(m) == CHOOSE s \in returned : wmerchant[s] = m
                  hit(m) == \E s \in returned : wmerchant[s] = m
              IN  /\ cashPool' = [m \in Finance |->
                        IF hit(m) THEN cashPool[m] + Net(row(m))
                                  ELSE cashPool[m]]
                  /\ cashPoolLog' = [m \in Finance |->
                        IF hit(m)
                        THEN Append(cashPoolLog[m],
                                    LogRow("withdraw_timeout_cash_pool",
                                           row(m), Net(row(m)), cashPool[m]))
                        ELSE cashPoolLog[m]]
        /\ UNCHANGED <<balance, txns, locked, wmerchant, request, overdue,
                       pushVars, payout, loyaltyVars>>

-----------------------------------------------------------------------------
WithdrawInit ==
    /\ wstatus = [s \in Withdrawals |-> "unused"]
    /\ wmerchant = [s \in Withdrawals |-> NoMerchant]
    /\ request = [s \in Withdrawals |-> "idle"]
    /\ overdue = {}
    /\ pushReads = [s \in Withdrawals |-> 0]
    /\ outbound = [s \in Withdrawals |-> 0]
    /\ payout = [s \in Withdrawals |-> "none"]
    /\ totalPoints = OpeningPoints
    /\ pointsLog = {}
    /\ cooldown = {}

Init == WalletInit /\ WithdrawInit

Request(s) ==
    \/ CheckOpen(s)
    \/ \E m \in Finance : PickMerchant(s, m)
    \/ ReserveWithdraw(s)
    \/ AbortRequest(s)

Push(s) == PushRead(s) \/ PushClaim(s)

Callback(s) == FinalizeFailed(s) \/ FinalizeSuccess(s)

Next ==
    \/ \E s \in Withdrawals :
          \/ Request(s)
          \/ Push(s)
          \/ \E d \in {"paid", "refused"} : MerchantDecides(s, d)
          \/ Callback(s)
          \/ Expire(s)
    \/ ScanWithdrawTimeouts

\* A request runs to its COMMIT or rolls back, time passes, and the scheduler
\* starts the scan again and again.  Members and merchants owe us nothing.
Fairness ==
    /\ \A s \in Withdrawals :
          WF_vars(ReserveWithdraw(s) \/ AbortRequest(s)) /\ WF_vars(Expire(s))
    /\ SF_vars(ScanWithdrawTimeouts)

Spec == Init /\ [][Next]_vars
FairSpec == Spec /\ Fairness

-----------------------------------------------------------------------------
TypeOK ==
    /\ WalletTypeOK
    /\ wstatus \in [Withdrawals -> Statuses]
    /\ wmerchant \in [Withdrawals -> Finance \cup {NoMerchant}]
    /\ request \in [Withdrawals -> {"idle", "checked", "picked"}]
    /\ overdue \in SUBSET Withdrawals
    /\ pushReads \in [Withdrawals -> 0 .. MaxPush]
    /\ outbound \in [Withdrawals -> Nat]
    /\ payout \in [Withdrawals -> {"none", "paid", "refused"}]
    /\ totalPoints \in [Members -> Nat]
    /\ pointsLog \in SUBSET (Withdrawals \X Nat)
    /\ cooldown \in SUBSET Members

\* A member never has two open withdrawals, although the check for one reads
\* without a lock and two requests may both pass it.
OneOpenPerMember ==
    \A s, t \in Open : Owner[s] = Owner[t] => s = t

\* The reservation on the account is the open session's amount, never the
\* rest of an earlier one: no path leaks it and none frees it twice, whatever
\* request, callback, push and timeout do in between.
ReservedMatchesOpen ==
    /\ \A s \in Open : reserved[Owner[s]] = Amount[s]
    /\ \A u \in Members : OpenOf(u) = {} => reserved[u] = 0

\* A session debits the member once exactly when it ends in success, with one
\* penalty row if its amount costs points, however often callbacks arrive.
DebitedOnce ==
    \A s \in Withdrawals :
        LET rows == {i \in 1 .. Len(txns[Owner[s]]) :
                        txns[Owner[s]][i].ref = s}
            penalties == {row \in pointsLog : row[1] = s}
        IN  IF wstatus[s] = "success"
            THEN /\ Cardinality(rows) = 1
                 /\ \A i \in rows : txns[Owner[s]][i].change = -Amount[s]
                 /\ Penalty(Amount[s]) > 0 => Cardinality(penalties) = 1
            ELSE rows = {} /\ penalties = {}

\* A member is in cooldown exactly when the completed withdrawals reach the
\* threshold, the one that reaches it included; points never go negative and
\* a clamped penalty never leaves more points than the log accounts for.
PenaltiesApplied ==
    \A u \in Members :
        /\ u \in cooldown <=>
              Cardinality(WithdrawRows(txns[u])) >= CooldownThreshold
        /\ LET costs == {row \in pointsLog : Owner[row[1]] = u}
           IN  totalPoints[u] = Clamp(OpeningPoints[u]
                                      - SumFunction([row \in costs |-> row[2]]))

\* Sessions whose net amount the merchant's pool has to be short of.
Charged(m) == {s \in Withdrawals : /\ wmerchant[s] = m
                                   /\ s \in Open \/ wstatus[s] = "success"}

\* Every reservation of a failed or timed-out session is given back to the
\* pool it was taken from, one log row per timed-out session.
PoolReservationsReleased ==
    \A m \in Finance :
        cashPool[m] + SumFunction([s \in Charged(m) |-> Net(s)]) = OpeningPool[m]

\* Concurrent requests routed to one merchant never take its pool below its
\* overdraft, provided no commission exceeds the amount it is charged on.
FeesWithinAmount ==
    \A m \in Finance, s \in Withdrawals : WithdrawFee[m][s] <= Amount[s]
PoolWithinOverdraft ==
    FeesWithinAmount => \A m \in Finance : Capacity(m) >= 0

\* Concurrent pushes of one session call the provider at most once, and never
\* for a session that is still pending.
PushedAtMostOnce ==
    \A s \in Withdrawals :
        outbound[s] <= IF wstatus[s] \in {"unused", "pending"} THEN 0 ELSE 1

\* An account lock is held by one request of its member, and what that request
\* found available stays available until it commits or rolls back.
LockProtectsFunds ==
    /\ locked = {Owner[s] : s \in {t \in Withdrawals : request[t] = "picked"}}
    /\ \A s, t \in Withdrawals :
          request[s] = "picked" /\ request[t] = "picked"
             /\ Owner[s] = Owner[t] => s = t
    /\ \A s \in Withdrawals :
          request[s] = "picked" => Amount[s] <= Available(Owner[s])

\* No step changes a terminal status or writes another row about a session
\* that has one: a late callback, push or scan finds it closed.
RowsOf(rows, s) == {i \in 1 .. Len(rows) : rows[i].ref = s}
FinalizedIsFinal ==
    [][\A s \in Withdrawals : wstatus[s] \in Terminal =>
          /\ wstatus'[s] = wstatus[s]
          /\ RowsOf(txns[Owner[s]], s)' = RowsOf(txns[Owner[s]], s)
          /\ RowsOf(cashPoolLog[wmerchant[s]], s)'
                = RowsOf(cashPoolLog[wmerchant[s]], s)]_vars

\* A member's money is not held for ever: every open withdrawal ends, by a
\* callback or by the scan, also when the merchant never answers.
EveryWithdrawalEnds ==
    \A s \in Withdrawals : s \in Open ~> wstatus[s] \in Terminal

\* The three tables together keep the promise of a hold: placed when the
\* request commits, captured by success, released by failure or timeout.
Ended(status) == {s \in Withdrawals : wstatus[s] = status}
H == INSTANCE Hold WITH
        Accounts <- Members, Holds <- Withdrawals, HolderOf <- Owner,
        AmountOf <- Amount, Opening <- OpeningBalance, funds <- balance,
        held <- Open, captured <- Ended("success"),
        released <- Ended("failed") \cup Ended("timeout")
ImplementsHold == H!HoldSpec
=============================================================================
