------------------------------- MODULE Topup -------------------------------
(***************************************************************************)
(* Flow C: a member tops up through a finance merchant.  The member opens a *)
(* session, gets payment instructions from the merchant, pays outside the   *)
(* wallet; the merchant's callback credits the member and the pool.         *)
(*                                                                          *)
(* The callback is one step: it holds the session row from the status check *)
(* to COMMIT.  Every other operation on a session reads the status and      *)
(* writes it later, without a lock and without repeating the test, so each  *)
(* is two steps (Begin, Finish) between which anything may happen.  For     *)
(* topupInit an HTTP call to the merchant lies between the two.             *)
(***************************************************************************)
EXTENDS Wallet, FiniteSets, Functions

CONSTANTS
    Topups,           \* topup_sessions ids a behaviour may use
    Depositor,        \* the member of a session
    Asked,            \* the amount the member asked for
    ProviderAmounts,  \* amounts a merchant may report as received
    TopupFee,         \* computeFee at a merchant for a reported amount
    TxId,             \* transactions.id of the row that credits a session
    NoTopupMerchant   \* merchant_id of a session not yet inserted

ASSUME TopupAssumption ==
    /\ Topups \subseteq Refs
    /\ Depositor \in [Topups -> Members]
    /\ ProviderAmounts \subseteq Nat \ {0}
    /\ Asked \in [Topups -> Nat \ {0}]
    /\ TopupFee \in [Finance -> [ProviderAmounts -> Nat]]
    /\ TxId \in [Topups -> Refs \ Topups]
    /\ \A s, t \in Topups : TxId[s] = TxId[t] => s = t
    /\ NoTopupMerchant \notin Finance
    /\ IsFiniteSet(Topups)

VARIABLES
    tstatus,      \* topup_sessions.status
    tmerchant,    \* topup_sessions.merchant_id
    tamount,      \* topup_sessions.amount, overwritten by the callback
    tdue,         \* sessions whose expires_at has passed
    creating,     \* sessions whose creation has passed the open check
    inFlight,     \* <<session, operation>> that has read an allowed status
    shadowLog     \* merchant_settlement_log of the finance merchants

sessionVars == <<tstatus, tmerchant, tamount>>
topupVars == <<sessionVars, tdue, creating, inFlight, shadowLog>>
vars == <<walletVars, topupVars>>

OpenStatuses ==
    {"pending", "awaiting_member_action", "member_confirmed", "redirected"}
Settled == {"success", "failed", "cancelled"}
TopupStatuses == {"unused", "expired"} \cup OpenStatuses \cup Settled

OpenTopups(u) ==
    {s \in Topups : tstatus[s] \in OpenStatuses /\ Depositor[s] = u}

\* The partial unique index on open sessions lets s be open.
OpenSlot_NoIndex(s) == TRUE
OpenSlot(s) == OpenTopups(Depositor[s]) \subseteq {s}

-----------------------------------------------------------------------------
\* createTopupSession: a plain SELECT finds no open session of the member.
BeginCreate(s) ==
    /\ tstatus[s] = "unused" /\ s \notin creating
    /\ OpenTopups(Depositor[s]) = {}
    /\ creating' = creating \cup {s}
    /\ UNCHANGED <<walletVars, sessionVars, tdue, inFlight, shadowLog>>

\* A merchant is drawn by weight and the session inserted.
FinishCreate(s, m) ==
    /\ s \in creating
    /\ OpenSlot(s)
    /\ creating' = creating \ {s}
    /\ tstatus' = [tstatus EXCEPT ![s] = "pending"]
    /\ tmerchant' = [tmerchant EXCEPT ![s] = m]
    /\ UNCHANGED <<walletVars, tamount, tdue, inFlight, shadowLog>>

\* No merchant, a unique violation or a lost connection: rolled back.
AbortCreate(s) ==
    /\ s \in creating
    /\ creating' = creating \ {s}
    /\ UNCHANGED <<walletVars, sessionVars, tdue, inFlight, shadowLog>>

\* The operations that read a status first and write one later: the statuses
\* each accepts, and those it may write.
Operations == {"topupInit", "setPaymentInfo", "confirm", "cancel"}
Accepts == [topupInit      |-> {"pending"},
            setPaymentInfo |-> {"pending", "awaiting_member_action"},
            confirm        |-> {"awaiting_member_action"},
            cancel         |-> {"pending", "awaiting_member_action"}]
Writes == [topupInit      |-> {"redirected", "awaiting_member_action"},
           setPaymentInfo |-> {"awaiting_member_action"},
           confirm        |-> {"member_confirmed"},
           cancel         |-> {"cancelled"}]

BeginWrite(s, op) ==
    /\ <<s, op>> \notin inFlight
    /\ tstatus[s] \in Accepts[op]
    /\ inFlight' = inFlight \cup {<<s, op>>}
    /\ UNCHANGED <<walletVars, sessionVars, tdue, creating, shadowLog>>

\* UPDATE ... WHERE id = s: no test of the status, only the unique index.
FinishWrite(s, op) ==
    /\ <<s, op>> \in inFlight
    /\ inFlight' = inFlight \ {<<s, op>>}
    /\ \E status \in Writes[op] :
          /\ status \in OpenStatuses => OpenSlot(s)
          /\ tstatus' = [tstatus EXCEPT ![s] = status]
    /\ UNCHANGED <<walletVars, tmerchant, tamount, tdue, creating, shadowLog>>

\* The merchant's endpoint fails, the index refuses, the process dies.
AbandonWrite(s, op) ==
    /\ <<s, op>> \in inFlight
    /\ inFlight' = inFlight \ {<<s, op>>}
    /\ UNCHANGED <<walletVars, sessionVars, tdue, creating, shadowLog>>

-----------------------------------------------------------------------------
\* finalizeTopupCallback refuses these; an expired session is not refused.
Finalizable(s) == tstatus[s] \in OpenStatuses \cup {"expired"}

\* The unique index on transactions.public_no, which a credit inherits.
PublicNoFree_NoIndex(s) == TRUE
PublicNoFree(s) ==
    \A i \in 1 .. Len(txns[Depositor[s]]) : txns[Depositor[s]][i].ref # s

CallbackFailed(s) ==
    /\ Finalizable(s)
    /\ tstatus' = [tstatus EXCEPT ![s] = "failed"]
    /\ UNCHANGED <<walletVars, tmerchant, tamount, tdue, creating, inFlight,
                   shadowLog>>

\* What the merchant's pool gains: the reported amount less its commission.
MerchantNet_Gross(m, amount) == amount
MerchantNet(m, amount) == amount - TopupFee[m][amount]

\* The amount the session shows from now on: the one that was credited.
SettleAmount_KeepAsked(s, amount) == UNCHANGED tamount
SettleAmount(s, amount) == tamount' = [tamount EXCEPT ![s] = amount]

\* The merchant's amount is credited, whatever the member asked for.
CallbackSuccess(s, amount) ==
    LET u == Depositor[s]
        m == tmerchant[s]
        net == MerchantNet(m, amount)
    IN  /\ Finalizable(s)
        /\ PublicNoFree(s)
        /\ AccountFree(u)
        /\ balance' = [balance EXCEPT ![u] = @ + amount]
        /\ AppendTx(u, "topup", s, amount)
        /\ WriteCashPoolDelta(m, net, "topup_cash_pool", TxId[s])
        /\ shadowLog' = [shadowLog EXCEPT
               ![m] = Append(@, LogRow("topup_cash_pool", TxId[s],
                                       net, cashPool[m]))]
        /\ tstatus' = [tstatus EXCEPT ![s] = "success"]
        /\ SettleAmount(s, amount)
        /\ UNCHANGED <<reserved, locked, tmerchant, tdue, creating, inFlight>>

\* The session's TTL of twenty minutes runs out.
TopupDue(s) ==
    /\ tstatus[s] \in OpenStatuses /\ s \notin tdue
    /\ tdue' = tdue \cup {s}
    /\ UNCHANGED <<walletVars, sessionVars, creating, inFlight, shadowLog>>

DueTopups_NotRedirected ==
    {s \in tdue : tstatus[s] \in OpenStatuses \ {"redirected"}}
DueTopups == {s \in tdue : tstatus[s] \in OpenStatuses}

\* The cron job: one UPDATE expires every open session that is due.
ExpireStaleTopups ==
    /\ DueTopups # {}
    /\ tstatus' = [s \in Topups |->
                     IF s \in DueTopups THEN "expired" ELSE tstatus[s]]
    /\ UNCHANGED <<walletVars, tmerchant, tamount, tdue, creating, inFlight,
                   shadowLog>>

-----------------------------------------------------------------------------
TopupInit ==
    /\ tstatus = [s \in Topups |-> "unused"]
    /\ tmerchant = [s \in Topups |-> NoTopupMerchant]
    /\ tamount = Asked
    /\ tdue = {}
    /\ creating = {}
    /\ inFlight = {}
    /\ shadowLog = [m \in Finance |-> << >>]

Init == WalletInit /\ TopupInit

Create(s) ==
    \/ BeginCreate(s)
    \/ \E m \in Finance : FinishCreate(s, m)
    \/ AbortCreate(s)

Write(s) ==
    \E op \in Operations :
        BeginWrite(s, op) \/ FinishWrite(s, op) \/ AbandonWrite(s, op)

Callback(s) ==
    CallbackFailed(s) \/ \E a \in ProviderAmounts : CallbackSuccess(s, a)

Next ==
    \/ \E s \in Topups : Create(s) \/ Write(s) \/ Callback(s) \/ TopupDue(s)
    \/ ExpireStaleTopups

\* Time passes and the scheduler runs the cron job again and again.
Fairness ==
    /\ \A s \in Topups : WF_vars(TopupDue(s))
    /\ WF_vars(ExpireStaleTopups)

Spec == Init /\ [][Next]_vars
FairSpec == Spec /\ Fairness

-----------------------------------------------------------------------------
TypeOK ==
    /\ WalletTypeOK
    /\ tstatus \in [Topups -> TopupStatuses]
    /\ tmerchant \in [Topups -> Finance \cup {NoTopupMerchant}]
    /\ tamount \in [Topups -> Nat]
    /\ tdue \in SUBSET Topups
    /\ creating \in SUBSET Topups
    /\ inFlight \in SUBSET (Topups \X Operations)
    /\ shadowLog \in [Finance -> Seq(PoolRow)]

CreditsOf(s) ==
    {i \in 1 .. Len(txns[Depositor[s]]) : txns[Depositor[s]][i].ref = s}
Credited(s) == CreditsOf(s) # {}

\* A member has one open top-up at a time, also when a late write brings a
\* finished session back.
OneOpenTopup == \A u \in Members : Cardinality(OpenTopups(u)) <= 1

\* A session credits its member at most once, although a late write may reopen
\* a session that succeeded and the merchant may call back again.
CreditedOnce == \A s \in Topups : Cardinality(CreditsOf(s)) <= 1

\* A session that says success has credited the amount it shows, and no
\* session has credited another amount than the one it shows.
SuccessIsCredited ==
    \A s \in Topups :
        /\ tstatus[s] = "success" => Credited(s)
        /\ \A i \in CreditsOf(s) : txns[Depositor[s]][i].change = tamount[s]

\* The pool of a merchant has gained what its credited sessions brought in,
\* less the commissions; no other way money gets in or out.
PoolMatchesCredits ==
    \A m \in Finance :
        LET brought == {s \in Topups : tmerchant[s] = m /\ Credited(s)}
        IN  cashPool[m] = OpeningPool[m]
               + SumFunction([s \in brought |-> tamount[s] - TopupFee[m][tamount[s]]])

\* A member is never stuck behind an abandoned top-up: each open one ends,
\* whatever the merchant and the late writes do.
EveryTopupEnds ==
    \A s \in Topups :
        tstatus[s] \in OpenStatuses ~> tstatus[s] \notin OpenStatuses

\* The status of a settled session does not change.
SettledIsFinal ==
    [][\A s \in Topups : tstatus[s] \in Settled => tstatus'[s] = tstatus[s]]_vars
=============================================================================
