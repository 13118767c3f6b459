---------------------------- MODULE WalletAdmin ----------------------------
(***************************************************************************)
(* The back office moves money by hand: a member's balance is adjusted, a   *)
(* finance merchant's cash pool adjusted or set, a settlement with a        *)
(* commerce merchant recorded, a credit limit set.  A call may carry an     *)
(* idempotency key, which is looked up first and stored last, inside the    *)
(* transaction of the call.                                                 *)
(*                                                                          *)
(* adjustBalance locks the account before it reads it.  The operations on a *)
(* merchant read its row without a lock and later write an absolute value,  *)
(* so they are two steps; the lookup of the key is one more in each.        *)
(***************************************************************************)
EXTENDS Wallet, Settlements, FiniteSets

CONSTANTS
    Calls,   \* requests the back office submits, a repeated click being two
    Keys,    \* idempotency keys
    NoKey,   \* idempotencyKey of a call submitted without one
    KeyOf,   \* the key of a call; calls that share one repeat each other
    Task     \* what a call asks for

\* Settlements and limits are asked for merchants with a book, pools for those
\* with a pool; adjustCashPool alone tests the type.
Tasks == [op: {"adjustBalance"}, on: Members, amount: Int \ {0}]
         \cup [op: {"adjustCashPool"}, on: Finance, amount: Int \ {0}]
         \cup [op: {"setCashPool"}, on: Finance, amount: Nat]
         \cup [op: {"recordManualSettlement"}, on: Commerce, amount: Int \ {0}]
         \cup [op: {"setCreditLimit"}, on: Commerce, amount: Nat]

ASSUME AdminAssumption ==
    /\ NoKey \notin Keys
    /\ KeyOf \in [Calls -> Keys \cup {NoKey}]
    /\ \A c \in Calls : Task[c] \in Tasks
    /\ \A c, d \in Calls :
          KeyOf[c] = KeyOf[d] /\ KeyOf[c] # NoKey => Task[c] = Task[d]
    /\ \A c \in Calls : Task[c].op = "setCreditLimit" => KeyOf[c] = NoKey

VARIABLES
    stage,  \* how far the transaction of a call has come
    seen,   \* what a call has read of the merchant's row
    stored  \* keys in admin_idempotency

adminVars == <<stage, seen, stored>>

Stages == {"idle", "running", "read", "done", "cached", "refused"}

-----------------------------------------------------------------------------
KnownKey(c) == KeyOf[c] \in stored

\* withAdminIdempotency looks for a row of an earlier call and, when there is
\* one, answers with its result.
ProbeKey(c) ==
    /\ stage[c] = "idle"
    /\ stage' = [stage EXCEPT ![c] = IF KnownKey(c) THEN "cached" ELSE "running"]
    /\ UNCHANGED <<walletVars, settlementVars, seen, stored>>

\* The result is stored with ON CONFLICT DO NOTHING and the call commits.
StoreAndCommit(c) ==
    /\ stage' = [stage EXCEPT ![c] = "done"]
    /\ stored' = stored \cup ({KeyOf[c]} \ {NoKey})

\* The CHECK constraints of accounts: balance >= 0, reserved <= balance.
ChecksHold(u, newBalance) == newBalance >= 0 /\ reserved[u] <= newBalance

\* One step: the account is locked from the read to COMMIT.
AdjustBalance(c) ==
    LET u == Task[c].on
        amount == Task[c].amount
    IN  /\ stage[c] = "running" /\ Task[c].op = "adjustBalance"
        /\ AccountFree(u)
        /\ ChecksHold(u, balance[u] + amount)
        /\ balance' = [balance EXCEPT ![u] = @ + amount]
        /\ AppendTx(u, "adjustment", NoRef, amount)
        /\ StoreAndCommit(c)
        /\ UNCHANGED <<reserved, poolVars, locked, settlementVars, seen>>

OnPool(c) == Task[c].op \in {"adjustCashPool", "setCashPool"}
OnBook(c) == Task[c].op \in {"recordManualSettlement", "setCreditLimit"}

\* The operations on a merchant: SELECT cash_pool, or balance and limit, with
\* no lock.
ReadMerchant(c) ==
    LET m == Task[c].on
    IN  /\ stage[c] = "running" /\ (OnPool(c) \/ OnBook(c))
        /\ seen' = [seen EXCEPT ![c] =
                      IF OnPool(c) THEN [value |-> cashPool[m], limit |-> 0]
                      ELSE [value |-> settlement[m], limit |-> creditLimit[m]]]
        /\ stage' = [stage EXCEPT ![c] = "read"]
        /\ UNCHANGED <<walletVars, settlementVars, stored>>

\* What an operation writes into the column, worked out from what it has read.
Target(c) == IF Task[c].op = "setCashPool" THEN Task[c].amount
             ELSE seen[c].value + Task[c].amount

NonNegative(amount) == amount >= 0

\* adjustCashPool, setCashPool: no row is logged when nothing changes.
WritePool(c) ==
    LET m == Task[c].on
        delta == Target(c) - seen[c].value
        reason == IF Task[c].op = "setCashPool" THEN "admin_set_cash_pool"
                                                ELSE "admin_adjust"
    IN  /\ stage[c] = "read" /\ OnPool(c)
        /\ NonNegative(Target(c))
        /\ cashPool' = [cashPool EXCEPT ![m] = Target(c)]
        /\ cashPoolLog' =
              IF delta = 0 THEN cashPoolLog
              ELSE [cashPoolLog EXCEPT
                      ![m] = Append(@, LogRow(reason, NoRef, delta, seen[c].value))]
        /\ StoreAndCommit(c)
        /\ UNCHANGED <<accountVars, locked, settlementVars, seen>>

\* The CHECK constraint of merchants: balance >= -credit_limit.
WithinLimit(newBalance, newLimit) == newBalance >= -newLimit

WriteSettlement(c) ==
    LET m == Task[c].on
    IN  /\ stage[c] = "read" /\ Task[c].op = "recordManualSettlement"
        /\ Target(c) >= -seen[c].limit
        /\ WithinLimit(Target(c), creditLimit[m])
        /\ settlement' = [settlement EXCEPT ![m] = Target(c)]
        /\ settlementLog' = [settlementLog EXCEPT
               ![m] = Append(@, LogRow("manual_settlement", NoRef,
                                       Task[c].amount, seen[c].value))]
        /\ StoreAndCommit(c)
        /\ UNCHANGED <<walletVars, creditLimit, seen>>

WriteLimit(c) ==
    LET m == Task[c].on
        limit == Task[c].amount
    IN  /\ stage[c] = "read" /\ Task[c].op = "setCreditLimit"
        /\ seen[c].value >= -limit
        /\ WithinLimit(settlement[m], limit)
        /\ creditLimit' = [creditLimit EXCEPT ![m] = limit]
        /\ StoreAndCommit(c)
        /\ UNCHANGED <<walletVars, settlement, settlementLog, seen>>

\* A constraint, a negative result or a lost connection: everything the call
\* wrote is rolled back, the key included.
KeepsKey_Anyway(c) == stored' = stored \cup ({KeyOf[c]} \ {NoKey})
KeepsKey(c) == stored' = stored
Refuse(c) ==
    /\ stage[c] \in {"running", "read"}
    /\ stage' = [stage EXCEPT ![c] = "refused"]
    /\ KeepsKey(c)
    /\ UNCHANGED <<walletVars, settlementVars, seen>>

-----------------------------------------------------------------------------
AdminInit ==
    /\ stage = [c \in Calls |-> "idle"]
    /\ seen = [c \in Calls |-> [value |-> 0, limit |-> 0]]
    /\ stored = {}

Serve(c) ==
    \/ ProbeKey(c)
    \/ AdjustBalance(c)
    \/ ReadMerchant(c)
    \/ WritePool(c)
    \/ WriteSettlement(c)
    \/ WriteLimit(c)
    \/ Refuse(c)

AdminNext == \E c \in Calls : Serve(c)

-----------------------------------------------------------------------------
AdminTypeOK ==
    /\ stage \in [Calls -> Stages]
    /\ seen \in [Calls -> [value: Int, limit: Nat]]
    /\ stored \in SUBSET Keys

\* A call that is answered with a stored result has a twin whose money write
\* is committed: a refused call never leaves its key behind, or the repeat an
\* administrator sends would be lost.
CachedIsDone ==
    \A c \in Calls :
        stage[c] = "cached" =>
           \E d \in Calls \ {c} : KeyOf[d] = KeyOf[c] /\ stage[d] = "done"

\* Calls that share an idempotency key move money once: "the unique constraint
\* serialises concurrent submissions".
KeyedOnce ==
    \A c, d \in Calls :
        /\ stage[c] = "done" /\ stage[d] = "done"
        /\ KeyOf[c] = KeyOf[d] /\ KeyOf[c] # NoKey
        => c = d
=============================================================================
