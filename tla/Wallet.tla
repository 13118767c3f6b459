------------------------------- MODULE Wallet -------------------------------
(***************************************************************************)
(* The rows a flow with a finance merchant touches: the accounts, and the   *)
(* merchants' cash pools with their append-only log.  The row lock of the   *)
(* merchant is held from the read of cash_pool to COMMIT, so a write is the *)
(* column and its log row together.                                         *)
(***************************************************************************)
EXTENDS Accounts

CONSTANTS
    Finance,      \* merchants of type finance
    OpeningPool,  \* a finance merchant's cash pool when the behaviour starts
    Overdraft     \* overdraft_limit of a merchant that has it enabled, or 0

ASSUME WalletAssumption ==
    /\ OpeningPool \in [Finance -> Nat]
    /\ Overdraft \in [Finance -> Nat]

VARIABLES
    cashPool,    \* merchants.cash_pool
    cashPoolLog  \* merchant_cash_pool_log, in id order

poolVars == <<cashPool, cashPoolLog>>
walletVars == <<balance, reserved, txns, cashPool, cashPoolLog, locked>>

PoolReasons == {"topup_cash_pool", "merchant_withdraw_cash_pool",
                "withdraw_reversal_cash_pool", "withdraw_timeout_cash_pool",
                "admin_set_cash_pool", "admin_adjust"}
PoolRow == [reason: PoolReasons, ref: Refs \cup {NoRef},
            change: Int, before: Int, after: Int]

\* cash_pool plus the overdraft credit of the merchant.
Capacity(m) == cashPool[m] + Overdraft[m]

WriteCashPoolDelta_Unlogged(m, delta, reason, ref) ==
    /\ cashPool' = [cashPool EXCEPT ![m] = @ + delta]
    /\ UNCHANGED cashPoolLog

\* The column moves and the log row is appended in the caller's transaction;
\* a delta of zero writes neither.
WriteCashPoolDelta(m, delta, reason, ref) ==
    IF delta = 0
    THEN UNCHANGED poolVars
    ELSE /\ cashPool' = [cashPool EXCEPT ![m] = @ + delta]
         /\ cashPoolLog' = [cashPoolLog EXCEPT
                ![m] = Append(@, LogRow(reason, ref, delta, cashPool[m]))]

-----------------------------------------------------------------------------
\* A pool that is not empty was set by an administrator, which logs it.
WalletInit ==
    /\ AccountsInit
    /\ cashPool = OpeningPool
    /\ cashPoolLog = [m \in Finance |->
                        IF OpeningPool[m] = 0 THEN << >>
                        ELSE << LogRow("admin_set_cash_pool", NoRef,
                                       OpeningPool[m], 0) >>]

WalletTypeOK ==
    /\ AccountsTypeOK
    /\ cashPool \in [Finance -> Int]
    /\ cashPoolLog \in [Finance -> Seq(PoolRow)]

-----------------------------------------------------------------------------
\* Every change of a pool is logged, with the before and after values of the
\* locked row: the reconciliation invariant of services/cash-pool.ts.
CashPoolLogged ==
    \A m \in Finance : /\ ChainEndsAt(cashPoolLog[m], cashPool[m])
                       /\ RowsAdd(cashPoolLog[m])
=============================================================================
