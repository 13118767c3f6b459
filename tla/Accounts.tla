------------------------------ MODULE Accounts ------------------------------
(***************************************************************************)
(* The members' accounts and their transactions, which every money flow     *)
(* reads and writes inside a PostgreSQL transaction that holds the row lock *)
(* of the account, so that the operators below are whole writes: column and *)
(* transaction row together.                                                *)
(***************************************************************************)
EXTENDS Ledger

CONSTANTS
    Members,        \* users with an accounts row
    OpeningBalance  \* a member's balance when the behaviour starts

ASSUME AccountsAssumption == OpeningBalance \in [Members -> Nat]

VARIABLES
    balance,   \* accounts.balance
    reserved,  \* accounts.reserved_balance
    txns,      \* completed rows of transactions, in the order they commit
    locked     \* members whose accounts row a transaction holds FOR UPDATE

accountVars == <<balance, reserved, txns>>

\* The columns of transactions the model keeps.  The table stores an unsigned
\* amount and a type that gives its sign; "change" is the signed amount.
TxTypes == {"topup", "merchant_withdraw", "adjustment", "spend",
            "merchant_credit"}
TxRow == [type: TxTypes, ref: Refs \cup {NoRef}, change: Int, after: Int]

AccountFree_Ignored(u) == TRUE

\* A transaction that takes the row lock of u waits while another holds it.
AccountFree(u) == u \notin locked

\* What a member may still spend, withdraw or reserve.
Available(u) == balance[u] - reserved[u]

\* INSERT INTO transactions with balance_after stamped from the locked row.
AppendTx(u, type, ref, change) ==
    txns' = [txns EXCEPT ![u] =
               Append(@, [type |-> type, ref |-> ref, change |-> change,
                          after |-> balance[u] + change])]

ReleaseReserved_Forgotten(u, amount) == reserved' = reserved

\* UPDATE reserved_balance = GREATEST(reserved_balance - amount, 0).
ReleaseReserved(u, amount) ==
    reserved' = [reserved EXCEPT ![u] = Clamp(@ - amount)]

-----------------------------------------------------------------------------
\* A member that starts with money got it through an adjustment.
AccountsInit ==
    /\ balance = OpeningBalance
    /\ reserved = [u \in Members |-> 0]
    /\ txns = [u \in Members |->
                 IF OpeningBalance[u] = 0 THEN << >>
                 ELSE << [type |-> "adjustment", ref |-> NoRef,
                          change |-> OpeningBalance[u],
                          after |-> OpeningBalance[u]] >>]
    /\ locked = {}

AccountsTypeOK ==
    /\ balance \in [Members -> Int]
    /\ reserved \in [Members -> Int]
    /\ txns \in [Members -> Seq(TxRow)]
    /\ locked \in SUBSET Members

-----------------------------------------------------------------------------
\* Every change of a member's balance leaves a transaction row whose
\* balance_after is the balance that change produced: the critical check
\* member_balance_vs_tx_sum and the check tx_balance_after_chain.
BalanceLogged == \A u \in Members : ChainEndsAt(txns[u], balance[u])

\* No flow hands out money that is already reserved, and no balance or
\* reservation goes negative: the CHECK constraints on accounts never fire.
AccountsSound ==
    \A u \in Members : 0 <= reserved[u] /\ reserved[u] <= balance[u]
=============================================================================
