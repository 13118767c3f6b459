---------------------------- MODULE Connections ----------------------------
(***************************************************************************)
(* The pool of database connections.  A transaction holds one from BEGIN to *)
(* COMMIT or ROLLBACK.  Some issue a statement through the pool while they   *)
(* are open - the pick of a merchant, a new refresh token, an audit row       *)
(* written without the transaction's handle - and take a second connection      *)
(* for it.  No statement and no wait has a timeout.                              *)
(*                                                                         *)
(* The driver's queue is external: first come, first served, and a          *)
(* connection that is given back goes to the head of it.                     *)
(***************************************************************************)
EXTENDS Naturals, FiniteSets, Sequences

CONSTANTS
    MaxConnections,  \* max of the pool
    Transactions,    \* transactions of the requests and jobs at work
    Doubles,         \* those that issue a statement through the pool
    RowWanted        \* the row each of some of them locks before that

ASSUME ConnectionsAssumption ==
    /\ MaxConnections \in Nat \ {0}
    /\ Doubles \subseteq Transactions
    /\ DOMAIN RowWanted \subseteq Transactions
    /\ IsFiniteSet(Transactions)

VARIABLES
    stage,  \* how far a transaction is
    queue   \* transactions that wait for a connection, their first or second

connectionVars == <<stage, queue>>

Stages == {"new", "queued", "begun", "blocked", "locked", "second", "inner",
           "after", "over"}

-----------------------------------------------------------------------------
Open == {t \in Transactions :
            stage[t] \in {"begun", "blocked", "locked", "second", "inner", "after"}}
InFlight == {t \in Transactions : stage[t] \notin {"new", "over"}}

\* An open transaction has a connection, and during an inner statement two.
Free == MaxConnections
          - (Cardinality(Open) + Cardinality({t \in Open : stage[t] = "inner"}))

HoldsRow(t, row) ==
    /\ t \in DOMAIN RowWanted /\ RowWanted[t] = row
    /\ stage[t] \in {"locked", "second", "inner", "after"}
RowAvailable(row) == \A t \in Transactions : ~ HoldsRow(t, row)

Acquire(t, served, waits) ==
    \/ /\ Free > 0
       /\ stage' = [stage EXCEPT ![t] = served]
       /\ UNCHANGED queue
    \/ /\ Free = 0
       /\ stage' = [stage EXCEPT ![t] = waits]
       /\ queue' = Append(queue, t)

GiveBack(t, next) ==
    \/ /\ queue = << >>
       /\ stage' = [stage EXCEPT ![t] = next]
       /\ UNCHANGED queue
    \/ /\ queue # << >>
       /\ LET h == Head(queue)
          IN  stage' = [stage EXCEPT ![t] = next,
                  ![h] = IF stage[h] = "queued" THEN "begun" ELSE "inner"]
       /\ queue' = Tail(queue)

-----------------------------------------------------------------------------
Begin(t) == stage[t] = "new" /\ Acquire(t, "begun", "queued")

\* SELECT ... FOR UPDATE, or an UPDATE, which waits for the row.
AskRow(t) ==
    /\ stage[t] = "begun" /\ t \in DOMAIN RowWanted
    /\ stage' = [stage EXCEPT ![t] = "blocked"]
    /\ UNCHANGED queue

GetRow(t) ==
    /\ stage[t] = "blocked" /\ RowAvailable(RowWanted[t])
    /\ stage' = [stage EXCEPT ![t] = "locked"]
    /\ UNCHANGED queue

AskSecond(t) ==
    /\ t \in Doubles
    /\ stage[t] = IF t \in DOMAIN RowWanted THEN "locked" ELSE "begun"
    /\ Acquire(t, "inner", "second")

\* The inner statements are a SELECT without a lock and INSERTs of rows of
\* their own, so none waits for a row; revokeRefreshToken, whose handle
\* defaults to the pool, is called with the transaction's.
InnerWaits_Revokes(t) == t \in DOMAIN RowWanted /\ ~ RowAvailable(RowWanted[t])
InnerWaits(t) == FALSE

EndInner(t) == stage[t] = "inner" /\ ~ InnerWaits(t) /\ GiveBack(t, "after")

\* COMMIT, or ROLLBACK when something was refused on the way.
EndTransaction(t) ==
    stage[t] \in {"begun", "locked", "after"} /\ GiveBack(t, "over")

GoOn(t) == AskRow(t) \/ AskSecond(t) \/ EndInner(t) \/ EndTransaction(t)

ConnectionsInit ==
    /\ stage = [t \in Transactions |-> "new"]
    /\ queue = << >>

ConnectionsNext == \E t \in Transactions : Begin(t) \/ GetRow(t) \/ GoOn(t)

ConnectionsSpec == ConnectionsInit /\ [][ConnectionsNext]_connectionVars

-----------------------------------------------------------------------------
ConnectionsTypeOK ==
    /\ stage \in [Transactions -> Stages]
    /\ queue \in Seq(Transactions)

\* All connections are held, each by a transaction that waits for a second one
\* or for a row that such a transaction holds.  Nothing ends this.
Starved(t) ==
    \/ stage[t] = "second"
    \/ /\ stage[t] = "blocked"
       /\ \E s \in Transactions : stage[s] = "second" /\ HoldsRow(s, RowWanted[t])
Exhausted == Free = 0 /\ \A t \in Open : Starved(t)

\* Every transaction in flight ends, and with it every wait for a connection
\* or a row, unless the whole pool is held by transactions that wait for a
\* second connection and by those that wait for their rows: no other order of
\* requests and no smaller number of them locks up, whatever is refused.
TransactionsEnd == InFlight # {} ~> (InFlight = {} \/ Exhausted)
=============================================================================
