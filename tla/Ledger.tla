------------------------------- MODULE Ledger -------------------------------
(***************************************************************************)
(* What the books of the wallet have in common: a column that holds an      *)
(* amount, and an append-only table whose rows say how it got there.        *)
(* Amounts are integers in the wallet's unit of account.                    *)
(***************************************************************************)
EXTENDS Integers, Sequences

CONSTANTS
    Refs,   \* ids a transaction or a log row refers to
    NoRef   \* reference_id of a row written by an administrator

ASSUME LedgerAssumption == NoRef \notin Refs

\* SQL GREATEST(x, 0)
Clamp(x) == IF x > 0 THEN x ELSE 0

LogRow(reason, ref, change, before) ==
    [reason |-> reason, ref |-> ref, change |-> change,
     before |-> before, after |-> before + change]

-----------------------------------------------------------------------------
\* The audit chain of a table: every row starts where the one before it ended,
\* the first one starts at zero, and the column is where the last one ended.
\* Summed over the rows it says column = sum of the changes.
ChainEndsAt(rows, column) ==
    /\ Len(rows) = 0 => column = 0
    /\ Len(rows) > 0 => /\ rows[Len(rows)].after = column
                        /\ rows[1].after = rows[1].change
    /\ \A i \in 2 .. Len(rows) :
          rows[i].after = rows[i - 1].after + rows[i].change

\* Every row of a table adds its change to the value it says it found.
RowsAdd(rows) ==
    \A i \in 1 .. Len(rows) : rows[i].before + rows[i].change = rows[i].after
=============================================================================
