----------------------------- MODULE Integrity -----------------------------
(***************************************************************************)
(* The ledger integrity checks, which a cron job runs three times a day and *)
(* an administrator by hand.  Every check is one SELECT, so it sees one     *)
(* committed state; here it is the set of rows it reports in that state.    *)
(* The checks compare the columns, the transactions, the logs and the       *)
(* sessions that the money flows of Platform write.                         *)
(***************************************************************************)
EXTENDS Platform

Checks ==
    {"member_balance_vs_tx_sum", "member_reserved_vs_active_codes",
     "merchant_settlement_balance_vs_log", "merchant_cash_pool_vs_log",
     "merchant_credit_limit_breach",
     "settlement_log_chain", "cash_pool_log_chain",
     "flow_spend_settlement_posting", "flow_credit_settlement_posting",
     "flow_topup_cash_pool_posting", "flow_withdraw_cash_pool_posting",
     "orphan_settlement_log_refs"}

-----------------------------------------------------------------------------
\* SUM of MEMBER_TX_DELTA: the type of a transaction gives the sign.
TxSum(u) == SumFunction([i \in 1 .. Len(txns[u]) |-> txns[u][i].change])

\* balance_after of the last log row of a merchant, or 0 without one.
LastAfter(rows) == IF rows = << >> THEN 0 ELSE rows[Len(rows)].after

\* merchant_settlement_log also holds the rows flow C writes for a finance
\* merchant, whose merchants.balance no flow ever moves from 0.
SettlementRows == [m \in Commerce \cup Finance |->
                     IF m \in Commerce THEN settlementLog[m] ELSE shadowLog[m]]
SettlementColumn == [m \in Commerce \cup Finance |->
                       IF m \in Commerce THEN settlement[m] ELSE 0]

AllRows(logs) == UNION {Range(logs[m]) : m \in DOMAIN logs}
TxRows == AllRows(txns)
TxRowsOf(type) == {row \in TxRows : row.type = type}

\* transactions.fee: only flow A stores its commission there.
TxFee(row) ==
    IF row.type = "spend" THEN CommerceFee[consumedBy[row.ref]][row.ref] ELSE 0

\* EXPECTED_SETTLEMENT and EXPECTED_CASH_POOL, from the unsigned amount.
TxAmount(row) == IF row.change < 0 THEN -row.change ELSE row.change
ExpectedChange(row) ==
    CASE row.type = "spend"             -> TxAmount(row) - TxFee(row)
      [] row.type = "merchant_credit"   -> -(TxAmount(row) + TxFee(row))
      [] row.type = "topup"             -> TxAmount(row) - TxFee(row)
      [] row.type = "merchant_withdraw" -> -(TxAmount(row) - TxFee(row))

\* The log rows the LEFT JOIN of a flow check finds for a transaction.  For
\* flows A and B the log refers to the transaction.  For flows C and D the
\* join looks for the session the transaction refers to.  For flow B it also
\* takes notes that begin with "ref:" and the merchant's reference; no flow
\* writes such notes, and what is typed by hand is not modelled.
Joined(row) ==
    {entry \in AllRows(IF row.type \in {"spend", "merchant_credit"}
                       THEN SettlementRows ELSE cashPoolLog) :
        entry.ref = row.ref}

\* Transactions of a type with no log row, or one that has another amount.
Unposted(type) ==
    {row.ref : row \in {r \in TxRowsOf(type) :
        \/ Joined(r) = {}
        \/ \E entry \in Joined(r) : entry.change # ExpectedChange(r)}}

\* Transactions there are: a top-up's own id differs from its reference_id.
TxIds == {IF row.type = "topup" THEN TxId[row.ref] ELSE row.ref : row \in TxRows}

-----------------------------------------------------------------------------
\* Rows of D that are off, with the difference the finding shows.
Off(D, Delta(_)) == {<<x, Delta(x)>> : x \in {y \in D : Delta(y) # 0}}

\* What a check reports.
Reports(check) ==
    LET OffTxSum(u) == balance[u] - TxSum(u)
        OffCodes(u) == reserved[u] - C!ReservedForCodes(u)
        OffBook(m) == SettlementColumn[m] - LastAfter(SettlementRows[m])
        OffPool(m) == cashPool[m] - LastAfter(cashPoolLog[m])
    IN  CASE check = "member_balance_vs_tx_sum" -> Off(Members, OffTxSum)
          [] check = "member_reserved_vs_active_codes" -> Off(Members, OffCodes)
          [] check = "merchant_settlement_balance_vs_log" ->
                Off(Commerce \cup Finance, OffBook)
          [] check = "merchant_cash_pool_vs_log" -> Off(Finance, OffPool)
          [] check = "merchant_credit_limit_breach" ->
                {m \in Commerce : settlement[m] < -creditLimit[m]}
          [] check = "settlement_log_chain" ->
                {m \in Commerce \cup Finance : ~RowsAdd(SettlementRows[m])}
          [] check = "cash_pool_log_chain" ->
                {m \in Finance : ~RowsAdd(cashPoolLog[m])}
          [] check = "flow_spend_settlement_posting"   -> Unposted("spend")
          [] check = "flow_credit_settlement_posting"  -> Unposted("merchant_credit")
          [] check = "flow_topup_cash_pool_posting"    -> Unposted("topup")
          [] check = "flow_withdraw_cash_pool_posting" -> Unposted("merchant_withdraw")
          [] check = "orphan_settlement_log_refs" ->
                {entry.ref : entry \in AllRows(SettlementRows)} \ (TxIds \cup {NoRef})

-----------------------------------------------------------------------------
\* setCashPool writes the column in any case and a log row only when the value
\* it has read is another: a set that logged nothing.
SetUnlogged(m) ==
    \E c \in Calls : /\ stage[c] = "done" /\ Task[c].op = "setCashPool"
                     /\ Task[c].on = m /\ Task[c].amount = seen[c].value

\* What the checks report of flows that went as written, check by check; every
\* other check is silent.
Explained(check) ==
    CASE check = "member_reserved_vs_active_codes" ->
            {<<u, SumFunctionOnSet(Amount, W!OpenOf(u))>> :
                u \in {v \in Members : W!OpenOf(v) # {}}}
      [] check = "merchant_settlement_balance_vs_log" ->
            {<<m, -LastAfter(shadowLog[m])>> : m \in
                {f \in Finance : /\ \E t \in Topups : tmerchant[t] = f /\ T!Credited(t)
                                 /\ LastAfter(shadowLog[f]) # 0}}
      [] check = "merchant_cash_pool_vs_log" ->
            {<<m, cashPool[m] - LastAfter(cashPoolLog[m])>> : m \in
                {f \in Finance : SetUnlogged(f) /\ cashPool[f] # LastAfter(cashPoolLog[f])}}
      [] check = "flow_credit_settlement_posting" ->
            {k \in Credits : /\ creditedBy[k] # NoOne
                             /\ CommerceFee[creditedBy[k]][k] > 0}
      [] check = "flow_topup_cash_pool_posting" ->
            {t \in Topups : T!Credited(t)}
      [] check = "flow_withdraw_cash_pool_posting" ->
            {s \in Withdrawals : /\ wstatus[s] = "success"
                                 /\ WithdrawFee[wmerchant[s]][s] > 0}
      [] OTHER -> {}

\* The checks report exactly what their own queries leave out, whichever flows
\* ran in whichever order: the amount of an open withdrawal, a finance merchant
\* that took a top-up, every top-up, the credits and withdrawals with a
\* commission, and a pool that was set while a flow moved it and whose set found
\* nothing to log.  So what is reserved on an account is its active codes and
\* its open withdrawal, although either flow releases with a clamp at zero; every
\* balance and book is where its log ends; every other posting is there.
AuditExplained ==
    \A check \in Checks : Reports(check) = Explained(check)
=============================================================================
