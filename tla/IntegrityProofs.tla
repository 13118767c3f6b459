-------------------------- MODULE IntegrityProofs --------------------------
(***************************************************************************)
(* The theorem about the integrity checks: for any number of members,       *)
(* merchants, sessions, codes, credits and calls, what a check reports in   *)
(* any committed state is what its query leaves out, and nothing else.  The *)
(* proof is an invariant for each table, which says of every row which flow *)
(* wrote it and of every flow that its row is there.                        *)
(***************************************************************************)
EXTENDS PlatformProofs, Integrity

-----------------------------------------------------------------------------
\* Tables.  What an appended row does to what the checks read of a table.
LEMMA RowInTable ==
    ASSUME NEW R, NEW rows \in Seq(R), NEW row \in R
    PROVE  /\ Append(rows, row) \in Seq(R)
           /\ Range(Append(rows, row)) = Range(rows) \cup {row}
           /\ LastAfter(Append(rows, row)) = row.after
           /\ RowsAdd(rows) /\ row.before + row.change = row.after
                 => RowsAdd(Append(rows, row))
  <1> DEFINE longer == Append(rows, row)
             n == Len(rows)
  <1>1. /\ n \in Nat /\ Len(longer) = n + 1 /\ longer[n + 1] = row
        /\ longer \in Seq(R) /\ DOMAIN longer = 1 .. n + 1 /\ DOMAIN rows = 1 .. n
        /\ \A i \in 1 .. n : longer[i] = rows[i]
    <2>1. longer \in Seq(R) /\ Len(longer) = n + 1 /\ n \in Nat
      OBVIOUS
    <2>2. DOMAIN longer = 1 .. Len(longer) /\ DOMAIN rows = 1 .. n
      OBVIOUS
    <2>3. longer[n + 1] = row /\ \A i \in 1 .. n : longer[i] = rows[i]
      OBVIOUS
    <2> QED BY <2>1, <2>2, <2>3
  <1>2. longer # << >>
    <2>1. Len(longer) # 0 /\ Len(<< >>) = 0
      BY <1>1
    <2> HIDE DEF longer
    <2> QED BY <2>1
  <1> HIDE DEF longer, n
  <1>3. 1 .. n + 1 = (1 .. n) \cup {n + 1}
    BY <1>1
  <1>4. Range(longer) = Range(rows) \cup {row}
    BY <1>1, <1>3 DEF Range
  <1>5. LastAfter(longer) = row.after
    BY <1>1, <1>2 DEF LastAfter
  <1>6. ASSUME RowsAdd(rows), row.before + row.change = row.after
        PROVE  RowsAdd(longer)
    <2>1. \A i \in 1 .. n : longer[i].before + longer[i].change = longer[i].after
      BY <1>1, <1>6 DEF RowsAdd, n
    <2> QED BY <1>1, <1>3, <1>6, <2>1 DEF RowsAdd
  <1> QED BY <1>1, <1>4, <1>5, <1>6 DEF longer

\* A row of a table has the type of its rows.
LEMMA RowTyped ==
    ASSUME NEW R, NEW rows \in Seq(R), NEW row \in Range(rows)
    PROVE  row \in R
  BY DEF Range

\* A table that has no row, or the opening one.
LEMMA OpeningTable ==
    ASSUME NEW R, NEW row \in R, NEW rows, rows = << >> \/ rows = << row >>
    PROVE  /\ rows \in Seq(R) /\ Range(rows) \subseteq {row}
           /\ LastAfter(rows) = IF rows = << >> THEN 0 ELSE row.after
           /\ row.before + row.change = row.after => RowsAdd(rows)
  <1>1. CASE rows = << >>
    BY <1>1 DEF Range, LastAfter, RowsAdd
  <1>2. CASE rows = << row >>
    <2>1. /\ Len(rows) = 1 /\ rows[1] = row /\ DOMAIN rows = 1 .. 1 /\ rows # << >>
          /\ rows \in Seq(R)
      BY <1>2
    <2>2. 1 .. 1 = {1}
      OBVIOUS
    <2> QED BY <2>1, <2>2 DEF Range, LastAfter, RowsAdd
  <1> QED BY <1>1, <1>2

\* The changes of a table, as the query of the balances adds them.
Changes(rows) == SumFunction([i \in 1 .. Len(rows) |-> rows[i].change])

\* An appended row adds its change.
LEMMA ChangesGrow ==
    ASSUME NEW rows \in Seq(TxRow), NEW row \in TxRow
    PROVE  Changes(Append(rows, row)) = row.change + Changes(rows)
  <1> DEFINE n == Len(rows)
             longer == Append(rows, row)
             f == [i \in 1 .. n |-> rows[i].change]
             g == [i \in 1 .. n + 1 |-> longer[i].change]
  <1>1. /\ n \in Nat /\ Len(longer) = n + 1 /\ longer[n + 1] = row
        /\ \A i \in 1 .. n : longer[i] = rows[i]
    OBVIOUS
  <1>2. \A i \in 1 .. n : rows[i].change \in Int
    <2>1. \A x \in TxRow : x.change \in Int
      BY DEF TxRow
    <2>2. \A i \in 1 .. n : rows[i] \in TxRow
      OBVIOUS
    <2> QED BY <2>1, <2>2
  <1>3. row.change \in Int
    BY DEF TxRow
  <1> HIDE DEF longer
  <1>4. 1 .. n + 1 = (1 .. n) \cup {n + 1} /\ n + 1 \notin 1 .. n
    BY <1>1
  <1>5. Changes(longer) = SumFunctionOnSet(g, (1 .. n) \cup {n + 1})
    BY <1>1, <1>4 DEF Changes, SumFunction
  <1>6. Changes(rows) = SumFunctionOnSet(f, 1 .. n)
    BY DEF Changes, SumFunction
  <1>7. \A i \in 1 .. n : f[i] = rows[i].change /\ g[i] = rows[i].change
    BY <1>1, <1>4
  <1>8. g[n + 1] = row.change
    BY <1>1, <1>4
  <1>9. IsFiniteSet(1 .. n)
    BY <1>1, FS_Interval
  <1> HIDE DEF f, g, n
  <1>10. SumFunctionOnSet(g, (1 .. n) \cup {n + 1}) = g[n + 1] + SumFunctionOnSet(f, 1 .. n)
    <2> DEFINE S == 1 .. n
               x == n + 1
    <2>1. IsFiniteSet(S) /\ x \notin S /\ g[x] \in Int
          /\ \A i \in S : f[i] \in Int /\ g[i] = f[i]
      BY <1>2, <1>3, <1>4, <1>7, <1>8, <1>9
    <2> HIDE DEF S, x
    <2>2. SumFunctionOnSet(g, S \cup {x}) = g[x] + SumFunctionOnSet(f, S)
      BY <2>1, SumGrow
    <2> QED BY <2>2 DEF S, x
  <1> QED BY <1>5, <1>6, <1>8, <1>10 DEF longer
-----------------------------------------------------------------------------
\* Transactions: every row is of what has gone through, with its amount, and
\* what has gone through has its row.
Told(u, row) ==
    /\ row.type \in TxTypes
    /\ row.type = "topup" => row.ref \in Topups /\ Depositor[row.ref] = u
    /\ row.type = "spend" => row.ref \in Consumed /\ row.change = -CodeAmount[row.ref]
    /\ row.type = "merchant_credit"
          => row.ref \in CreditsDone /\ row.change = CreditAmount[row.ref]
    /\ row.type = "merchant_withdraw"
          => row.ref \in Succeeded /\ row.change = -Amount[row.ref]
    /\ row.type = "adjustment" => row.ref = NoRef
HasTx(u, type, ref) == \E row \in Range(txns[u]) : row.type = type /\ row.ref = ref

TxnsTold ==
    /\ \A u \in Members : \A row \in Range(txns[u]) : Told(u, row)
    /\ \A c \in Consumed : HasTx(Holder[c], "spend", c)
    /\ \A k \in CreditsDone : HasTx(CreditTo[k], "merchant_credit", k)
    /\ \A s \in Succeeded : HasTx(Owner[s], "merchant_withdraw", s)
TxnsAdd == \A u \in Members : balance[u] = Changes(txns[u])

\* A posting tells what goes through with it: its row is the one the flow that is
\* done by this step asks for, and the balance moves by its change.
LEMMA PostTold ==
    ASSUME Shapes, TxnsTold, TxnsAdd, NEW u \in Members, NEW type \in TxTypes,
           NEW ref \in Refs \cup {NoRef}, NEW change \in Int,
           NEW row, row = RowOf(type, ref, change, u), Posts(u, type, ref, change),
           Consumed \subseteq Consumed', CreditsDone \subseteq CreditsDone',
           Succeeded \subseteq Succeeded', Told(u, row)',
           \A c \in Consumed' \ Consumed : type = "spend" /\ c = ref /\ u = Holder[c],
           \A k \in CreditsDone' \ CreditsDone :
               type = "merchant_credit" /\ k = ref /\ u = CreditTo[k],
           \A s \in Succeeded' \ Succeeded :
               type = "merchant_withdraw" /\ s = ref /\ u = Owner[s]
    PROVE  TxnsTold' /\ TxnsAdd'
  <1>1. row \in TxRow /\ row.type = type /\ row.ref = ref /\ row.change = change
    BY RowIsTx DEF RowOf
  <1>2. /\ txns \in [Members -> Seq(TxRow)] /\ balance \in [Members -> Int]
        /\ txns' = [txns EXCEPT ![u] = Append(@, row)]
        /\ balance' = [balance EXCEPT ![u] = @ + change]
    BY DEF Shapes, Posts
  <1> HIDE DEF RowOf
  <1>3. txns[u] \in Seq(TxRow) /\ txns'[u] = Append(txns[u], row)
    BY <1>2
  <1>4. Range(txns'[u]) = Range(txns[u]) \cup {row}
    BY <1>1, <1>3, RowInTable
  <1>5. \A v \in Members \ {u} : txns'[v] = txns[v] /\ balance'[v] = balance[v]
    BY <1>2
  <1>6. \A v \in Members : Range(txns[v]) \subseteq Range(txns'[v])
    BY <1>4, <1>5
  <1>7. ASSUME NEW v, NEW r, Told(v, r) PROVE Told(v, r)'
    BY <1>7 DEF Told
  <1>8. ASSUME NEW v \in Members, NEW r \in Range(txns'[v]) PROVE Told(v, r)'
    <2>1. CASE r \in Range(txns[v])
      BY <1>7, <2>1 DEF TxnsTold
    <2>2. CASE r \notin Range(txns[v])
      <3>1. v = u /\ r = row
        BY <1>4, <1>5, <1>8, <2>2
      <3> QED BY <3>1
    <2> QED BY <2>1, <2>2
  <1>9. ASSUME NEW v \in Members, NEW t, NEW x, HasTx(v, t, x) PROVE HasTx(v, t, x)'
    BY <1>6, <1>9 DEF HasTx
  <1>10. HasTx(u, type, ref)'
    BY <1>1, <1>4 DEF HasTx
  <1>11. /\ \A c \in Consumed' : HasTx(Holder[c], "spend", c)'
         /\ \A k \in CreditsDone' : HasTx(CreditTo[k], "merchant_credit", k)'
         /\ \A s \in Succeeded' : HasTx(Owner[s], "merchant_withdraw", s)'
    <2>1. /\ \A c \in Consumed : Holder[c] \in Members
          /\ \A k \in CreditsDone : CreditTo[k] \in Members
          /\ \A s \in Succeeded : Owner[s] \in Members
      BY FlowConstants DEF Consumed, CreditsDone, Succeeded
    <2>2. ASSUME NEW c \in Consumed' PROVE HasTx(Holder[c], "spend", c)'
      BY <1>9, <1>10, <2>1 DEF TxnsTold
    <2>3. ASSUME NEW k \in CreditsDone' PROVE HasTx(CreditTo[k], "merchant_credit", k)'
      BY <1>9, <1>10, <2>1 DEF TxnsTold
    <2>4. ASSUME NEW s \in Succeeded' PROVE HasTx(Owner[s], "merchant_withdraw", s)'
      BY <1>9, <1>10, <2>1 DEF TxnsTold
    <2> QED BY <2>2, <2>3, <2>4
  <1>12. TxnsTold'
    BY <1>8, <1>11 DEF TxnsTold
  <1>13. ASSUME NEW v \in Members PROVE balance'[v] = Changes(txns'[v])
    <2>1. balance[v] = Changes(txns[v]) /\ balance[v] \in Int
      BY <1>2 DEF TxnsAdd
    <2>2. CASE v = u
      <3>1. Changes(txns'[u]) = change + Changes(txns[u])
        BY <1>1, <1>3, ChangesGrow
      <3>2. balance'[u] = balance[u] + change
        BY <1>2
      <3> QED BY <2>1, <2>2, <3>1, <3>2
    <2>3. CASE v # u
      BY <1>5, <2>1, <2>3
    <2> QED BY <2>2, <2>3
  <1>14. TxnsAdd'
    BY <1>13 DEF TxnsAdd
  <1> QED BY <1>12, <1>14

\* A step that posts nothing and finishes nothing.
LEMMA QuietTold ==
    ASSUME TxnsTold, TxnsAdd, Quiet
    PROVE  TxnsTold' /\ TxnsAdd'
  BY DEF TxnsTold, TxnsAdd, Quiet, done, Told, HasTx

\* Every step of every flow keeps the transactions told.
LEMMA TxnsKept ==
    ASSUME Shapes, Fresh, TxnsTold, TxnsAdd, [Next]_vars
    PROVE  TxnsTold' /\ TxnsAdd'
  <1> DEFINE Goal == TxnsTold' /\ TxnsAdd'
  <1>1. CASE WithdrawStep
    <2>1. ASSUME NEW s \in Withdrawals \ Succeeded,
                 Posts(Owner[s], "merchant_withdraw", s, -Amount[s]),
                 Succeeded' = Succeeded \cup {s},
                 UNCHANGED <<tamount, Consumed, CreditsDone, Adjusted>>
          PROVE  Goal
      <3>4. PICK row : row = RowOf("merchant_withdraw", s, -Amount[s], Owner[s])
        OBVIOUS
      <3>1. /\ Owner[s] \in Members /\ -Amount[s] \in Int
            /\ s \in Refs \cup {NoRef} /\ "merchant_withdraw" \in TxTypes
        BY FlowConstants DEF TxTypes
      <3>2. row.type = "merchant_withdraw" /\ row.ref = s /\ row.change = -Amount[s]
        BY <3>4 DEF RowOf
      <3>3. Told(Owner[s], row)'
        BY <2>1, <3>2 DEF Told, TxTypes
      <3>5. /\ Consumed \subseteq Consumed' /\ CreditsDone \subseteq CreditsDone'
            /\ Succeeded \subseteq Succeeded'
            /\ Consumed' \ Consumed = {} /\ CreditsDone' \ CreditsDone = {}
            /\ Succeeded' \ Succeeded \subseteq {s}
        BY <2>1
      <3> QED BY <2>1, <3>1, <3>3, <3>4, <3>5, PostTold
    <2> QED BY <1>1, <2>1, WithdrawEffect, QuietTold
  <1>2. CASE TopupStep
    <2>1. ASSUME NEW t \in Topups \ ToppedUp, NEW a \in Nat,
                 Posts(Depositor[t], "topup", t, a),
                 UNCHANGED <<Succeeded, Consumed, CreditsDone, Adjusted>>
          PROVE  Goal
      <3>4. PICK row : row = RowOf("topup", t, a, Depositor[t])
        OBVIOUS
      <3>1. /\ Depositor[t] \in Members /\ a \in Int
            /\ t \in Refs \cup {NoRef} /\ "topup" \in TxTypes
        BY FlowConstants DEF TxTypes
      <3>2. row.type = "topup" /\ row.ref = t
        BY <3>4 DEF RowOf
      <3>3. Told(Depositor[t], row)'
        BY <2>1, <3>2 DEF Told, TxTypes
      <3>5. /\ Consumed \subseteq Consumed' /\ CreditsDone \subseteq CreditsDone'
            /\ Succeeded \subseteq Succeeded'
            /\ Consumed' \ Consumed = {} /\ CreditsDone' \ CreditsDone = {}
            /\ Succeeded' \ Succeeded = {}
        BY <2>1
      <3> QED BY <2>1, <3>1, <3>3, <3>4, <3>5, PostTold
    <2> QED BY <1>2, <2>1, TopupEffect, QuietTold
  <1>3. CASE CommerceStep
    <2>1. ASSUME NEW c \in Codes, Spends(c) PROVE Goal
      <3>4. PICK row : row = RowOf("spend", c, -CodeAmount[c], Holder[c])
        OBVIOUS
      <3>1. /\ Holder[c] \in Members /\ -CodeAmount[c] \in Int
            /\ c \in Refs \cup {NoRef} /\ "spend" \in TxTypes
        BY FlowConstants DEF TxTypes
      <3>2. row.type = "spend" /\ row.ref = c /\ row.change = -CodeAmount[c]
        BY <3>4 DEF RowOf
      <3>3. Told(Holder[c], row)'
        BY <2>1, <3>2 DEF Told, TxTypes, Spends
      <3>5. /\ Consumed \subseteq Consumed' /\ CreditsDone \subseteq CreditsDone'
            /\ Succeeded \subseteq Succeeded'
            /\ Consumed' \ Consumed \subseteq {c} /\ CreditsDone' \ CreditsDone = {}
            /\ Succeeded' \ Succeeded = {}
        BY <2>1 DEF Spends
      <3>6. Posts(Holder[c], "spend", c, -CodeAmount[c])
        BY <2>1 DEF Spends
      <3> QED BY <3>1, <3>3, <3>4, <3>5, <3>6, PostTold
    <2>2. ASSUME NEW k \in Credits, Grants(k) PROVE Goal
      <3>4. PICK row : row = RowOf("merchant_credit", k, CreditAmount[k], CreditTo[k])
        OBVIOUS
      <3>1. /\ CreditTo[k] \in Members /\ CreditAmount[k] \in Int
            /\ k \in Refs \cup {NoRef} /\ "merchant_credit" \in TxTypes
        BY FlowConstants DEF TxTypes
      <3>2. row.type = "merchant_credit" /\ row.ref = k /\ row.change = CreditAmount[k]
        BY <3>4 DEF RowOf
      <3>3. Told(CreditTo[k], row)'
        BY <2>2, <3>2 DEF Told, TxTypes, Grants
      <3>5. /\ Consumed \subseteq Consumed' /\ CreditsDone \subseteq CreditsDone'
            /\ Succeeded \subseteq Succeeded'
            /\ Consumed' \ Consumed = {} /\ CreditsDone' \ CreditsDone \subseteq {k}
            /\ Succeeded' \ Succeeded = {}
        BY <2>2 DEF Grants
      <3>6. Posts(CreditTo[k], "merchant_credit", k, CreditAmount[k])
        BY <2>2 DEF Grants
      <3> QED BY <3>1, <3>3, <3>4, <3>5, <3>6, PostTold
    <2> QED BY <1>3, <2>1, <2>2, CommerceEffect, QuietTold
  <1>4. CASE AdminStep
    <2>1. ASSUME NEW c \in Calls \ Adjusted, Task[c].op = "adjustBalance",
                 Posts(Task[c].on, "adjustment", NoRef, Task[c].amount),
                 UNCHANGED <<Succeeded, tamount, Consumed, CreditsDone>>
          PROVE  Goal
      <3>4. PICK row : row = RowOf("adjustment", NoRef, Task[c].amount, Task[c].on)
        OBVIOUS
      <3>1. /\ Task[c].on \in Members /\ Task[c].amount \in Int
            /\ NoRef \in Refs \cup {NoRef} /\ "adjustment" \in TxTypes
        BY <2>1, TaskConstants DEF TxTypes
      <3>2. row.type = "adjustment" /\ row.ref = NoRef
        BY <3>4 DEF RowOf
      <3>3. Told(Task[c].on, row)'
        BY <3>2 DEF Told, TxTypes
      <3>5. /\ Consumed \subseteq Consumed' /\ CreditsDone \subseteq CreditsDone'
            /\ Succeeded \subseteq Succeeded'
            /\ Consumed' \ Consumed = {} /\ CreditsDone' \ CreditsDone = {}
            /\ Succeeded' \ Succeeded = {}
        BY <2>1
      <3> QED BY <2>1, <3>1, <3>3, <3>4, <3>5, PostTold
    <2> QED BY <1>4, <2>1, AdminEffect, QuietTold
  <1>5. CASE UNCHANGED vars
    <2>1. UNCHANGED <<balance, txns, wstatus, tamount, cstatus, creditedBy, stage>>
      BY <1>5 DEF vars, walletVars, withdrawVars, topupVars, commerceVars, adminVars
    <2>2. Quiet
      BY <2>1 DEF Quiet, done, Succeeded, ToppedUp, T!Credited, T!CreditsOf, Consumed,
                  CreditsDone, Adjusted
    <2> QED BY <2>2, QuietTold
  <1> QED BY <1>1, <1>2, <1>3, <1>4, <1>5 DEF Next
-----------------------------------------------------------------------------
\* Books: every row is of a consumed code, of a credit or by hand, and a code
\* and a credit have their row in the book of the merchant they are with.
BookRow(m, row) ==
    \/ row.ref = NoRef
    \/ /\ row.ref \in Consumed /\ consumedBy[row.ref] = m
       /\ row.change = CodeAmount[row.ref] - CommerceFee[m][row.ref]
    \/ /\ row.ref \in CreditsDone /\ creditedBy[row.ref] = m
       /\ row.change = -(CreditAmount[row.ref] + CommerceFee[m][row.ref])
HasEntry(m, ref) == m \in Commerce /\ \E row \in Range(settlementLog[m]) : row.ref = ref

BooksTyped ==
    /\ settlement \in [Commerce -> Int]
    /\ creditLimit \in [Commerce -> Nat]
    /\ settlementLog \in [Commerce -> Seq(SettlementRow)]
    /\ consumedBy \in [Codes -> Commerce \cup {NoOne}]
BookExact(m) ==
    /\ settlement[m] = LastAfter(settlementLog[m]) /\ RowsAdd(settlementLog[m])
    /\ settlement[m] >= -creditLimit[m]
    /\ \A row \in Range(settlementLog[m]) : BookRow(m, row)
BooksTold ==
    /\ BooksTyped
    /\ \A m \in Commerce : BookExact(m)
    /\ \A c \in Consumed : HasEntry(consumedBy[c], c)
    /\ \A k \in CreditsDone : HasEntry(creditedBy[k], k)

\* The commissions are natural numbers, and the references of the tables differ.
LEMMA FeeConstants ==
    /\ \A m \in Commerce, x \in Codes \cup Credits : CommerceFee[m][x] \in Nat
    /\ \A m \in Finance, s \in Withdrawals : WithdrawFee[m][s] \in Nat
    /\ \A m \in Finance, a \in ProviderAmounts : TopupFee[m][a] \in Nat
    /\ \A k \in Credits : CreditAmount[k] \in Nat \ {0}
    /\ Codes \cap Credits = {}
    /\ \A t \in Topups : TxId[t] \in Refs \ (Topups \cup Withdrawals \cup Codes \cup Credits)
    /\ \A s, t \in Topups : TxId[s] = TxId[t] => s = t
    /\ NoMerchant \notin Finance /\ NoTopupMerchant \notin Finance
    /\ Finance \cap Commerce = {}
  BY PlatformAssumption
     DEF W!WithdrawAssumption, T!TopupAssumption, C!CommerceAssumption

\* A book is moved, with its row, to where its limit allows.
LEMMA BookPosts ==
    ASSUME BooksTold, NEW m \in Commerce, NEW row \in SettlementRow,
           settlementLog' = [settlementLog EXCEPT ![m] = Append(@, row)],
           settlement' = [settlement EXCEPT ![m] = row.after],
           row.before + row.change = row.after, row.after >= -creditLimit[m],
           creditLimit' = creditLimit,
           consumedBy' \in [Codes -> Commerce \cup {NoOne}],
           \A v \in Commerce : \A r : BookRow(v, r) => BookRow(v, r)',
           BookRow(m, row)',
           \A c \in Consumed' : \/ c \in Consumed /\ consumedBy'[c] = consumedBy[c]
                                \/ c = row.ref /\ consumedBy'[c] = m,
           \A k \in CreditsDone' : \/ k \in CreditsDone /\ creditedBy'[k] = creditedBy[k]
                                   \/ k = row.ref /\ creditedBy'[k] = m
    PROVE  BooksTold'
  <1>1. /\ settlement \in [Commerce -> Int] /\ creditLimit \in [Commerce -> Nat]
        /\ settlementLog \in [Commerce -> Seq(SettlementRow)]
    BY DEF BooksTold, BooksTyped
  <1>2. row.after \in Int
    BY DEF SettlementRow
  <1>3. settlementLog[m] \in Seq(SettlementRow)
        /\ settlementLog'[m] = Append(settlementLog[m], row)
    BY <1>1
  <1>4. /\ settlementLog'[m] \in Seq(SettlementRow)
        /\ Range(settlementLog'[m]) = Range(settlementLog[m]) \cup {row}
        /\ LastAfter(settlementLog'[m]) = row.after
        /\ RowsAdd(settlementLog[m]) => RowsAdd(settlementLog'[m])
    BY <1>3, RowInTable
  <1>5. \A v \in Commerce \ {m} : /\ settlementLog'[v] = settlementLog[v]
                                  /\ settlement'[v] = settlement[v]
    BY <1>1
  <1>6. BooksTyped'
    BY <1>1, <1>2, <1>4 DEF BooksTyped, BooksTold
  <1>7. ASSUME NEW v \in Commerce PROVE BookExact(v)'
    <2>1. BookExact(v)
      BY DEF BooksTold
    <2>2. CASE v = m
      <3>1. settlement'[m] = row.after
        BY <1>1
      <3>2. \A r \in Range(settlementLog'[m]) : BookRow(m, r)'
        BY <1>4, <2>1, <2>2 DEF BookExact
      <3> QED BY <1>4, <2>1, <2>2, <3>1, <3>2 DEF BookExact
    <2>3. CASE v # m
      <3>1. settlementLog'[v] = settlementLog[v] /\ settlement'[v] = settlement[v]
        BY <1>5, <2>3
      <3>2. \A r \in Range(settlementLog'[v]) : BookRow(v, r)'
        BY <2>1, <3>1 DEF BookExact
      <3> QED BY <2>1, <3>1, <3>2 DEF BookExact
    <2> QED BY <2>2, <2>3
  <1>8. ASSUME NEW v, NEW ref, HasEntry(v, ref) PROVE HasEntry(v, ref)'
    BY <1>4, <1>5, <1>8 DEF HasEntry
  <1>9. HasEntry(m, row.ref)'
    BY <1>4 DEF HasEntry
  <1>10. \A c \in Consumed' : HasEntry(consumedBy[c], c)'
    BY <1>8, <1>9 DEF BooksTold
  <1>11. \A k \in CreditsDone' : HasEntry(creditedBy[k], k)'
    BY <1>8, <1>9 DEF BooksTold
  <1> QED BY <1>6, <1>7, <1>10, <1>11 DEF BooksTold

\* A step that touches neither the books nor what they tell.
LEMMA BookFrame ==
    ASSUME BooksTold, UNCHANGED <<settlementVars, consumedBy, creditedBy, Consumed>>
    PROVE  BooksTold'
  BY DEF BooksTold, BooksTyped, BookExact, BookRow, HasEntry, CreditsDone, settlementVars

\* Flows A and B post what they move.
LEMMA CommerceBooks ==
    ASSUME Shapes, Fresh, BooksTold, CommerceStep
    PROVE  BooksTold'
  <1>0. /\ cstatus \in [Codes -> C!CodeStatuses]
        /\ creditedBy \in [Credits -> Commerce \cup {NoOne}]
        /\ consumedBy \in [Codes -> Commerce \cup {NoOne}]
        /\ settlement \in [Commerce -> Int] /\ creditLimit \in [Commerce -> Nat]
        /\ C!Next
    BY DEF Shapes, CommerceStep, BooksTold, BooksTyped
  <1>1. ASSUME NEW c \in Codes, NEW status \in C!CodeStatuses, status # "consumed",
               cstatus[c] # "consumed", cstatus' = [cstatus EXCEPT ![c] = status],
               UNCHANGED <<settlementVars, consumedBy, creditedBy>>
        PROVE  BooksTold'
    <2>1. Consumed' = Consumed
      BY <1>0, <1>1 DEF Consumed
    <2> QED BY <1>1, <2>1, BookFrame
  <1>2. ASSUME NEW c \in Codes, C!CountCodes(c) \/ C!AbortCode(c) \/ C!CodeDue(c)
        PROVE  BooksTold'
    <2>1. UNCHANGED <<settlementVars, consumedBy, creditedBy, cstatus>>
      BY <1>2 DEF C!CountCodes, C!AbortCode, C!CodeDue, C!codeVars, C!settlementVars,
                  settlementVars
    <2> QED BY <2>1, BookFrame DEF Consumed
  <1>3. ASSUME NEW c \in Codes,
               C!CancelCode(c) \/ \E points \in PointChoices : C!CreateCode(c, points)
        PROVE  BooksTold'
    <2>1. UNCHANGED <<settlementVars, consumedBy, creditedBy>>
      BY <1>3 DEF C!CancelCode, C!CreateCode, C!settlementVars, settlementVars
    <2>2. \E status \in {"active", "cancelled"} : cstatus' = [cstatus EXCEPT ![c] = status]
      BY <1>3 DEF C!CancelCode, C!CreateCode
    <2>3. cstatus[c] # "consumed"
      BY <1>3 DEF C!CancelCode, C!CreateCode, C!StillActive, Fresh
    <2> QED BY <1>1, <2>1, <2>2, <2>3 DEF C!CodeStatuses
  <1>4. ASSUME C!ExpireCodes PROVE BooksTold'
    <2>1. UNCHANGED <<settlementVars, consumedBy, creditedBy>>
      BY <1>4 DEF C!ExpireCodes, C!settlementVars, settlementVars
    <2>2. /\ cstatus' = [c \in Codes |-> IF c \in C!DueCodes THEN "expired" ELSE cstatus[c]]
          /\ C!DueCodes \subseteq {c \in Codes : cstatus[c] = "active"}
      BY <1>4 DEF C!ExpireCodes, C!DueCodes, C!Active
    <2>3. Consumed' = Consumed
      BY <1>0, <2>2 DEF Consumed
    <2> QED BY <2>1, <2>3, BookFrame
  <1>5. ASSUME NEW c \in Codes, NEW m \in Commerce, C!ConsumeCode(c, m) PROVE BooksTold'
    <2>1. PICK row : row = [reason |-> "spend", ref |-> c,
                            change |-> CodeAmount[c] - CommerceFee[m][c],
                            before |-> settlement[m],
                            after |-> settlement[m] + (CodeAmount[c] - CommerceFee[m][c])]
      OBVIOUS
    <2>2. /\ CodeAmount[c] - CommerceFee[m][c] \in Nat /\ settlement[m] \in Int
          /\ c \in Refs /\ creditLimit[m] \in Nat
      <3>1. CodeAmount[c] - CommerceFee[m][c] >= 0
        BY <1>5 DEF C!ConsumeCode, C!NetOf
      <3> QED BY <1>0, <3>1, FlowConstants, FeeConstants
    <2>3. row \in SettlementRow
      BY <2>1, <2>2 DEF SettlementRow, SettlementReasons
    <2>4. /\ settlementLog' = [settlementLog EXCEPT ![m] = Append(@, row)]
          /\ settlement' = [settlement EXCEPT ![m] = @ + (CodeAmount[c] - CommerceFee[m][c])]
          /\ cstatus[c] = "active" /\ cstatus' = [cstatus EXCEPT ![c] = "consumed"]
          /\ consumedBy' = [consumedBy EXCEPT ![c] = m]
          /\ UNCHANGED <<creditLimit, creditedBy>>
      BY <1>5, <2>1 DEF C!ConsumeCode, C!StillActive, C!PostSettlement, C!LogRow, C!NetOf
    <2>5. settlement' = [settlement EXCEPT ![m] = row.after]
      BY <2>1, <2>4
    <2>6. row.before + row.change = row.after
      BY <2>1
    <2>7. row.after >= -creditLimit[m]
      <3>1. settlement[m] >= -creditLimit[m]
        BY DEF BooksTold, BookExact
      <3> QED BY <2>1, <2>2, <3>1
    <2>8. consumedBy' \in [Codes -> Commerce \cup {NoOne}]
      BY <1>0, <2>4
    <2>9. Consumed' = Consumed \cup {c} /\ c \notin Consumed /\ consumedBy'[c] = m
          /\ \A x \in Consumed : consumedBy'[x] = consumedBy[x]
      BY <1>0, <2>4 DEF Consumed
    <2>10. CreditsDone' = CreditsDone
      BY <2>4 DEF CreditsDone
    <2>11. \A v \in Commerce : \A r : BookRow(v, r) => BookRow(v, r)'
      BY <2>4, <2>9, <2>10 DEF BookRow
    <2>12. BookRow(m, row)'
      BY <2>1, <2>9 DEF BookRow
    <2>13. \A x \in Consumed' : \/ x \in Consumed /\ consumedBy'[x] = consumedBy[x]
                                \/ x = row.ref /\ consumedBy'[x] = m
      BY <2>1, <2>9
    <2>14. \A k \in CreditsDone' : k \in CreditsDone /\ creditedBy'[k] = creditedBy[k]
      BY <2>4, <2>10
    <2>15. creditLimit' = creditLimit
      BY <2>4
    <2>16. settlementLog' = [settlementLog EXCEPT ![m] = Append(@, row)]
      BY <2>4
    <2> QED BY <2>3, <2>5, <2>6, <2>7, <2>8, <2>11, <2>12, <2>13, <2>14, <2>15, <2>16,
               BookPosts
  <1>6. ASSUME NEW k \in Credits, NEW m \in Commerce, C!CreditMember(k, m) PROVE BooksTold'
    <2> DEFINE total == CreditAmount[k] + CommerceFee[m][k]
    <2>1. PICK row : row = [reason |-> "merchant_credit", ref |-> k, change |-> -total,
                            before |-> settlement[m], after |-> settlement[m] + (-total)]
      OBVIOUS
    <2>2. /\ total \in Nat /\ -total \in Int /\ settlement[m] \in Int
          /\ k \in Refs /\ creditLimit[m] \in Nat
      BY <1>0, FlowConstants, FeeConstants
    <2>4. /\ settlementLog' = [settlementLog EXCEPT ![m] = Append(@, row)]
          /\ settlement' = [settlement EXCEPT ![m] = @ + (-total)]
          /\ creditedBy[k] = NoOne /\ creditedBy' = [creditedBy EXCEPT ![k] = m]
          /\ UNCHANGED <<creditLimit, cstatus, consumedBy>>
      BY <1>6, <2>1 DEF C!CreditMember, C!PostSettlement, C!LogRow, C!codeVars
    <2>7. row.after >= -creditLimit[m]
      <3>1. total <= settlement[m] + creditLimit[m]
        BY <1>6 DEF C!CreditMember, C!BookCovers, C!CreditLeft
      <3> HIDE DEF total
      <3> QED BY <2>1, <2>2, <3>1
    <2>12a. row.ref = k /\ row.change = -(CreditAmount[k] + CommerceFee[m][k])
      BY <2>1
    <2> HIDE DEF total
    <2>3. row \in SettlementRow
      BY <2>1, <2>2 DEF SettlementRow, SettlementReasons
    <2>5. settlement' = [settlement EXCEPT ![m] = row.after]
      BY <2>1, <2>4
    <2>6. row.before + row.change = row.after
      BY <2>1
    <2>8. consumedBy' \in [Codes -> Commerce \cup {NoOne}] /\ consumedBy' = consumedBy
      BY <1>0, <2>4
    <2>9. CreditsDone' = CreditsDone \cup {k} /\ k \notin CreditsDone /\ creditedBy'[k] = m
          /\ \A x \in CreditsDone : creditedBy'[x] = creditedBy[x]
      BY <1>0, <2>4, FlowConstants DEF CreditsDone
    <2>10. Consumed' = Consumed
      BY <2>4 DEF Consumed
    <2>11. \A v \in Commerce : \A r : BookRow(v, r) => BookRow(v, r)'
      BY <2>8, <2>9, <2>10 DEF BookRow
    <2>12. BookRow(m, row)'
      BY <2>12a, <2>9 DEF BookRow
    <2>13. \A x \in CreditsDone' : \/ x \in CreditsDone /\ creditedBy'[x] = creditedBy[x]
                                   \/ x = row.ref /\ creditedBy'[x] = m
      BY <2>1, <2>9
    <2>14. \A x \in Consumed' : x \in Consumed /\ consumedBy'[x] = consumedBy[x]
      BY <2>4, <2>10
    <2>15. creditLimit' = creditLimit
      BY <2>4
    <2>16. settlementLog' = [settlementLog EXCEPT ![m] = Append(@, row)]
      BY <2>4
    <2> QED BY <2>3, <2>5, <2>6, <2>7, <2>8, <2>11, <2>12, <2>13, <2>14, <2>15, <2>16,
               BookPosts
  <1> QED BY <1>0, <1>2, <1>3, <1>4, <1>5, <1>6 DEF C!Next

\* The back office: a settlement is logged with the value it read and the one
\* it writes, and neither it nor a limit goes below the limit of the moment.
LEMMA AdminBooks ==
    ASSUME Shapes, BooksTold, seen \in [Calls -> [value : Int, limit : Nat]], AdminStep
    PROVE  BooksTold'
  <1>0. UNCHANGED <<consumedBy, creditedBy, cstatus>>
    BY DEF AdminStep, commerceVars
  <1>1. Consumed' = Consumed /\ CreditsDone' = CreditsDone
    BY <1>0 DEF Consumed, CreditsDone
  <1>2. PICK c \in Calls : Serve(c)
    BY DEF AdminStep, AdminNext
  <1>3. Task[c] \in Tasks
    BY AdminAssumption
  <1>4. CASE ProbeKey(c) \/ AdjustBalance(c) \/ ReadMerchant(c) \/ WritePool(c) \/ Refuse(c)
    <2>1. UNCHANGED settlementVars
      BY <1>4 DEF ProbeKey, AdjustBalance, ReadMerchant, WritePool, Refuse
    <2> QED BY <1>0, <1>1, <2>1, BookFrame
  <1>5. CASE WriteSettlement(c)
    <2> DEFINE m == Task[c].on
               amount == Task[c].amount
               value == seen[c].value
    <2>1. /\ m \in Commerce /\ amount \in Int /\ value \in Int
          /\ Task[c].op = "recordManualSettlement"
      BY <1>3, <1>5 DEF WriteSettlement, Tasks
    <2>2. PICK row : row = [reason |-> "manual_settlement", ref |-> NoRef,
                            change |-> amount, before |-> value, after |-> value + amount]
      OBVIOUS
    <2>3. /\ settlementLog' = [settlementLog EXCEPT ![m] = Append(@, row)]
          /\ settlement' = [settlement EXCEPT ![m] = row.after]
          /\ row.after >= -creditLimit[m]
          /\ creditLimit' = creditLimit
      BY <1>5, <2>1, <2>2 DEF WriteSettlement, Target, WithinLimit, LogRow
    <2> HIDE DEF m, amount, value
    <2>4. row \in SettlementRow /\ row.before + row.change = row.after /\ row.ref = NoRef
      BY <2>1, <2>2 DEF SettlementRow, SettlementReasons
    <2>5. consumedBy' \in [Codes -> Commerce \cup {NoOne}]
      BY <1>0 DEF BooksTold, BooksTyped
    <2>6. /\ \A v \in Commerce : \A r : BookRow(v, r) => BookRow(v, r)'
          /\ BookRow(m, row)'
      BY <1>0, <1>1, <2>4 DEF BookRow
    <2>7. /\ \A x \in Consumed' : x \in Consumed /\ consumedBy'[x] = consumedBy[x]
          /\ \A x \in CreditsDone' : x \in CreditsDone /\ creditedBy'[x] = creditedBy[x]
      BY <1>0, <1>1
    <2> QED BY <2>1, <2>3, <2>4, <2>5, <2>6, <2>7, BookPosts
  <1>6. CASE WriteLimit(c)
    <2> DEFINE m == Task[c].on
               limit == Task[c].amount
    <2>1. m \in Commerce /\ limit \in Nat
      BY <1>3, <1>6 DEF WriteLimit, Tasks
    <2>2. /\ creditLimit' = [creditLimit EXCEPT ![m] = limit]
          /\ settlement[m] >= -limit
          /\ UNCHANGED <<settlement, settlementLog>>
      BY <1>6 DEF WriteLimit, WithinLimit
    <2> HIDE DEF m, limit
    <2>3. BooksTyped'
      BY <1>0, <2>1, <2>2 DEF BooksTold, BooksTyped
    <2>4. creditLimit \in [Commerce -> Nat]
      BY DEF BooksTold, BooksTyped
    <2>5. ASSUME NEW v \in Commerce PROVE BookExact(v)'
      <3>1. BookExact(v)
        BY DEF BooksTold
      <3>2. settlement'[v] >= -creditLimit'[v]
        BY <2>1, <2>2, <2>4, <3>1 DEF BookExact
      <3>3. \A r : BookRow(v, r)' <=> BookRow(v, r)
        BY <1>0, <1>1 DEF BookRow
      <3> QED BY <2>2, <3>1, <3>2, <3>3 DEF BookExact
    <2>6. \A v, ref : HasEntry(v, ref)' <=> HasEntry(v, ref)
      BY <2>2 DEF HasEntry
    <2> QED BY <1>0, <1>1, <2>3, <2>5, <2>6 DEF BooksTold
  <1> QED BY <1>2, <1>4, <1>5, <1>6 DEF Serve

\* Every step of every flow keeps the books told.
LEMMA BooksKept ==
    ASSUME Shapes, Fresh, BooksTold, seen \in [Calls -> [value : Int, limit : Nat]],
           [Next]_vars
    PROVE  BooksTold'
  <1>1. CASE WithdrawStep \/ TopupStep \/ UNCHANGED vars
    <2>1. UNCHANGED <<settlementVars, consumedBy, creditedBy, cstatus>>
      BY <1>1 DEF WithdrawStep, TopupStep, vars, commerceVars
    <2>2. Consumed' = Consumed
      BY <2>1 DEF Consumed
    <2> QED BY <2>1, <2>2, BookFrame
  <1> QED BY <1>1, CommerceBooks, AdminBooks DEF Next
-----------------------------------------------------------------------------
\* Pools: every row is by hand, of a top-up's transaction or of a withdrawal
\* with its merchant, and of a withdrawal that has not been reversed it is the
\* amount that was reserved.  A withdrawal that exists has its row.
PoolEntry(m, row) ==
    \/ row.ref = NoRef
    \/ \E t \in Topups : row.ref = TxId[t]
    \/ /\ row.ref \in Withdrawals /\ wmerchant[row.ref] = m
       /\ wstatus[row.ref] # "unused"
       /\ \/ row.change = -(Amount[row.ref] - WithdrawFee[m][row.ref])
          \/ wstatus[row.ref] \in {"failed", "timeout"}
HasMove(s) == \E row \in Range(cashPoolLog[wmerchant[s]]) : row.ref = s

PoolsTyped == cashPool \in [Finance -> Int] /\ cashPoolLog \in [Finance -> Seq(PoolRow)]
PoolExact(m) ==
    /\ RowsAdd(cashPoolLog[m])
    /\ cashPool[m] = LastAfter(cashPoolLog[m]) \/ SetUnlogged(m)
    /\ \A row \in Range(cashPoolLog[m]) : PoolEntry(m, row)
Routed ==
    /\ wmerchant \in [Withdrawals -> Finance \cup {NoMerchant}]
    /\ \A s \in Withdrawals :
          request[s] = "picked" \/ wstatus[s] # "unused" => wmerchant[s] \in Finance
PoolsTold ==
    /\ PoolsTyped
    /\ \A m \in Finance : PoolExact(m)
    /\ \A s \in Withdrawals : wstatus[s] # "unused" => HasMove(s)

\* A pool is left alone, set without a row, or moved with one.
PoolKept(m) == cashPool'[m] = cashPool[m] /\ cashPoolLog'[m] = cashPoolLog[m]
PoolSet(m) == cashPoolLog'[m] = cashPoolLog[m] /\ SetUnlogged(m)'
PoolMoved(m) ==
    \E row \in PoolRow : /\ cashPoolLog'[m] = Append(cashPoolLog[m], row)
                         /\ row.after = cashPool'[m]
                         /\ row.before + row.change = row.after
                         /\ PoolEntry(m, row)'

\* A step that leaves alone, sets or moves each pool keeps the pools told, when a
\* new withdrawal has its row after it.
LEMMA PoolsMove ==
    ASSUME PoolsTold, Routed', cashPool' \in [Finance -> Int],
           cashPoolLog' = [m \in Finance |-> cashPoolLog'[m]],
           \A m \in Finance : SetUnlogged(m) => SetUnlogged(m)',
           \A m \in Finance : \A r : PoolEntry(m, r) => PoolEntry(m, r)',
           \A m \in Finance : PoolKept(m) \/ PoolSet(m) \/ PoolMoved(m),
           \A s \in Withdrawals : wstatus'[s] # "unused" =>
               \/ wstatus[s] # "unused" /\ wmerchant'[s] = wmerchant[s]
               \/ HasMove(s)'
    PROVE  PoolsTold'
  <1>1. ASSUME NEW m \in Finance
        PROVE  /\ cashPoolLog'[m] \in Seq(PoolRow) /\ PoolExact(m)'
               /\ Range(cashPoolLog[m]) \subseteq Range(cashPoolLog'[m])
    <2>0. /\ cashPoolLog[m] \in Seq(PoolRow) /\ PoolExact(m)
          /\ \A r \in Range(cashPoolLog[m]) : PoolEntry(m, r)'
      BY DEF PoolsTold, PoolsTyped, PoolExact
    <2>1. CASE PoolKept(m)
      BY <2>0, <2>1 DEF PoolKept, PoolExact
    <2>2. CASE PoolSet(m)
      BY <2>0, <2>2 DEF PoolSet, PoolExact
    <2>3. CASE PoolMoved(m)
      <3>1. PICK row \in PoolRow : /\ cashPoolLog'[m] = Append(cashPoolLog[m], row)
                                   /\ row.after = cashPool'[m]
                                   /\ row.before + row.change = row.after
                                   /\ PoolEntry(m, row)'
        BY <2>3 DEF PoolMoved
      <3>2. /\ cashPoolLog'[m] \in Seq(PoolRow)
            /\ Range(cashPoolLog'[m]) = Range(cashPoolLog[m]) \cup {row}
            /\ LastAfter(cashPoolLog'[m]) = row.after
            /\ RowsAdd(cashPoolLog[m]) => RowsAdd(cashPoolLog'[m])
        BY <2>0, <3>1, RowInTable
      <3>3. \A r \in Range(cashPoolLog'[m]) : PoolEntry(m, r)'
        BY <2>0, <3>1, <3>2
      <3> QED BY <2>0, <3>1, <3>2, <3>3 DEF PoolExact
    <2> QED BY <2>1, <2>2, <2>3
  <1>2. PoolsTyped'
    BY <1>1 DEF PoolsTyped
  <1>3. ASSUME NEW s \in Withdrawals, wstatus'[s] # "unused" PROVE HasMove(s)'
    <2>1. CASE wstatus[s] # "unused" /\ wmerchant'[s] = wmerchant[s]
      <3>1. wmerchant'[s] \in Finance
        BY <1>3 DEF Routed
      <3>2. HasMove(s)
        BY <2>1 DEF PoolsTold
      <3> QED BY <1>1, <2>1, <3>1, <3>2 DEF HasMove
    <2> QED BY <1>3, <2>1
  <1> QED BY <1>1, <1>2, <1>3 DEF PoolsTold

-----------------------------------------------------------------------------
\* Top-ups: a session that exists has a merchant for good, no write reaches
\* one that does not, and the log beside the pool has a row of each credit.
TopupsRouted ==
    /\ tstatus \in [Topups -> T!TopupStatuses]
    /\ tmerchant \in [Topups -> Finance \cup {NoTopupMerchant}]
    /\ creating \subseteq Topups /\ \A t \in creating : tstatus[t] = "unused"
    /\ inFlight \subseteq Topups \X T!Operations
    /\ \A w \in inFlight : tstatus[w[1]] # "unused"
    /\ \A t \in Topups : /\ tstatus[t] = "unused" => t \notin ToppedUp
                         /\ tstatus[t] # "unused" => tmerchant[t] \in Finance
ShadowRow(m, row) == \E t \in ToppedUp : tmerchant[t] = m /\ row.ref = TxId[t]
ShadowTold ==
    /\ shadowLog \in [Finance -> Seq(PoolRow)]
    /\ \A m \in Finance : /\ RowsAdd(shadowLog[m])
                          /\ \A row \in Range(shadowLog[m]) : ShadowRow(m, row)

\* A step of flow C that credits nothing.
NoCredit ==
    /\ UNCHANGED <<cashPool, cashPoolLog, shadowLog, ToppedUp>>
    /\ \A t \in ToppedUp : tmerchant'[t] = tmerchant[t]
Credit(t, net) ==
    /\ ToppedUp' = ToppedUp \cup {t} /\ tmerchant[t] \in Finance
    /\ net \in Int
    /\ WriteCashPoolDelta(tmerchant[t], net, "topup_cash_pool", TxId[t])
    /\ shadowLog' = [shadowLog EXCEPT
           ![tmerchant[t]] = Append(@, LogRow("topup_cash_pool", TxId[t], net,
                                              cashPool[tmerchant[t]]))]
    /\ UNCHANGED tmerchant

\* Flow C credits one top-up at a time, of a merchant it was given before.
LEMMA TopupRoutes ==
    ASSUME Shapes, TopupsRouted, TopupStep
    PROVE  TopupsRouted' /\ (NoCredit \/ \E t \in Topups, net \in Int : Credit(t, net))
  <1> DEFINE Goal == TopupsRouted' /\ (NoCredit \/ \E t \in Topups, net \in Int : Credit(t, net))
  <1>0. T!Next
    BY DEF TopupStep
  <1>1. ASSUME UNCHANGED txns PROVE ToppedUp' = ToppedUp
    BY <1>1 DEF ToppedUp, T!Credited, T!CreditsOf
  <1>2. ASSUME UNCHANGED <<txns, cashPool, cashPoolLog, shadowLog, tmerchant>> PROVE NoCredit
    BY <1>1, <1>2 DEF NoCredit
  <1>3. ASSUME NEW t \in Topups, T!BeginCreate(t) \/ T!AbortCreate(t) \/ T!TopupDue(t)
        PROVE  Goal
    <2>1. /\ UNCHANGED <<txns, cashPool, cashPoolLog, shadowLog, tmerchant, tstatus, inFlight>>
          /\ \A x \in creating' : x \in creating \/ (x = t /\ tstatus[t] = "unused")
      BY <1>3 DEF T!BeginCreate, T!AbortCreate, T!TopupDue, T!walletVars, T!sessionVars
    <2>2. TopupsRouted'
      BY <1>1, <2>1 DEF TopupsRouted
    <2> QED BY <1>2, <2>1, <2>2
  <1>4. ASSUME NEW t \in Topups, NEW m \in Finance, T!FinishCreate(t, m) PROVE Goal
    <2>1. /\ t \in creating /\ creating' = creating \ {t}
          /\ tstatus' = [tstatus EXCEPT ![t] = "pending"]
          /\ tmerchant' = [tmerchant EXCEPT ![t] = m]
          /\ UNCHANGED <<txns, cashPool, cashPoolLog, shadowLog, inFlight>>
      BY <1>4 DEF T!FinishCreate, T!walletVars
    <2>2. t \notin ToppedUp /\ ToppedUp' = ToppedUp
      BY <1>1, <2>1 DEF TopupsRouted
    <2>3. \A x \in Topups \ {t} : tmerchant'[x] = tmerchant[x] /\ tstatus'[x] = tstatus[x]
      BY <2>1 DEF TopupsRouted
    <2>4. tmerchant'[t] = m /\ tstatus'[t] = "pending" /\ "pending" \in T!TopupStatuses
      BY <2>1 DEF TopupsRouted, T!TopupStatuses, T!OpenStatuses
    <2>5. NoCredit
      BY <2>1, <2>2, <2>3 DEF NoCredit, ToppedUp
    <2>6. /\ tstatus' \in [Topups -> T!TopupStatuses]
          /\ tmerchant' \in [Topups -> Finance \cup {NoTopupMerchant}]
      BY <2>1, <2>4 DEF TopupsRouted
    <2>7. \A w \in inFlight' : tstatus'[w[1]] # "unused"
      BY <2>1, <2>4 DEF TopupsRouted
    <2>8. TopupsRouted'
      BY <2>1, <2>2, <2>3, <2>4, <2>6, <2>7 DEF TopupsRouted
    <2> QED BY <2>5, <2>8
  <1>5. ASSUME NEW t \in Topups, NEW op \in T!Operations,
               T!BeginWrite(t, op) \/ T!FinishWrite(t, op) \/ T!AbandonWrite(t, op)
        PROVE  Goal
    <2>1. UNCHANGED <<txns, cashPool, cashPoolLog, shadowLog, tmerchant, creating>>
      BY <1>5 DEF T!BeginWrite, T!FinishWrite, T!AbandonWrite, T!walletVars, T!sessionVars
    <2>2. tstatus[t] # "unused"
      <3>1. CASE T!BeginWrite(t, op)
        BY <3>1 DEF T!BeginWrite, T!Accepts, T!Operations
      <3>2. CASE T!FinishWrite(t, op) \/ T!AbandonWrite(t, op)
        <4>1. <<t, op>> \in inFlight
          BY <3>2 DEF T!FinishWrite, T!AbandonWrite
        <4> QED BY <4>1 DEF TopupsRouted
      <3> QED BY <1>5, <3>1, <3>2
    <2>3. \A w \in inFlight' : w \in inFlight \/ w = <<t, op>>
      BY <1>5 DEF T!BeginWrite, T!FinishWrite, T!AbandonWrite
    <2>4. \/ tstatus' = tstatus
          \/ \E status \in T!TopupStatuses \ {"unused"} :
                tstatus' = [tstatus EXCEPT ![t] = status]
      <3>1. CASE T!FinishWrite(t, op)
        <4>1. PICK status \in T!Writes[op] : tstatus' = [tstatus EXCEPT ![t] = status]
          BY <3>1 DEF T!FinishWrite
        <4>2. status \in T!TopupStatuses \ {"unused"}
          BY DEF T!Writes, T!Operations, T!TopupStatuses, T!OpenStatuses, T!Settled
        <4> QED BY <4>1, <4>2
      <3>2. CASE T!BeginWrite(t, op) \/ T!AbandonWrite(t, op)
        BY <3>2 DEF T!BeginWrite, T!AbandonWrite, T!sessionVars
      <3> QED BY <1>5, <3>1, <3>2
    <2>5. /\ tstatus' \in [Topups -> T!TopupStatuses]
          /\ \A x \in Topups : tstatus'[x] = "unused" <=> tstatus[x] = "unused"
      BY <2>2, <2>4 DEF TopupsRouted
    <2>6. inFlight' \subseteq Topups \X T!Operations
          /\ \A w \in inFlight' : tstatus'[w[1]] # "unused"
      <3>1. \A w \in inFlight' : w \in Topups \X T!Operations /\ tstatus[w[1]] # "unused"
        BY <2>2, <2>3 DEF TopupsRouted
      <3> QED BY <2>5, <3>1
    <2>7. TopupsRouted'
      BY <1>1, <2>1, <2>5, <2>6 DEF TopupsRouted
    <2> QED BY <1>2, <2>1, <2>7
  <1>6. ASSUME (\E t \in Topups : T!CallbackFailed(t)) \/ T!ExpireStaleTopups PROVE Goal
    <2>1. UNCHANGED <<txns, cashPool, cashPoolLog, shadowLog, tmerchant, creating, inFlight>>
      BY <1>6 DEF T!CallbackFailed, T!ExpireStaleTopups, T!walletVars
    <2>2. /\ tstatus' \in [Topups -> T!TopupStatuses]
          /\ \A x \in Topups : tstatus'[x] = "unused" <=> tstatus[x] = "unused"
      <3>1. ASSUME NEW t \in Topups, T!CallbackFailed(t)
            PROVE  /\ tstatus' \in [Topups -> T!TopupStatuses]
                   /\ \A x \in Topups : tstatus'[x] = "unused" <=> tstatus[x] = "unused"
        BY <3>1 DEF T!CallbackFailed, T!Finalizable, T!OpenStatuses, T!TopupStatuses,
                    T!Settled, TopupsRouted
      <3>2. CASE T!ExpireStaleTopups
        BY <3>2 DEF T!ExpireStaleTopups, T!DueTopups, T!OpenStatuses, T!TopupStatuses,
                    TopupsRouted
      <3> QED BY <1>6, <3>1, <3>2
    <2>3. \A w \in inFlight' : tstatus'[w[1]] # "unused"
      BY <2>1, <2>2 DEF TopupsRouted
    <2>4. TopupsRouted'
      BY <1>1, <2>1, <2>2, <2>3 DEF TopupsRouted
    <2> QED BY <1>2, <2>1, <2>4
  <1>7. ASSUME NEW t \in Topups, NEW a \in ProviderAmounts, T!CallbackSuccess(t, a)
        PROVE  Goal
    <2> DEFINE m == tmerchant[t]
               net == a - TopupFee[m][a]
    <2>1. /\ Posts(Depositor[t], "topup", t, a)
          /\ tstatus' = [tstatus EXCEPT ![t] = "success"] /\ tstatus[t] # "unused"
          /\ UNCHANGED <<tmerchant, creating, inFlight>>
      BY <1>7 DEF T!CallbackSuccess, T!AppendTx, Posts, RowOf, T!Finalizable, T!OpenStatuses
    <2>2. m \in Finance /\ a \in Int
      BY <2>1, FlowConstants DEF TopupsRouted
    <2>3. net \in Int
      BY <2>2, FeeConstants
    <2>4. ToppedUp' = ToppedUp \cup {t}
      <3>1. /\ Depositor[t] \in Members /\ t \in Refs \cup {NoRef} /\ "topup" \in TxTypes
        BY FlowConstants DEF TxTypes
      <3>2. \A x \in Topups : T!Credited(x)' <=> T!Credited(x) \/ t = x
        BY <2>1, <2>2, <3>1, PostCredits
      <3> QED BY <3>2 DEF ToppedUp
    <2>5. /\ WriteCashPoolDelta(m, net, "topup_cash_pool", TxId[t])
          /\ shadowLog' = [shadowLog EXCEPT
                 ![m] = Append(@, LogRow("topup_cash_pool", TxId[t], net, cashPool[m]))]
      BY <1>7 DEF T!CallbackSuccess, T!MerchantNet, T!WriteCashPoolDelta,
                  WriteCashPoolDelta, T!LogRow, LogRow, T!poolVars, poolVars
    <2> HIDE DEF net
    <2>6. Credit(t, net)
      BY <2>1, <2>2, <2>3, <2>4, <2>5 DEF Credit
    <2>7. /\ tstatus' \in [Topups -> T!TopupStatuses]
          /\ tstatus'[t] = "success"
          /\ \A x \in Topups \ {t} : tstatus'[x] = tstatus[x]
      BY <2>1 DEF TopupsRouted, T!TopupStatuses, T!Settled
    <2>8. \A w \in inFlight' : tstatus'[w[1]] # "unused"
      BY <2>1 DEF TopupsRouted
    <2>9. \A x \in creating' : tstatus'[x] = "unused"
      BY <2>1 DEF TopupsRouted
    <2>10. TopupsRouted'
      BY <2>1, <2>2, <2>4, <2>7, <2>8, <2>9 DEF TopupsRouted
    <2> QED BY <2>3, <2>6, <2>10
  <1> HIDE DEF Goal
  <1>8. ASSUME NEW t \in Topups, T!Create(t) \/ T!Write(t) PROVE Goal
    BY <1>3, <1>4, <1>5, <1>8 DEF T!Create, T!Write
  <1>9. Goal
    BY <1>0, <1>3, <1>6, <1>7, <1>8 DEF T!Next, T!Callback
  <1> QED BY <1>9 DEF Goal

\* A log row, as every log appends it.
LEMMA RowMade ==
    ASSUME NEW reason \in PoolReasons, NEW ref \in Refs \cup {NoRef},
           NEW change \in Int, NEW before \in Int,
           NEW row, row = LogRow(reason, ref, change, before)
    PROVE  /\ row \in PoolRow /\ row.ref = ref /\ row.change = change
           /\ row.after = before + change /\ row.before + row.change = row.after
  BY DEF LogRow, PoolRow

\* No other flow credits a top-up.
LEMMA OnlyTopups ==
    ASSUME Shapes, Fresh, WithdrawStep \/ CommerceStep \/ AdminStep \/ UNCHANGED vars
    PROVE  ToppedUp' = ToppedUp
  <1>1. CASE WithdrawStep
    <2>1. ASSUME NEW s \in Withdrawals, Posts(Owner[s], "merchant_withdraw", s, -Amount[s])
          PROVE  ToppedUp' = ToppedUp
      <3>1. /\ Owner[s] \in Members /\ -Amount[s] \in Int
            /\ s \in (Refs \cup {NoRef}) \ Topups /\ "merchant_withdraw" \in TxTypes
        BY FlowConstants DEF TxTypes
      <3> QED BY <2>1, <3>1, OtherPosts
    <2> QED BY <1>1, <2>1, WithdrawEffect DEF Quiet, done
  <1>2. CASE CommerceStep
    <2>1. ASSUME NEW c \in Codes, Spends(c) PROVE ToppedUp' = ToppedUp
      <3>1. /\ Holder[c] \in Members /\ -CodeAmount[c] \in Int
            /\ c \in (Refs \cup {NoRef}) \ Topups /\ "spend" \in TxTypes
        BY FlowConstants DEF TxTypes
      <3> QED BY <2>1, <3>1, OtherPosts DEF Spends
    <2>2. ASSUME NEW k \in Credits, Grants(k) PROVE ToppedUp' = ToppedUp
      <3>1. /\ CreditTo[k] \in Members /\ CreditAmount[k] \in Int
            /\ k \in (Refs \cup {NoRef}) \ Topups /\ "merchant_credit" \in TxTypes
        BY FlowConstants DEF TxTypes
      <3> QED BY <2>2, <3>1, OtherPosts DEF Grants
    <2> QED BY <1>2, <2>1, <2>2, CommerceEffect DEF Quiet, done
  <1>3. CASE AdminStep
    <2>1. ASSUME NEW c \in Calls, Task[c].op = "adjustBalance",
                 Posts(Task[c].on, "adjustment", NoRef, Task[c].amount)
          PROVE  ToppedUp' = ToppedUp
      <3>1. /\ Task[c].on \in Members /\ Task[c].amount \in Int
            /\ NoRef \in (Refs \cup {NoRef}) \ Topups /\ "adjustment" \in TxTypes
        BY <2>1, TaskConstants, FlowConstants DEF TxTypes
      <3> QED BY <2>1, <3>1, OtherPosts
    <2> QED BY <1>3, <2>1, AdminEffect DEF Quiet, done
  <1>4. CASE UNCHANGED vars
    BY <1>4 DEF vars, walletVars, ToppedUp, T!Credited, T!CreditsOf
  <1> QED BY <1>1, <1>2, <1>3, <1>4

\* Every step keeps the top-ups with their merchants and their credits logged.
LEMMA TopupsKept ==
    ASSUME Shapes, Fresh, PoolsTold, TopupsRouted, ShadowTold, [Next]_vars
    PROVE  TopupsRouted' /\ ShadowTold' /\ ToppedUp \subseteq ToppedUp'
  <1>1. CASE TopupStep
    <2>1. TopupsRouted' /\ (NoCredit \/ \E t \in Topups, net \in Int : Credit(t, net))
      BY <1>1, TopupRoutes
    <2>2. CASE NoCredit
      BY <2>1, <2>2 DEF NoCredit, ShadowTold, ShadowRow
    <2>3. ASSUME NEW t \in Topups, NEW net \in Int, Credit(t, net)
          PROVE  ShadowTold' /\ ToppedUp \subseteq ToppedUp'
      <3>11. PICK m : m = tmerchant[t]
        OBVIOUS
      <3>1. m \in Finance /\ cashPool[m] \in Int /\ TxId[t] \in Refs \cup {NoRef}
            /\ "topup_cash_pool" \in PoolReasons
        BY <2>3, <3>11, FeeConstants DEF Credit, PoolsTold, PoolsTyped, PoolReasons
      <3>10. net \in Int
        OBVIOUS
      <3>2. PICK row : row = LogRow("topup_cash_pool", TxId[t], net, cashPool[m])
        OBVIOUS
      <3>3. row \in PoolRow /\ row.ref = TxId[t] /\ row.before + row.change = row.after
        BY <3>1, <3>2, <3>10, RowMade
      <3>4. /\ shadowLog' = [shadowLog EXCEPT ![m] = Append(@, row)]
            /\ shadowLog \in [Finance -> Seq(PoolRow)]
            /\ ToppedUp' = ToppedUp \cup {t} /\ tmerchant' = tmerchant
        BY <2>3, <3>2, <3>11 DEF Credit, ShadowTold
      <3>5. /\ shadowLog'[m] = Append(shadowLog[m], row) /\ shadowLog[m] \in Seq(PoolRow)
            /\ shadowLog' \in [Finance -> Seq(PoolRow)]
            /\ \A v \in Finance \ {m} : shadowLog'[v] = shadowLog[v]
        BY <3>1, <3>3, <3>4
      <3>6. /\ Range(shadowLog'[m]) = Range(shadowLog[m]) \cup {row}
            /\ RowsAdd(shadowLog[m]) => RowsAdd(shadowLog'[m])
        BY <3>3, <3>5, RowInTable
      <3>7. \A v, r : ShadowRow(v, r) => ShadowRow(v, r)'
        BY <3>4 DEF ShadowRow
      <3>8. ShadowRow(m, row)'
        BY <3>3, <3>4, <3>11 DEF ShadowRow
      <3>9. ASSUME NEW v \in Finance
            PROVE  RowsAdd(shadowLog'[v]) /\ \A r \in Range(shadowLog'[v]) : ShadowRow(v, r)'
        <4>1. RowsAdd(shadowLog[v]) /\ \A r \in Range(shadowLog[v]) : ShadowRow(v, r)
          BY DEF ShadowTold
        <4>2. CASE v = m
          <5>1. RowsAdd(shadowLog[m]) /\ \A r \in Range(shadowLog[m]) : ShadowRow(m, r)
            BY <4>1, <4>2
          <5>2. RowsAdd(shadowLog'[m]) /\ \A r \in Range(shadowLog'[m]) : ShadowRow(m, r)'
            BY <3>6, <3>7, <3>8, <5>1
          <5> QED BY <4>2, <5>2
        <4>3. CASE v # m
          BY <3>5, <3>7, <4>1, <4>3
        <4> QED BY <4>2, <4>3
      <3> QED BY <3>4, <3>5, <3>9 DEF ShadowTold
    <2>4. NoCredit => ToppedUp \subseteq ToppedUp'
      BY DEF NoCredit
    <2> QED BY <2>1, <2>2, <2>3, <2>4
  <1>2. CASE WithdrawStep \/ CommerceStep \/ AdminStep \/ UNCHANGED vars
    <2>1. ToppedUp' = ToppedUp
      BY <1>2, OnlyTopups
    <2>2. UNCHANGED topupVars
      BY <1>2 DEF WithdrawStep, CommerceStep, AdminStep, vars
    <2> QED BY <2>1, <2>2 DEF topupVars, TopupsRouted, ShadowTold, ShadowRow
  <1> QED BY <1>1, <1>2 DEF Next

-----------------------------------------------------------------------------
\* A withdrawal that exists stays with its merchant, and ends once.
Lasts(s) ==
    wstatus[s] # "unused" =>
       /\ wstatus'[s] # "unused" /\ wmerchant'[s] = wmerchant[s]
       /\ wstatus[s] \in {"failed", "timeout"} => wstatus'[s] = wstatus[s]
Appears(s) == wstatus[s] = "unused" /\ wstatus'[s] # "unused"

\* In flow D a withdrawal appears by its reservation only, and lasts.
LEMMA WithdrawRoutes ==
    ASSUME Shapes, Fresh, Routed, W!Next
    PROVE  /\ Routed' /\ \A s \in Withdrawals : Lasts(s)
           /\ \A s \in Withdrawals : Appears(s) => W!ReserveWithdraw(s)
  <1> DEFINE Goal == /\ Routed' /\ \A s \in Withdrawals : Lasts(s)
                     /\ \A s \in Withdrawals : Appears(s) => W!ReserveWithdraw(s)
  <1>0. /\ wstatus \in [Withdrawals -> W!Statuses]
        /\ wmerchant \in [Withdrawals -> Finance \cup {NoMerchant}]
        /\ request \in [Withdrawals -> {"idle", "checked", "picked"}]
        /\ \A s \in Withdrawals : request[s] # "idle" => wstatus[s] = "unused"
        /\ \A s \in Withdrawals :
              request[s] = "picked" \/ wstatus[s] # "unused" => wmerchant[s] \in Finance
    BY DEF Shapes, Fresh, Routed
  <1>1. ASSUME NEW s \in Withdrawals, W!CheckOpen(s) PROVE Goal
    BY <1>0, <1>1 DEF W!CheckOpen, Routed, Lasts, Appears
  <1>2. ASSUME NEW s \in Withdrawals, NEW m \in Finance, W!PickMerchant(s, m) PROVE Goal
    BY <1>0, <1>2 DEF W!PickMerchant, Routed, Lasts, Appears
  <1>3. ASSUME NEW s \in Withdrawals, W!ReserveWithdraw(s) PROVE Goal
    <2>1. /\ wmerchant' = wmerchant /\ request' = [request EXCEPT ![s] = "idle"]
          /\ wstatus' = [wstatus EXCEPT ![s] = "pending"] /\ request[s] = "picked"
      BY <1>3 DEF W!ReserveWithdraw
    <2>2. \A x \in Withdrawals : Appears(x) => x = s
      BY <1>0, <2>1 DEF Appears
    <2>3. Routed' /\ \A x \in Withdrawals : Lasts(x)
      BY <1>0, <2>1 DEF Routed, Lasts
    <2> QED BY <1>3, <2>2, <2>3
  <1>4. ASSUME NEW s \in Withdrawals, W!AbortRequest(s) PROVE Goal
    BY <1>0, <1>4 DEF W!AbortRequest, Routed, Lasts, Appears
  <1>5. ASSUME NEW s \in Withdrawals,
               W!PushRead(s) \/ W!Expire(s) \/ (\E d \in {"paid", "refused"} : W!MerchantDecides(s, d))
        PROVE  Goal
    <2>1. UNCHANGED <<wstatus, wmerchant, request>>
      BY <1>5 DEF W!PushRead, W!Expire, W!MerchantDecides, W!requestVars
    <2> QED BY <1>0, <2>1 DEF Routed, Lasts, Appears
  <1>6. ASSUME NEW s \in Withdrawals, NEW status,
               wstatus[s] \in {"pending", "sent_to_merchant"}, status # "unused",
               wstatus' = [wstatus EXCEPT ![s] = status],
               UNCHANGED <<wmerchant, request>>
        PROVE  Goal
    BY <1>0, <1>6 DEF Routed, Lasts, Appears
  <1>7. ASSUME NEW s \in Withdrawals, W!PushClaim(s) PROVE Goal
    <2>1. CASE wstatus[s] = "pending"
      BY <1>6, <1>7, <2>1 DEF W!PushClaim, W!StillPending
    <2>2. CASE wstatus[s] # "pending"
      <3>1. UNCHANGED <<wstatus, wmerchant, request>>
        BY <1>7, <2>2 DEF W!PushClaim, W!StillPending
      <3> QED BY <1>0, <3>1 DEF Routed, Lasts, Appears
    <2> QED BY <2>1, <2>2
  <1>8. ASSUME NEW s \in Withdrawals, W!FinalizeFailed(s) \/ W!FinalizeSuccess(s) PROVE Goal
    BY <1>6, <1>8 DEF W!FinalizeFailed, W!FinalizeSuccess, W!NotFinalized
  <1>9. ASSUME W!ScanWithdrawTimeouts PROVE Goal
    <2>1. /\ UNCHANGED <<wmerchant, request>>
          /\ wstatus' = [s \in Withdrawals |->
                           IF s \in W!DueSessions THEN "timeout" ELSE wstatus[s]]
          /\ \A s \in W!DueSessions : wstatus[s] \in {"pending", "sent_to_merchant"}
      BY <1>9 DEF W!ScanWithdrawTimeouts, W!DueSessions, W!Open
    <2> QED BY <1>0, <2>1 DEF Routed, Lasts, Appears
  <1> HIDE DEF Goal
  <1>10. Goal
    BY <1>1, <1>2, <1>3, <1>4, <1>5, <1>7, <1>8, <1>9
       DEF W!Next, W!Request, W!Push, W!Callback
  <1> QED BY <1>10 DEF Goal

\* A row keeps saying what it says.
LEMMA EntriesLast ==
    ASSUME \A s \in Withdrawals : Lasts(s), NEW m \in Finance, NEW r, PoolEntry(m, r)
    PROVE  PoolEntry(m, r)'
  BY DEF PoolEntry, Lasts

\* The scan reverses, at each merchant, one session it times out or none.
Reversal(m) ==
    \/ PoolKept(m)
    \/ \E s \in W!DueSessions :
          /\ wmerchant[s] = m
          /\ cashPool'[m] = cashPool[m] + W!Net(s)
          /\ cashPoolLog'[m] = Append(cashPoolLog[m],
                 LogRow("withdraw_timeout_cash_pool", s, W!Net(s), cashPool[m]))

\* The scan of withdrawals reverses at most one session at each merchant.
LEMMA ScanReverses ==
    ASSUME W!ScanWithdrawTimeouts
    PROVE  /\ cashPool' = [m \in Finance |-> cashPool'[m]]
           /\ cashPoolLog' = [m \in Finance |-> cashPoolLog'[m]]
           /\ \A m \in Finance : Reversal(m)
  <1> DEFINE MerchantOf(s) == wmerchant[s]
  <1>1. PICK returned \in W!OnePerKey(W!DueSessions, MerchantOf) :
           LET row(m) == CHOOSE s \in returned : wmerchant[s] = m
               hit(m) == \E s \in returned : wmerchant[s] = m
           IN  /\ cashPool' = [m \in Finance |->
                     IF hit(m) THEN cashPool[m] + W!Net(row(m))
                               ELSE cashPool[m]]
               /\ cashPoolLog' = [m \in Finance |->
                     IF hit(m)
                     THEN Append(cashPoolLog[m],
                                 LogRow("withdraw_timeout_cash_pool",
                                        row(m), W!Net(row(m)), cashPool[m]))
                     ELSE cashPoolLog[m]]
    BY DEF W!ScanWithdrawTimeouts, W!LogRow, LogRow
  <1>2. returned \subseteq W!DueSessions
    BY DEF W!OnePerKey
  <1>3. ASSUME NEW m \in Finance
        PROVE  Reversal(m)
    <2>1. CASE \E s \in returned : wmerchant[s] = m
      <3> DEFINE t == CHOOSE s \in returned : wmerchant[s] = m
      <3>1. t \in returned /\ wmerchant[t] = m
        BY <2>1
      <3>2. /\ cashPool'[m] = cashPool[m] + W!Net(t)
            /\ cashPoolLog'[m] = Append(cashPoolLog[m],
                   LogRow("withdraw_timeout_cash_pool", t, W!Net(t), cashPool[m]))
        BY <1>1, <2>1
      <3> HIDE DEF t
      <3> QED BY <1>2, <3>1, <3>2 DEF Reversal
    <2>2. CASE ~\E s \in returned : wmerchant[s] = m
      BY <1>1, <2>2 DEF Reversal, PoolKept
    <2> QED BY <2>1, <2>2
  <1>4. /\ cashPool' = [m \in Finance |-> cashPool'[m]]
        /\ cashPoolLog' = [m \in Finance |-> cashPoolLog'[m]]
    BY <1>1
  <1> QED BY <1>3, <1>4

\* What no step takes back.
Lasting ==
    /\ Routed'
    /\ \A m \in Finance : SetUnlogged(m) => SetUnlogged(m)'
    /\ \A m \in Finance : \A r : PoolEntry(m, r) => PoolEntry(m, r)'
Existed(s) == wstatus[s] # "unused" /\ wmerchant'[s] = wmerchant[s]

\* One pool is moved, with its row.
LEMMA PoolPosts ==
    ASSUME PoolsTold, Lasting, NEW m \in Finance, NEW row \in PoolRow,
           cashPool' = [cashPool EXCEPT ![m] = row.after],
           cashPoolLog' = [cashPoolLog EXCEPT ![m] = Append(@, row)],
           row.before + row.change = row.after, PoolEntry(m, row)',
           \A s \in Withdrawals : wstatus'[s] # "unused" =>
               Existed(s) \/ (row.ref = s /\ wmerchant'[s] = m)
    PROVE  PoolsTold'
  <1>1. /\ cashPool \in [Finance -> Int] /\ cashPoolLog \in [Finance -> Seq(PoolRow)]
        /\ row.after \in Int
    BY DEF PoolsTold, PoolsTyped, PoolRow
  <1>2. /\ cashPool' \in [Finance -> Int] /\ cashPool'[m] = row.after
        /\ cashPoolLog'[m] = Append(cashPoolLog[m], row) /\ cashPoolLog[m] \in Seq(PoolRow)
        /\ \A v \in Finance \ {m} : PoolKept(v)
    BY <1>1 DEF PoolKept
  <1>3. cashPoolLog' = [v \in Finance |-> cashPoolLog'[v]]
    BY <1>1
  <1>4. PoolMoved(m)
    BY <1>2 DEF PoolMoved
  <1>5. row \in Range(cashPoolLog'[m])
    BY <1>2, RowInTable
  <1>6. ASSUME NEW s \in Withdrawals, row.ref = s, wmerchant'[s] = m PROVE HasMove(s)'
    BY <1>5, <1>6 DEF HasMove
  <1>7. \A v \in Finance : PoolKept(v) \/ PoolSet(v) \/ PoolMoved(v)
    BY <1>2, <1>4
  <1>8. \A s \in Withdrawals : wstatus'[s] # "unused" =>
            \/ wstatus[s] # "unused" /\ wmerchant'[s] = wmerchant[s]
            \/ HasMove(s)'
    BY <1>6 DEF Existed
  <1> QED BY <1>2, <1>3, <1>7, <1>8, PoolsMove DEF Lasting

\* No pool is moved.
LEMMA PoolsStay ==
    ASSUME PoolsTold, Lasting, UNCHANGED poolVars,
           \A s \in Withdrawals : wstatus'[s] # "unused" => Existed(s)
    PROVE  PoolsTold'
  <1>1. /\ cashPool' \in [Finance -> Int] /\ \A m \in Finance : PoolKept(m)
        /\ cashPoolLog' = [m \in Finance |-> cashPoolLog'[m]]
    BY DEF PoolsTold, PoolsTyped, poolVars, PoolKept
  <1>2. \A s \in Withdrawals : wstatus'[s] # "unused" =>
            \/ wstatus[s] # "unused" /\ wmerchant'[s] = wmerchant[s]
            \/ HasMove(s)'
    BY DEF Existed
  <1> QED BY <1>1, <1>2, PoolsMove DEF Lasting

\* The net amount of a withdrawal is its amount less its commission.
LEMMA NetInt ==
    ASSUME NEW s \in Withdrawals, wmerchant[s] \in Finance
    PROVE  /\ W!Net(s) \in Int
           /\ W!Net(s) = Amount[s] - WithdrawFee[wmerchant[s]][s]
           /\ s \in Refs \cup {NoRef}
  BY FlowConstants, FeeConstants DEF W!Net, W!NetAt

\* Flow D posts the pools it moves: the reservation, the reversals and the scan.
LEMMA WithdrawPools ==
    ASSUME Shapes, Fresh, PoolsTold, Routed, WithdrawStep
    PROVE  PoolsTold' /\ Routed'
  <1>0. W!Next /\ UNCHANGED adminVars
    BY DEF WithdrawStep
  <1>1. /\ Routed' /\ \A s \in Withdrawals : Lasts(s)
        /\ \A s \in Withdrawals : Appears(s) => W!ReserveWithdraw(s)
    BY <1>0, WithdrawRoutes
  <1>2. Lasting
    BY <1>0, <1>1, EntriesLast DEF Lasting, SetUnlogged, adminVars
  <1>3. \A s \in Withdrawals : wstatus'[s] # "unused" => Existed(s) \/ Appears(s)
    BY <1>1 DEF Lasts, Existed, Appears
  <1>4. /\ cashPool \in [Finance -> Int]
        /\ wstatus \in [Withdrawals -> W!Statuses]
        /\ \A s \in Withdrawals :
              request[s] = "picked" \/ wstatus[s] # "unused" => wmerchant[s] \in Finance
    BY DEF PoolsTold, PoolsTyped, Routed, Shapes
  <1>5. ASSUME NEW s \in Withdrawals, W!ReserveWithdraw(s) PROVE PoolsTold'
    <2>1. PICK m : m = wmerchant[s]
      OBVIOUS
    <2>2. m \in Finance
      BY <1>4, <1>5, <2>1 DEF W!ReserveWithdraw
    <2>3. /\ W!Net(s) \in Int /\ W!Net(s) = Amount[s] - WithdrawFee[m][s]
          /\ s \in Refs \cup {NoRef} /\ cashPool[m] \in Int
          /\ "merchant_withdraw_cash_pool" \in PoolReasons
      BY <1>4, <2>1, <2>2, NetInt DEF PoolReasons
    <2>4. PICK row : row = LogRow("merchant_withdraw_cash_pool", s, -W!Net(s), cashPool[m])
      OBVIOUS
    <2>5. /\ row \in PoolRow /\ row.ref = s /\ row.change = -W!Net(s)
          /\ row.after = cashPool[m] - W!Net(s) /\ row.before + row.change = row.after
      <3>1. -W!Net(s) \in Int
        BY <2>3
      <3>2. /\ row \in PoolRow /\ row.ref = s /\ row.change = -W!Net(s)
            /\ row.after = cashPool[m] + -W!Net(s) /\ row.before + row.change = row.after
        BY <2>3, <2>4, <3>1, RowMade
      <3> QED BY <2>3, <3>2
    <2>6. /\ cashPool' = [cashPool EXCEPT ![m] = row.after]
          /\ cashPoolLog' = [cashPoolLog EXCEPT ![m] = Append(@, row)]
          /\ wmerchant' = wmerchant /\ wstatus' = [wstatus EXCEPT ![s] = "pending"]
      BY <1>4, <1>5, <2>1, <2>2, <2>4, <2>5 DEF W!ReserveWithdraw, W!LogRow, LogRow
    <2>7. PoolEntry(m, row)'
      <3>1. wstatus'[s] = "pending" /\ wmerchant'[s] = m
        BY <1>4, <2>1, <2>6
      <3>2. row.change = -(Amount[s] - WithdrawFee[m][s])
        BY <2>3, <2>5
      <3> QED BY <2>5, <3>1, <3>2 DEF PoolEntry
    <2>8. \A x \in Withdrawals : Appears(x) => x = s
      BY <1>4, <2>6 DEF Appears
    <2>9. \A x \in Withdrawals : wstatus'[x] # "unused" =>
              Existed(x) \/ (row.ref = x /\ wmerchant'[x] = m)
      BY <1>3, <2>1, <2>5, <2>6, <2>8
    <2> QED BY <1>2, <2>2, <2>5, <2>6, <2>7, <2>9, PoolPosts
  <1>6. ASSUME \A s \in Withdrawals : ~Appears(s), UNCHANGED poolVars PROVE PoolsTold'
    BY <1>2, <1>3, <1>6, PoolsStay
  <1>7. ASSUME NEW s \in Withdrawals, W!FinalizeFailed(s) PROVE PoolsTold'
    <2>1. PICK m : m = wmerchant[s]
      OBVIOUS
    <2>2. /\ wstatus[s] # "unused" /\ wmerchant' = wmerchant
          /\ wstatus' = [wstatus EXCEPT ![s] = "failed"]
      BY <1>7 DEF W!FinalizeFailed, W!NotFinalized
    <2>3. m \in Finance /\ \A x \in Withdrawals : ~Appears(x)
      BY <1>4, <2>1, <2>2 DEF Appears
    <2>4. /\ W!Net(s) \in Int /\ s \in Refs \cup {NoRef} /\ cashPool[m] \in Int
          /\ "withdraw_reversal_cash_pool" \in PoolReasons
      BY <1>4, <2>1, <2>3, NetInt DEF PoolReasons
    <2>5. WriteCashPoolDelta(m, W!Net(s), "withdraw_reversal_cash_pool", s)
      BY <1>7, <2>1 DEF W!FinalizeFailed, W!Reversed, W!WriteCashPoolDelta, WriteCashPoolDelta,
                        W!LogRow, LogRow, W!poolVars, poolVars
    <2>6. CASE W!Net(s) = 0
      BY <1>6, <2>3, <2>5, <2>6 DEF WriteCashPoolDelta
    <2>7. CASE W!Net(s) # 0
      <3>1. PICK row : row = LogRow("withdraw_reversal_cash_pool", s, W!Net(s), cashPool[m])
        OBVIOUS
      <3>2. /\ row \in PoolRow /\ row.ref = s /\ row.after = cashPool[m] + W!Net(s)
            /\ row.before + row.change = row.after
        BY <2>4, <3>1 DEF LogRow, PoolRow
      <3>3. /\ cashPool' = [cashPool EXCEPT ![m] = row.after]
            /\ cashPoolLog' = [cashPoolLog EXCEPT ![m] = Append(@, row)]
        BY <1>4, <2>3, <2>5, <2>7, <3>1, <3>2 DEF WriteCashPoolDelta
      <3>4. PoolEntry(m, row)'
        BY <1>4, <2>1, <2>2, <3>2 DEF PoolEntry
      <3>5. \A x \in Withdrawals : wstatus'[x] # "unused" => Existed(x)
        BY <1>3, <2>3
      <3> QED BY <1>2, <2>3, <3>2, <3>3, <3>4, <3>5, PoolPosts
    <2> QED BY <2>6, <2>7
  <1>8. ASSUME W!ScanWithdrawTimeouts PROVE PoolsTold'
    <2>1. /\ wmerchant' = wmerchant
          /\ wstatus' = [s \in Withdrawals |->
                           IF s \in W!DueSessions THEN "timeout" ELSE wstatus[s]]
          /\ W!DueSessions \subseteq Withdrawals
          /\ \A s \in W!DueSessions : wstatus[s] # "unused" /\ wstatus'[s] = "timeout"
      BY <1>8 DEF W!ScanWithdrawTimeouts, W!DueSessions, W!Open
    <2>2. \A s \in Withdrawals : wstatus'[s] # "unused" =>
              \/ wstatus[s] # "unused" /\ wmerchant'[s] = wmerchant[s]
              \/ HasMove(s)'
      BY <2>1
    <2>3. ASSUME NEW m \in Finance
          PROVE  cashPool'[m] \in Int /\ (PoolKept(m) \/ PoolMoved(m))
      <3>0. cashPool[m] \in Int
        BY <1>4
      <3>1. CASE PoolKept(m)
        BY <1>4, <3>1 DEF PoolKept
      <3>2. ASSUME NEW s \in W!DueSessions, wmerchant[s] = m,
                   cashPool'[m] = cashPool[m] + W!Net(s),
                   cashPoolLog'[m] = Append(cashPoolLog[m],
                       LogRow("withdraw_timeout_cash_pool", s, W!Net(s), cashPool[m]))
            PROVE  cashPool'[m] \in Int /\ PoolMoved(m)
        <4>1. /\ W!Net(s) \in Int /\ s \in Refs \cup {NoRef} /\ s \in Withdrawals
              /\ "withdraw_timeout_cash_pool" \in PoolReasons
          BY <2>1, <3>2, NetInt DEF PoolReasons
        <4>2. PICK row : row = LogRow("withdraw_timeout_cash_pool", s, W!Net(s), cashPool[m])
          OBVIOUS
        <4>3. /\ row \in PoolRow /\ row.ref = s /\ row.after = cashPool[m] + W!Net(s)
              /\ row.before + row.change = row.after
          BY <3>0, <4>1, <4>2 DEF LogRow, PoolRow
        <4>4. PoolEntry(m, row)'
          BY <2>1, <3>2, <4>1, <4>3 DEF PoolEntry
        <4>5. cashPoolLog'[m] = Append(cashPoolLog[m], row)
          BY <3>2, <4>2
        <4> QED BY <3>0, <3>2, <4>1, <4>3, <4>4, <4>5 DEF PoolMoved
      <3> QED BY <1>8, <3>1, <3>2, ScanReverses DEF Reversal
    <2>4. /\ cashPool' = [m \in Finance |-> cashPool'[m]]
          /\ cashPoolLog' = [m \in Finance |-> cashPoolLog'[m]]
      BY <1>8, ScanReverses
    <2>5. cashPool' \in [Finance -> Int]
      BY <2>3, <2>4
    <2> QED BY <1>2, <2>2, <2>3, <2>4, <2>5, PoolsMove DEF Lasting
  <1>9. ASSUME NEW s \in Withdrawals,
               \/ W!CheckOpen(s) \/ (\E m \in Finance : W!PickMerchant(s, m))
               \/ W!AbortRequest(s) \/ W!PushRead(s) \/ W!PushClaim(s)
               \/ (\E d \in {"paid", "refused"} : W!MerchantDecides(s, d))
               \/ W!FinalizeSuccess(s) \/ W!Expire(s)
        PROVE  PoolsTold'
    <2>1. UNCHANGED poolVars
      BY <1>9 DEF W!CheckOpen, W!PickMerchant, W!AbortRequest, W!PushRead, W!PushClaim,
                  W!MerchantDecides, W!FinalizeSuccess, W!Expire, W!walletVars, W!poolVars, poolVars
    <2>2. CASE \E x \in Withdrawals : Appears(x)
      BY <1>1, <1>5, <2>2
    <2> QED BY <1>6, <2>1, <2>2
  <1>10. PoolsTold'
    BY <1>0, <1>5, <1>7, <1>8, <1>9 DEF W!Next, W!Request, W!Push, W!Callback
  <1> QED BY <1>1, <1>10

SeenTyped == seen \in [Calls -> [value : Int, limit : Nat]]

\* A call that is done stays as it is.
LEMMA AdminSees ==
    ASSUME Shapes, BooksTold, PoolsTold, SeenTyped, AdminStep
    PROVE  SeenTyped' /\ \A m : SetUnlogged(m) => SetUnlogged(m)'
  <1> DEFINE Goal == /\ SeenTyped'
                     /\ \A d \in Calls : stage[d] = "done" =>
                           stage'[d] = "done" /\ seen'[d] = seen[d]
  <1>0. /\ stage \in [Calls -> Stages] /\ SeenTyped
        /\ cashPool \in [Finance -> Int] /\ settlement \in [Commerce -> Int]
        /\ creditLimit \in [Commerce -> Nat]
    BY DEF Shapes, BooksTold, BooksTyped, PoolsTold, PoolsTyped
  <1>1. ASSUME NEW c \in Calls, ReadMerchant(c) PROVE Goal
    <2>1. /\ stage[c] = "running" /\ stage' = [stage EXCEPT ![c] = "read"]
          /\ OnPool(c) \/ OnBook(c)
          /\ seen' = [seen EXCEPT ![c] =
                        IF OnPool(c) THEN [value |-> cashPool[Task[c].on], limit |-> 0]
                        ELSE [value |-> settlement[Task[c].on],
                              limit |-> creditLimit[Task[c].on]]]
      BY <1>1 DEF ReadMerchant
    <2>2. Task[c] \in Tasks
      BY AdminAssumption
    <2>3. CASE OnPool(c)
      <3>1. Task[c].on \in Finance
        BY <2>2, <2>3 DEF OnPool, Tasks
      <3>2. seen' = [seen EXCEPT ![c] = [value |-> cashPool[Task[c].on], limit |-> 0]]
        BY <2>1, <2>3
      <3> QED BY <1>0, <2>1, <3>1, <3>2 DEF SeenTyped
    <2>4. CASE ~OnPool(c)
      <3>1. Task[c].on \in Commerce
        BY <2>1, <2>2, <2>4 DEF OnBook, Tasks
      <3>2. seen' = [seen EXCEPT ![c] = [value |-> settlement[Task[c].on],
                                         limit |-> creditLimit[Task[c].on]]]
        BY <2>1, <2>4
      <3> QED BY <1>0, <2>1, <3>1, <3>2 DEF SeenTyped
    <2> QED BY <2>3, <2>4
  <1>2. ASSUME NEW c \in Calls, NEW next \in Stages, stage[c] # "done",
               stage' = [stage EXCEPT ![c] = next], seen' = seen
        PROVE  Goal
    BY <1>0, <1>2 DEF SeenTyped
  <1>3. ASSUME NEW c \in Calls, ProbeKey(c) PROVE Goal
    BY <1>2, <1>3 DEF ProbeKey, Stages
  <1>4. ASSUME NEW c \in Calls,
               AdjustBalance(c) \/ WritePool(c) \/ WriteSettlement(c) \/ WriteLimit(c)
        PROVE  Goal
    BY <1>2, <1>4
       DEF AdjustBalance, WritePool, WriteSettlement, WriteLimit, StoreAndCommit, Stages
  <1>5. ASSUME NEW c \in Calls, Refuse(c) PROVE Goal
    BY <1>2, <1>5 DEF Refuse, Stages
  <1> HIDE DEF Goal
  <1>6. Goal
    BY <1>1, <1>3, <1>4, <1>5 DEF AdminStep, AdminNext, Serve
  <1> QED BY <1>6 DEF Goal, SetUnlogged

\* The back office sets a pool with its row, or finds nothing to log.
LEMMA AdminPools ==
    ASSUME Shapes, BooksTold, PoolsTold, Routed, SeenTyped, AdminStep
    PROVE  PoolsTold' /\ Routed'
  <1>1. UNCHANGED <<wstatus, wmerchant, request>>
    BY DEF AdminStep, withdrawVars
  <1>2. Lasting
    BY <1>1, AdminSees DEF Lasting, Routed, PoolEntry
  <1>3. \A s \in Withdrawals : wstatus'[s] # "unused" => Existed(s)
    BY <1>1 DEF Existed
  <1>4. ASSUME NEW c \in Calls, WritePool(c) PROVE PoolsTold'
    <2>0. PICK m : m = Task[c].on
      OBVIOUS
    <2> DEFINE delta == Target(c) - seen[c].value
               reason == IF Task[c].op = "setCashPool" THEN "admin_set_cash_pool"
                                                       ELSE "admin_adjust"
    <2>1. /\ stage'[c] = "done" /\ seen' = seen
          /\ cashPool' = [cashPool EXCEPT ![m] = Target(c)]
          /\ cashPoolLog' =
                IF delta = 0 THEN cashPoolLog
                ELSE [cashPoolLog EXCEPT
                        ![m] = Append(@, LogRow(reason, NoRef, delta, seen[c].value))]
          /\ Task[c].op \in {"adjustCashPool", "setCashPool"}
      BY <1>4, <2>0 DEF WritePool, StoreAndCommit, Shapes, OnPool
    <2>2. /\ m \in Finance /\ Task[c].amount \in Int
          /\ Task[c].op = "adjustCashPool" => Task[c].amount # 0
      <3>1. Task[c] \in Tasks
        BY AdminAssumption
      <3> QED BY <2>0, <2>1, <3>1 DEF Tasks
    <2>3. seen[c].value \in Int /\ Target(c) \in Int /\ delta \in Int
          /\ reason \in PoolReasons
      <3>1. seen[c].value \in Int
        BY DEF SeenTyped
      <3>2. Target(c) \in Int
        BY <2>2, <3>1 DEF Target
      <3> QED BY <3>1, <3>2 DEF PoolReasons
    <2>4. CASE delta = 0
      <3>1. Task[c].op = "setCashPool" /\ Task[c].amount = seen[c].value
        <4>1. Target(c) = seen[c].value
          BY <2>3, <2>4
        <4>2. Task[c].op = "setCashPool"
          <5>1. SUFFICES ASSUME Task[c].op = "adjustCashPool" PROVE FALSE
            BY <2>1
          <5>2. Target(c) = seen[c].value + Task[c].amount
            BY <5>1 DEF Target
          <5> QED BY <2>2, <2>3, <4>1, <5>1, <5>2
        <4> QED BY <4>1, <4>2 DEF Target
      <3>2. SetUnlogged(m)' /\ cashPoolLog' = cashPoolLog
        BY <2>0, <2>1, <2>4, <3>1 DEF SetUnlogged
      <3> HIDE DEF delta, reason
      <3>3. /\ cashPool' \in [Finance -> Int]
            /\ \A v \in Finance \ {m} : cashPool'[v] = cashPool[v]
            /\ cashPoolLog' = [v \in Finance |-> cashPoolLog'[v]]
        BY <2>1, <2>2, <2>3, <3>2 DEF PoolsTold, PoolsTyped
      <3>4. \A v \in Finance : PoolKept(v) \/ PoolSet(v) \/ PoolMoved(v)
        BY <3>2, <3>3 DEF PoolKept, PoolSet
      <3> QED BY <1>1, <1>2, <3>3, <3>4, PoolsMove DEF Lasting
    <2>5. CASE delta # 0
      <3>1. PICK row : row = LogRow(reason, NoRef, delta, seen[c].value)
        OBVIOUS
      <3> HIDE DEF reason
      <3>2. /\ row \in PoolRow /\ row.ref = NoRef /\ row.after = Target(c)
            /\ row.before + row.change = row.after
        BY <2>3, <3>1 DEF LogRow, PoolRow
      <3>3. /\ cashPool' = [cashPool EXCEPT ![m] = row.after]
            /\ cashPoolLog' = [cashPoolLog EXCEPT ![m] = Append(@, row)]
        BY <2>1, <2>5, <3>1, <3>2
      <3>4. PoolEntry(m, row)'
        BY <3>2 DEF PoolEntry
      <3> QED BY <1>2, <1>3, <2>2, <3>2, <3>3, <3>4, PoolPosts
    <2> QED BY <2>4, <2>5
  <1>5. ASSUME NEW c \in Calls,
               \/ ProbeKey(c) \/ AdjustBalance(c) \/ ReadMerchant(c)
               \/ WriteSettlement(c) \/ WriteLimit(c) \/ Refuse(c)
        PROVE  PoolsTold'
    <2>1. UNCHANGED poolVars
      BY <1>5 DEF ProbeKey, AdjustBalance, ReadMerchant, WriteSettlement, WriteLimit, Refuse,
                  walletVars, poolVars
    <2> QED BY <1>2, <1>3, <2>1, PoolsStay
  <1>6. PoolsTold'
    BY <1>4, <1>5 DEF AdminStep, AdminNext, Serve
  <1> QED BY <1>2, <1>6 DEF Lasting

\* A top-up moves the pool of its merchant, with its row.
LEMMA TopupPools ==
    ASSUME Shapes, PoolsTold, Routed, TopupsRouted, TopupStep
    PROVE  PoolsTold' /\ Routed'
  <1>1. UNCHANGED <<wstatus, wmerchant, request, stage, seen>>
    BY DEF TopupStep, withdrawVars, adminVars
  <1>2. Lasting
    BY <1>1 DEF Lasting, Routed, PoolEntry, SetUnlogged
  <1>3. \A s \in Withdrawals : wstatus'[s] # "unused" => Existed(s)
    BY <1>1 DEF Existed
  <1>4. CASE NoCredit
    <2>1. UNCHANGED poolVars
      BY <1>4 DEF NoCredit, poolVars
    <2> QED BY <1>2, <1>3, <2>1, PoolsStay DEF Lasting
  <1>5. ASSUME NEW t \in Topups, NEW net \in Int, Credit(t, net) PROVE PoolsTold'
    <2>1. PICK m : m = tmerchant[t]
      OBVIOUS
    <2>2. /\ m \in Finance /\ cashPool[m] \in Int /\ TxId[t] \in Refs \cup {NoRef}
          /\ WriteCashPoolDelta(m, net, "topup_cash_pool", TxId[t])
          /\ "topup_cash_pool" \in PoolReasons
      BY <1>5, <2>1, FeeConstants DEF Credit, PoolsTold, PoolsTyped, PoolReasons
    <2>3. CASE net = 0
      BY <1>2, <1>3, <2>2, <2>3, PoolsStay DEF WriteCashPoolDelta
    <2>4. CASE net # 0
      <3>1. PICK row : row = LogRow("topup_cash_pool", TxId[t], net, cashPool[m])
        OBVIOUS
      <3>2. /\ row \in PoolRow /\ row.ref = TxId[t] /\ row.after = cashPool[m] + net
            /\ row.before + row.change = row.after
        BY <2>2, <3>1 DEF LogRow, PoolRow
      <3>3. /\ cashPool' = [cashPool EXCEPT ![m] = row.after]
            /\ cashPoolLog' = [cashPoolLog EXCEPT ![m] = Append(@, row)]
        BY <2>2, <2>4, <3>1, <3>2 DEF WriteCashPoolDelta
      <3>4. PoolEntry(m, row)'
        BY <3>2 DEF PoolEntry
      <3> QED BY <1>2, <1>3, <2>2, <3>2, <3>3, <3>4, PoolPosts
    <2> QED BY <2>3, <2>4
  <1>6. NoCredit \/ \E t \in Topups, net \in Int : Credit(t, net)
    BY TopupRoutes
  <1> QED BY <1>2, <1>4, <1>5, <1>6 DEF Lasting

\* What the checks read, and what holds it together.
AuditInv == /\ ExplainInv /\ HoldInv
            /\ TxnsTold /\ TxnsAdd /\ BooksTold
            /\ PoolsTold /\ Routed /\ SeenTyped
            /\ TopupsRouted /\ ShadowTold

\* Every step of every flow keeps what the checks read.
LEMMA AuditKept ==
    ASSUME AuditInv, [Next]_vars
    PROVE  AuditInv'
  <1>0. /\ Shapes /\ Fresh /\ ExplainInv /\ HoldInv /\ TxnsTold /\ TxnsAdd /\ BooksTold
        /\ PoolsTold /\ Routed /\ SeenTyped /\ TopupsRouted /\ ShadowTold
    BY DEF AuditInv, ExplainInv
  <1>1. ExplainInv' /\ HoldInv' /\ TxnsTold' /\ TxnsAdd' /\ TopupsRouted' /\ ShadowTold'
    BY <1>0, ExplainKept, HoldsKept, TxnsKept, TopupsKept
  <1>2. BooksTold'
    BY <1>0, BooksKept DEF SeenTyped
  <1>3. PoolsTold' /\ Routed'
    <2>1. CASE CommerceStep \/ UNCHANGED vars
      <3>1. UNCHANGED <<poolVars, wstatus, wmerchant, request, stage, seen>>
        BY <2>1 DEF CommerceStep, vars, walletVars, poolVars, withdrawVars, adminVars
      <3>2. Lasting /\ \A s \in Withdrawals : wstatus'[s] # "unused" => Existed(s)
        BY <1>0, <3>1 DEF Lasting, Routed, PoolEntry, SetUnlogged, Existed
      <3> QED BY <1>0, <3>1, <3>2, PoolsStay DEF Lasting
    <2> QED BY <1>0, <2>1, WithdrawPools, TopupPools, AdminPools DEF Next
  <1>4. SeenTyped'
    <2>1. CASE WithdrawStep \/ TopupStep \/ CommerceStep \/ UNCHANGED vars
      <3>1. seen' = seen
        BY <2>1 DEF WithdrawStep, TopupStep, CommerceStep, vars, adminVars
      <3> QED BY <1>0, <3>1 DEF SeenTyped
    <2> QED BY <1>0, <2>1, AdminSees DEF Next
  <1> QED BY <1>1, <1>2, <1>3, <1>4 DEF AuditInv

\* A table without rows adds up to 0.
LEMMA NoChanges == Changes(<< >>) = 0
  <1>1. 1 .. Len(<< >>) = {}
    OBVIOUS
  <1> DEFINE f == [i \in 1 .. Len(<< >>) |-> << >>[i].change]
  <1>2. DOMAIN f = {}
    BY <1>1
  <1>3. Changes(<< >>) = SumFunctionOnSet(f, DOMAIN f)
    BY DEF Changes, SumFunction
  <1> HIDE DEF f
  <1> QED BY <1>2, <1>3, SumEmpty

\* The opening balances, books and pools have their opening rows.
LEMMA AuditOpens == Init => AuditInv
  <1> SUFFICES ASSUME Init PROVE AuditInv
    OBVIOUS
  <1>1. ExplainInv /\ HoldInv /\ Shapes
    BY ExplainOpens, HoldsOpen DEF ExplainInv
  <1>2. /\ balance = OpeningBalance
        /\ txns = [u \in Members |->
                     IF OpeningBalance[u] = 0 THEN << >>
                     ELSE << [type |-> "adjustment", ref |-> NoRef,
                              change |-> OpeningBalance[u],
                              after |-> OpeningBalance[u]] >>]
        /\ cashPool = OpeningPool
        /\ cashPoolLog = [m \in Finance |->
                            IF OpeningPool[m] = 0 THEN << >>
                            ELSE << LogRow("admin_set_cash_pool", NoRef,
                                           OpeningPool[m], 0) >>]
        /\ settlement = OpeningSettlement /\ creditLimit = OpeningLimit
        /\ settlementLog = [m \in Commerce |->
                              IF OpeningSettlement[m] = 0 THEN << >>
                              ELSE << LogRow("manual_settlement", NoRef,
                                             OpeningSettlement[m], 0) >>]
        /\ wstatus = [s \in Withdrawals |-> "unused"]
        /\ wmerchant = [s \in Withdrawals |-> NoMerchant]
        /\ request = [s \in Withdrawals |-> "idle"]
        /\ tstatus = [s \in Topups |-> "unused"]
        /\ tmerchant = [s \in Topups |-> NoTopupMerchant]
        /\ creating = {} /\ inFlight = {} /\ shadowLog = [m \in Finance |-> << >>]
        /\ seen = [c \in Calls |-> [value |-> 0, limit |-> 0]]
    BY DEF Init, WalletInit, AccountsInit, SettlementInit, W!WithdrawInit, T!TopupInit,
           AdminInit
  <1>3. /\ Consumed = {} /\ CreditsDone = {} /\ consumedBy \in [Codes -> Commerce \cup {NoOne}]
    BY DEF Init, C!CommerceInit, Consumed, CreditsDone
  <1>4. Succeeded = {}
    BY <1>2 DEF Succeeded
  <1>5. ASSUME NEW u \in Members
        PROVE  /\ \A row \in Range(txns[u]) : Told(u, row)
               /\ \A row \in Range(txns[u]) : row.ref = NoRef
               /\ balance[u] = Changes(txns[u])
    <2>1. PICK row : row = [type |-> "adjustment", ref |-> NoRef,
                            change |-> OpeningBalance[u], after |-> OpeningBalance[u]]
      OBVIOUS
    <2>2. txns[u] = IF OpeningBalance[u] = 0 THEN << >> ELSE << row >>
      BY <1>2, <2>1
    <2>3. /\ row \in TxRow /\ row.type = "adjustment" /\ row.ref = NoRef
          /\ row.change = OpeningBalance[u] /\ OpeningBalance[u] \in Int
      BY <2>1, FlowConstants DEF TxRow, TxTypes
    <2>4. CASE OpeningBalance[u] = 0
      <3>1. txns[u] = << >>
        BY <2>2, <2>4
      <3> QED BY <1>2, <2>4, <3>1, NoChanges DEF Range
    <2>5. CASE OpeningBalance[u] # 0
      <3>1. txns[u] = << row >> /\ << row >> = Append(<< >>, row) /\ << >> \in Seq(TxRow)
        BY <2>2, <2>5
      <3>2. Range(txns[u]) = {row}
        <4>1. Range(Append(<< >>, row)) = Range(<< >>) \cup {row}
          <5>1. PICK none : none = << >>
            OBVIOUS
          <5>2. Range(Append(none, row)) = Range(none) \cup {row}
            <6>1. none \in Seq(TxRow) /\ row \in TxRow
              BY <2>3, <3>1, <5>1
            <6> QED BY <6>1, RowInTable
          <5> QED BY <5>1, <5>2
        <4>2. Range(<< >>) = {}
          BY DEF Range
        <4> QED BY <3>1, <4>1, <4>2
      <3>3. Changes(txns[u]) = row.change + Changes(<< >>)
        BY <2>3, <3>1, ChangesGrow
      <3>4. \A r \in Range(txns[u]) : r.type = "adjustment" /\ r.ref = NoRef
        BY <2>3, <3>2
      <3> QED BY <1>2, <2>3, <3>3, <3>4, NoChanges DEF Told, TxTypes
    <2> QED BY <2>4, <2>5
  <1>6. TxnsTold /\ TxnsAdd
    BY <1>3, <1>4, <1>5 DEF TxnsTold, TxnsAdd
  <1>7. ASSUME NEW m \in Commerce
        PROVE  settlementLog[m] \in Seq(SettlementRow) /\ BookExact(m)
    <2>1. PICK row : row = LogRow("manual_settlement", NoRef, OpeningSettlement[m], 0)
      OBVIOUS
    <2>2. /\ OpeningSettlement[m] \in Int /\ OpeningLimit[m] \in Nat
          /\ OpeningSettlement[m] >= -OpeningLimit[m]
      BY SettlementAssumption
    <2>3. /\ row \in SettlementRow /\ row.ref = NoRef /\ row.after = OpeningSettlement[m]
          /\ row.before + row.change = row.after
      BY <2>1, <2>2 DEF LogRow, SettlementRow, SettlementReasons
    <2>4. settlementLog[m] = IF OpeningSettlement[m] = 0 THEN << >> ELSE << row >>
      BY <1>2, <2>1
    <2>5. << row >> # << >>
      <3>1. Len(<< row >>) = 1 /\ Len(<< >>) = 0
        OBVIOUS
      <3> QED BY <3>1
    <2>6. /\ settlementLog[m] \in Seq(SettlementRow) /\ Range(settlementLog[m]) \subseteq {row}
          /\ LastAfter(settlementLog[m])
                = IF settlementLog[m] = << >> THEN 0 ELSE row.after
          /\ RowsAdd(settlementLog[m])
      BY <2>3, <2>4, OpeningTable
    <2>7. settlement[m] = LastAfter(settlementLog[m]) /\ settlement[m] >= -creditLimit[m]
      BY <1>2, <2>2, <2>3, <2>4, <2>5, <2>6
    <2> QED BY <2>3, <2>6, <2>7 DEF BookExact, BookRow
  <1>8. BooksTyped
    <2>1. settlement \in [Commerce -> Int] /\ creditLimit \in [Commerce -> Nat]
      BY <1>2, SettlementAssumption
    <2>2. settlementLog \in [Commerce -> Seq(SettlementRow)]
      BY <1>2, <1>7
    <2> QED BY <1>3, <2>1, <2>2 DEF BooksTyped
  <1>9. BooksTold
    BY <1>3, <1>7, <1>8 DEF BooksTold
  <1>10. ASSUME NEW m \in Finance
         PROVE  cashPoolLog[m] \in Seq(PoolRow) /\ PoolExact(m)
    <2>1. PICK row : row = LogRow("admin_set_cash_pool", NoRef, OpeningPool[m], 0)
      OBVIOUS
    <2>2. OpeningPool[m] \in Int
      BY WalletAssumption
    <2>3. /\ row \in PoolRow /\ row.ref = NoRef /\ row.after = OpeningPool[m]
          /\ row.before + row.change = row.after
      BY <2>1, <2>2 DEF LogRow, PoolRow, PoolReasons
    <2>4. cashPoolLog[m] = IF OpeningPool[m] = 0 THEN << >> ELSE << row >>
      BY <1>2, <2>1
    <2>5. << row >> # << >>
      <3>1. Len(<< row >>) = 1 /\ Len(<< >>) = 0
        OBVIOUS
      <3> QED BY <3>1
    <2>6. /\ cashPoolLog[m] \in Seq(PoolRow) /\ Range(cashPoolLog[m]) \subseteq {row}
          /\ LastAfter(cashPoolLog[m]) = IF cashPoolLog[m] = << >> THEN 0 ELSE row.after
          /\ RowsAdd(cashPoolLog[m])
      BY <2>3, <2>4, OpeningTable
    <2>7. cashPool[m] = LastAfter(cashPoolLog[m])
      BY <1>2, <2>2, <2>3, <2>4, <2>5, <2>6
    <2> QED BY <2>3, <2>6, <2>7 DEF PoolExact, PoolEntry
  <1>11. PoolsTold /\ Routed /\ SeenTyped
    <2>1. PoolsTyped
      BY <1>2, <1>10, WalletAssumption DEF PoolsTyped
    <2> QED BY <1>2, <1>10, <2>1 DEF PoolsTold, Routed, SeenTyped
  <1>12. TopupsRouted /\ ShadowTold
    <2>1. ASSUME NEW t \in Topups PROVE t \notin ToppedUp
      <3>1. Depositor[t] \in Members /\ t # NoRef
        BY FlowConstants
      <3>2. ASSUME T!Credited(t) PROVE FALSE
        <4>1. PICK i \in 1 .. Len(txns[Depositor[t]]) : txns[Depositor[t]][i].ref = t
          BY <3>2 DEF T!Credited, T!CreditsOf
        <4>2. txns[Depositor[t]][i] \in Range(txns[Depositor[t]])
          BY <1>1, <3>1, <4>1 DEF Range, Shapes
        <4> QED BY <1>5, <3>1, <4>1, <4>2
      <3> QED BY <3>2 DEF ToppedUp
    <2>2. TopupsRouted
      BY <1>2, <2>1 DEF TopupsRouted, T!TopupStatuses
    <2>3. \A m \in Finance : shadowLog[m] = << >>
      BY <1>2
    <2>4. Range(<< >>) = {} /\ RowsAdd(<< >>) /\ << >> \in Seq(PoolRow)
      BY DEF Range, RowsAdd
    <2> QED BY <1>2, <2>2, <2>3, <2>4 DEF ShadowTold
  <1> QED BY <1>1, <1>6, <1>9, <1>11, <1>12 DEF AuditInv

-----------------------------------------------------------------------------
\* What is in the tables a check joins.
LEMMA TablesHold ==
    ASSUME AuditInv
    PROVE  /\ \A row : row \in TxRows <=> \E u \in Members : row \in Range(txns[u])
           /\ \A entry : entry \in AllRows(SettlementRows) <=>
                 \/ \E m \in Commerce : entry \in Range(settlementLog[m])
                 \/ \E m \in Finance : entry \in Range(shadowLog[m])
           /\ \A entry : entry \in AllRows(cashPoolLog) <=>
                 \E m \in Finance : entry \in Range(cashPoolLog[m])
  <1>1. DOMAIN txns = Members /\ DOMAIN cashPoolLog = Finance
    BY DEF AuditInv, ExplainInv, Shapes, PoolsTold, PoolsTyped
  <1>2. /\ DOMAIN SettlementRows = Commerce \cup Finance
        /\ \A m \in Commerce : SettlementRows[m] = settlementLog[m]
        /\ \A m \in Finance : SettlementRows[m] = shadowLog[m]
    BY FeeConstants DEF SettlementRows
  <1>3. \A row : row \in TxRows <=> \E u \in Members : row \in Range(txns[u])
    BY <1>1 DEF TxRows, AllRows
  <1>4. \A entry : entry \in AllRows(cashPoolLog) <=>
                 \E m \in Finance : entry \in Range(cashPoolLog[m])
    BY <1>1 DEF AllRows
  <1>5. \A entry : entry \in AllRows(SettlementRows) <=>
                 \E m \in Commerce \cup Finance : entry \in Range(SettlementRows[m])
    BY <1>2 DEF AllRows
  <1>6. \A entry : entry \in AllRows(SettlementRows) <=>
                 \/ \E m \in Commerce : entry \in Range(settlementLog[m])
                 \/ \E m \in Finance : entry \in Range(shadowLog[m])
    BY <1>2, <1>5
  <1> QED BY <1>3, <1>4, <1>6

\* The rows of the columns and the chains.
LEMMA BalanceCheck ==
    ASSUME AuditInv
    PROVE  Reports("member_balance_vs_tx_sum") = {}
  <1>1. \A u \in Members : balance[u] \in Int /\ balance[u] = TxSum(u)
    BY DEF AuditInv, TxnsAdd, Changes, TxSum, ExplainInv, Shapes
  <1>2. \A u \in Members : balance[u] - TxSum(u) = 0
    BY <1>1
  <1> QED BY <1>2 DEF Reports, Off

\* What is reserved beyond the active codes is the open withdrawal: HoldInv.
LEMMA ReservedCheck ==
    ASSUME AuditInv
    PROVE  Reports("member_reserved_vs_active_codes")
              = {<<u, SumFunctionOnSet(Amount, W!OpenOf(u))>> :
                    u \in {v \in Members : W!OpenOf(v) # {}}}
  <1>1. ASSUME NEW u \in Members
        PROVE  LET off == reserved[u] - C!ReservedForCodes(u)
               IN  /\ off = SumFunctionOnSet(Amount, W!OpenOf(u))
                   /\ off # 0 <=> W!OpenOf(u) # {}
    <2> DEFINE open == W!OpenOf(u)
               active == C!ActiveOf(u)
               mine == {h \in Holding : HoldOwner[h] = u}
    <2>1. open \subseteq Withdrawals /\ active \subseteq Codes /\ mine = open \cup active
      BY HoldConstants DEF W!OpenOf, W!Open, C!ActiveOf, C!Active, Holding
    <2>2. /\ IsFiniteSet(open) /\ IsFiniteSet(active) /\ open \cap active = {}
          /\ \A h \in open \cup active : HoldAmount[h] \in Int
          /\ \A h \in open : HoldAmount[h] = Amount[h] /\ Amount[h] \in Nat \ {0}
          /\ \A h \in active : HoldAmount[h] = CodeAmount[h]
      BY <2>1, HoldConstants, FlowConstants, FiniteConstants, FS_Subset
    <2>3. reserved[u] = SumFunctionOnSet(HoldAmount, mine)
      BY DEF AuditInv, HoldInv, Covered, Held, SumFor
    <2>4. C!ReservedForCodes(u) = SumFunctionOnSet(CodeAmount, active)
      BY CommerceSums DEF C!ReservedForCodes
    <2> HIDE DEF open, active, mine
    <2>5. SumFunctionOnSet(HoldAmount, open \cup active)
             = SumFunctionOnSet(HoldAmount, open) + SumFunctionOnSet(HoldAmount, active)
      BY <2>2, SumUnion
    <2>6. /\ SumFunctionOnSet(HoldAmount, open) = SumFunctionOnSet(Amount, open)
          /\ SumFunctionOnSet(HoldAmount, active) = SumFunctionOnSet(CodeAmount, active)
      BY <2>2, SumSame
    <2>7. /\ SumFunctionOnSet(HoldAmount, open) \in Int
          /\ SumFunctionOnSet(HoldAmount, active) \in Int
      BY <2>2, SumInt
    <2>8. reserved[u] - C!ReservedForCodes(u) = SumFunctionOnSet(Amount, open)
      BY <2>1, <2>3, <2>4, <2>5, <2>6, <2>7
    <2>9. ASSUME NEW h \in open PROVE SumFunctionOnSet(Amount, open) # 0
      <3>1. \A i \in open : Amount[i] \in Int /\ Amount[i] \in Nat
        BY <2>2
      <3>2. SumFunctionOnSet(Amount, open \ {h}) \in Nat
        <4>1. IsFiniteSet(open \ {h})
          BY <2>2, FS_Subset
        <4> QED BY <3>1, <4>1, SumNat
      <3>3. SumFunctionOnSet(Amount, open) = Amount[h] + SumFunctionOnSet(Amount, open \ {h})
        BY <2>2, <3>1, SumRemove
      <3> QED BY <2>2, <3>2, <3>3
    <2>10. open = {} => SumFunctionOnSet(Amount, open) = 0
      BY SumEmpty
    <2> QED BY <2>8, <2>9, <2>10 DEF open
  <1>2. Reports("member_reserved_vs_active_codes")
           = {<<u, reserved[u] - C!ReservedForCodes(u)>> :
                u \in {v \in Members : reserved[v] - C!ReservedForCodes(v) # 0}}
    BY DEF Reports, Off
  <1> QED BY <1>1, <1>2

\* A book is where its log ends; a finance merchant has a log and no book.
LEMMA BookCheck ==
    ASSUME AuditInv
    PROVE  Reports("merchant_settlement_balance_vs_log")
              = {<<m, -LastAfter(shadowLog[m])>> : m \in
                   {f \in Finance : /\ \E t \in Topups : tmerchant[t] = f /\ T!Credited(t)
                                    /\ LastAfter(shadowLog[f]) # 0}}
  <1> DEFINE off(m) == SettlementColumn[m] - LastAfter(SettlementRows[m])
             found == {f \in Finance : /\ \E t \in Topups : tmerchant[t] = f /\ T!Credited(t)
                                       /\ LastAfter(shadowLog[f]) # 0}
  <1>1. ASSUME NEW m \in Commerce PROVE off(m) = 0
    <2>1. settlement[m] = LastAfter(settlementLog[m]) /\ settlement[m] \in Int
      BY DEF AuditInv, BooksTold, BooksTyped, BookExact
    <2>2. SettlementColumn[m] = settlement[m] /\ SettlementRows[m] = settlementLog[m]
      BY DEF SettlementColumn, SettlementRows
    <2> QED BY <2>1, <2>2
  <1>2. ASSUME NEW m \in Finance
        PROVE  /\ off(m) = -LastAfter(shadowLog[m])
               /\ off(m) # 0 <=> m \in found
    <2>1. SettlementColumn[m] = 0 /\ SettlementRows[m] = shadowLog[m]
      BY FeeConstants DEF SettlementColumn, SettlementRows
    <2>2. shadowLog[m] \in Seq(PoolRow)
      BY DEF AuditInv, ShadowTold
    <2>3. LastAfter(shadowLog[m]) \in Int
          /\ (LastAfter(shadowLog[m]) # 0
                => \E t \in Topups : tmerchant[t] = m /\ T!Credited(t))
      <3>1. CASE shadowLog[m] = << >>
        BY <3>1 DEF LastAfter
      <3>2. CASE shadowLog[m] # << >>
        <4>1. Len(shadowLog[m]) \in 1 .. Len(shadowLog[m])
          BY <2>2, <3>2
        <4>2. PICK row : row = shadowLog[m][Len(shadowLog[m])]
          OBVIOUS
        <4>3. row \in Range(shadowLog[m]) /\ row \in PoolRow
              /\ LastAfter(shadowLog[m]) = row.after
          BY <2>2, <3>2, <4>1, <4>2 DEF Range, LastAfter
        <4>4. ShadowRow(m, row)
          BY <4>3 DEF AuditInv, ShadowTold
        <4> QED BY <4>3, <4>4 DEF ShadowRow, ToppedUp, PoolRow
      <3> QED BY <3>1, <3>2
    <2>4. off(m) = 0 - LastAfter(shadowLog[m])
      BY <2>1
    <2>5. \A x \in Int : -x = 0 - x /\ (0 - x # 0 <=> x # 0)
      OBVIOUS
    <2> HIDE DEF off
    <2> QED BY <2>3, <2>4, <2>5
  <1>3. Reports("merchant_settlement_balance_vs_log")
           = {<<m, off(m)>> : m \in {x \in Commerce \cup Finance : off(x) # 0}}
    BY DEF Reports, Off
  <1> HIDE DEF off
  <1>4. {x \in Commerce \cup Finance : off(x) # 0} = found
    BY <1>1, <1>2
  <1>5. \A m \in found : off(m) = -LastAfter(shadowLog[m])
    BY <1>2
  <1> QED BY <1>3, <1>4, <1>5

\* A pool is where its log ends, unless a set found nothing to log.
LEMMA PoolCheck ==
    ASSUME AuditInv
    PROVE  Reports("merchant_cash_pool_vs_log")
              = {<<m, cashPool[m] - LastAfter(cashPoolLog[m])>> : m \in
                   {f \in Finance : SetUnlogged(f) /\ cashPool[f] # LastAfter(cashPoolLog[f])}}
  <1>1. ASSUME NEW m \in Finance
        PROVE  cashPool[m] - LastAfter(cashPoolLog[m]) # 0
                  <=> SetUnlogged(m) /\ cashPool[m] # LastAfter(cashPoolLog[m])
    <2>1. /\ cashPool[m] = LastAfter(cashPoolLog[m]) \/ SetUnlogged(m)
          /\ cashPool[m] \in Int /\ cashPoolLog[m] \in Seq(PoolRow)
      BY DEF AuditInv, PoolsTold, PoolsTyped, PoolExact
    <2>2. LastAfter(cashPoolLog[m]) \in Int
      <3>1. CASE cashPoolLog[m] = << >>
        BY <3>1 DEF LastAfter
      <3>2. CASE cashPoolLog[m] # << >>
        <4>1. cashPoolLog[m][Len(cashPoolLog[m])] \in PoolRow
          BY <2>1, <3>2
        <4>2. \A row \in PoolRow : row.after \in Int
          BY DEF PoolRow
        <4> QED BY <3>2, <4>1, <4>2 DEF LastAfter
      <3> QED BY <3>1, <3>2
    <2> QED BY <2>1, <2>2
  <1>2. Reports("merchant_cash_pool_vs_log")
           = {<<m, cashPool[m] - LastAfter(cashPoolLog[m])>> : m \in
                {x \in Finance : cashPool[x] - LastAfter(cashPoolLog[x]) # 0}}
    BY DEF Reports, Off
  <1> QED BY <1>1, <1>2

\* Limits are kept, and the rows of the books and of the pools add up.
LEMMA ChainChecks ==
    ASSUME AuditInv
    PROVE  /\ Reports("merchant_credit_limit_breach") = {}
           /\ Reports("settlement_log_chain") = {}
           /\ Reports("cash_pool_log_chain") = {}
  <1>1. \A m \in Commerce : ~(settlement[m] < -creditLimit[m])
    <2>1. ASSUME NEW m \in Commerce PROVE ~(settlement[m] < -creditLimit[m])
      <3>1. /\ settlement[m] \in Int /\ creditLimit[m] \in Nat
            /\ settlement[m] >= -creditLimit[m]
        BY DEF AuditInv, BooksTold, BooksTyped, BookExact
      <3> QED BY <3>1
    <2> QED BY <2>1
  <1>2. \A m \in Commerce \cup Finance : RowsAdd(SettlementRows[m])
    BY FeeConstants DEF SettlementRows, AuditInv, BooksTold, BookExact, ShadowTold
  <1>3. \A m \in Finance : RowsAdd(cashPoolLog[m])
    BY DEF AuditInv, PoolsTold, PoolExact
  <1> QED BY <1>1, <1>2, <1>3 DEF Reports

\* What a row of a flow, and the log rows that refer to it, say.
LEMMA RowsSay ==
    ASSUME AuditInv
    PROVE  /\ \A row \in TxRows : row.type \in TxTypes
           /\ \A row \in TxRowsOf("spend") :
                 row.ref \in Consumed /\ row.change = -CodeAmount[row.ref]
           /\ \A row \in TxRowsOf("merchant_credit") :
                 row.ref \in CreditsDone /\ row.change = CreditAmount[row.ref]
           /\ \A row \in TxRowsOf("merchant_withdraw") :
                 row.ref \in Succeeded /\ row.change = -Amount[row.ref]
           /\ \A row \in TxRowsOf("topup") : row.ref \in ToppedUp
           /\ \A c \in Consumed : \E row \in TxRowsOf("spend") : row.ref = c
           /\ \A k \in CreditsDone : \E row \in TxRowsOf("merchant_credit") : row.ref = k
           /\ \A s \in Succeeded : \E row \in TxRowsOf("merchant_withdraw") : row.ref = s
           /\ \A t \in ToppedUp : \E row \in TxRowsOf("topup") : row.ref = t
  <1>1. /\ \A row : row \in TxRows <=> \E u \in Members : row \in Range(txns[u])
        /\ TxnsTold /\ txns \in [Members -> Seq(TxRow)]
    BY TablesHold DEF AuditInv, ExplainInv, Shapes
  <1>2. \A row \in TxRows : \E u \in Members : row \in Range(txns[u]) /\ Told(u, row)
    BY <1>1 DEF TxnsTold
  <1>3. /\ \A row \in TxRows : row.type \in TxTypes
        /\ \A row \in TxRowsOf("spend") :
              row.ref \in Consumed /\ row.change = -CodeAmount[row.ref]
        /\ \A row \in TxRowsOf("merchant_credit") :
              row.ref \in CreditsDone /\ row.change = CreditAmount[row.ref]
        /\ \A row \in TxRowsOf("merchant_withdraw") :
              row.ref \in Succeeded /\ row.change = -Amount[row.ref]
    BY <1>2 DEF Told, TxRowsOf
  <1>4. ASSUME NEW row \in TxRowsOf("topup") PROVE row.ref \in ToppedUp
    <2>1. PICK u \in Members : row \in Range(txns[u]) /\ Told(u, row)
      BY <1>2, <1>4 DEF TxRowsOf
    <2>2. row.ref \in Topups /\ Depositor[row.ref] = u
      BY <1>4, <2>1 DEF Told, TxRowsOf
    <2>3. \E i \in 1 .. Len(txns[u]) : txns[u][i].ref = row.ref
      BY <1>1, <2>1 DEF Range
    <2> QED BY <2>2, <2>3 DEF ToppedUp, T!Credited, T!CreditsOf
  <1>5. ASSUME NEW u \in Members, NEW type, NEW ref, HasTx(u, type, ref)
        PROVE  \E row \in TxRowsOf(type) : row.ref = ref
    BY <1>1, <1>5 DEF HasTx, TxRowsOf
  <1>6. /\ \A c \in Consumed : \E row \in TxRowsOf("spend") : row.ref = c
        /\ \A k \in CreditsDone : \E row \in TxRowsOf("merchant_credit") : row.ref = k
        /\ \A s \in Succeeded : \E row \in TxRowsOf("merchant_withdraw") : row.ref = s
    BY <1>1, <1>5, FlowConstants DEF TxnsTold, Consumed, CreditsDone, Succeeded
  <1>7. ASSUME NEW t \in ToppedUp PROVE \E row \in TxRowsOf("topup") : row.ref = t
    <2>1. t \in Topups /\ Depositor[t] \in Members
      BY FlowConstants DEF ToppedUp
    <2>2. PICK i \in 1 .. Len(txns[Depositor[t]]) : txns[Depositor[t]][i].ref = t
      BY DEF ToppedUp, T!Credited, T!CreditsOf
    <2>3. PICK row : row = txns[Depositor[t]][i]
      OBVIOUS
    <2>4. row \in Range(txns[Depositor[t]]) /\ row.ref = t
      BY <1>1, <2>1, <2>2, <2>3 DEF Range
    <2>5. row \in TxRows /\ Told(Depositor[t], row)
      BY <1>1, <2>1, <2>4 DEF TxnsTold
    <2>6. row.type = "topup"
      BY <2>1, <2>4, <2>5, FlowConstants
         DEF Told, TxTypes, Consumed, CreditsDone, Succeeded
    <2> QED BY <2>4, <2>5, <2>6 DEF TxRowsOf
  <1> QED BY <1>3, <1>4, <1>6, <1>7

\* The log rows a transaction is joined with, for each type.
LEMMA EntriesSay ==
    ASSUME AuditInv
    PROVE  /\ \A c \in Consumed : \E entry \in AllRows(SettlementRows) : entry.ref = c
           /\ \A k \in CreditsDone : \E entry \in AllRows(SettlementRows) : entry.ref = k
           /\ \A s \in Succeeded : \E entry \in AllRows(cashPoolLog) : entry.ref = s
           /\ \A entry \in AllRows(SettlementRows) :
                 \/ entry.ref = NoRef
                 \/ entry.ref \in Consumed \cup CreditsDone
                 \/ \E t \in ToppedUp : entry.ref = TxId[t]
           /\ \A entry \in AllRows(SettlementRows) :
                 /\ entry.ref \in Consumed => entry.change =
                       CodeAmount[entry.ref] - CommerceFee[consumedBy[entry.ref]][entry.ref]
                 /\ entry.ref \in CreditsDone => entry.change =
                       -(CreditAmount[entry.ref]
                         + CommerceFee[creditedBy[entry.ref]][entry.ref])
           /\ \A entry \in AllRows(cashPoolLog) :
                 /\ entry.ref \notin Topups
                 /\ entry.ref \in Succeeded => entry.change =
                       -(Amount[entry.ref] - WithdrawFee[wmerchant[entry.ref]][entry.ref])
  <1>1. /\ \A entry : entry \in AllRows(SettlementRows) <=>
              \/ \E m \in Commerce : entry \in Range(settlementLog[m])
              \/ \E m \in Finance : entry \in Range(shadowLog[m])
        /\ \A entry : entry \in AllRows(cashPoolLog) <=>
              \E m \in Finance : entry \in Range(cashPoolLog[m])
    BY TablesHold
  <1>2. BooksTold /\ ShadowTold /\ PoolsTold /\ Routed
    BY DEF AuditInv
  <1>3. /\ \A c \in Consumed : \E entry \in AllRows(SettlementRows) : entry.ref = c
        /\ \A k \in CreditsDone : \E entry \in AllRows(SettlementRows) : entry.ref = k
    BY <1>1, <1>2 DEF BooksTold, HasEntry
  <1>4. \A s \in Succeeded : \E entry \in AllRows(cashPoolLog) : entry.ref = s
    BY <1>1, <1>2 DEF PoolsTold, HasMove, Routed, Succeeded
  <1>5. \A entry \in AllRows(SettlementRows) :
           \/ \E m \in Commerce : BookRow(m, entry)
           \/ \E t \in ToppedUp : entry.ref = TxId[t]
    BY <1>1, <1>2 DEF BooksTold, BookExact, ShadowTold, ShadowRow
  <1>6. /\ Consumed \subseteq Codes /\ CreditsDone \subseteq Credits /\ ToppedUp \subseteq Topups
        /\ Succeeded \subseteq Withdrawals
    BY DEF Consumed, CreditsDone, ToppedUp, Succeeded
  <1>7. /\ \A t \in Topups : TxId[t] \notin Topups \cup Withdrawals \cup Codes \cup Credits
        /\ NoRef \notin Topups \cup Withdrawals \cup Codes \cup Credits
        /\ Codes \cap Credits = {} /\ Withdrawals \cap Topups = {}
    BY FeeConstants, FlowConstants
  <1>8. ASSUME NEW entry \in AllRows(SettlementRows)
        PROVE  /\ \/ entry.ref = NoRef
                  \/ entry.ref \in Consumed \cup CreditsDone
                  \/ \E t \in ToppedUp : entry.ref = TxId[t]
               /\ entry.ref \in Consumed => entry.change =
                     CodeAmount[entry.ref] - CommerceFee[consumedBy[entry.ref]][entry.ref]
               /\ entry.ref \in CreditsDone => entry.change =
                     -(CreditAmount[entry.ref]
                       + CommerceFee[creditedBy[entry.ref]][entry.ref])
    <2>1. CASE \E t \in ToppedUp : entry.ref = TxId[t]
      BY <1>6, <1>7, <2>1
    <2>2. ASSUME NEW m \in Commerce, BookRow(m, entry)
          PROVE  /\ \/ entry.ref = NoRef
                    \/ entry.ref \in Consumed \cup CreditsDone
                 /\ entry.ref \in Consumed => entry.change =
                       CodeAmount[entry.ref] - CommerceFee[consumedBy[entry.ref]][entry.ref]
                 /\ entry.ref \in CreditsDone => entry.change =
                       -(CreditAmount[entry.ref]
                         + CommerceFee[creditedBy[entry.ref]][entry.ref])
      BY <1>6, <1>7, <2>2, Zenon DEF BookRow
    <2> QED BY <1>5, <2>1, <2>2
  <1>9. ASSUME NEW entry \in AllRows(cashPoolLog)
        PROVE  /\ entry.ref \notin Topups
               /\ entry.ref \in Succeeded => entry.change =
                     -(Amount[entry.ref] - WithdrawFee[wmerchant[entry.ref]][entry.ref])
    <2>1. PICK m \in Finance : PoolEntry(m, entry)
      BY <1>1, <1>2 DEF PoolsTold, PoolExact
    <2> QED BY <1>6, <1>7, <2>1 DEF PoolEntry, Succeeded
  <1> QED BY <1>3, <1>4, <1>8, <1>9

\* Every spend is posted, less its commission.
LEMMA SpendCheck ==
    ASSUME AuditInv
    PROVE  Reports("flow_spend_settlement_posting") = {}
  <1>1. ASSUME NEW row \in TxRowsOf("spend")
        PROVE  /\ Joined(row) # {}
               /\ \A entry \in Joined(row) : entry.change = ExpectedChange(row)
    <2>1. row.type = "spend" /\ row.ref \in Consumed /\ row.change = -CodeAmount[row.ref]
      BY RowsSay DEF TxRowsOf
    <2>2. Joined(row) = {entry \in AllRows(SettlementRows) : entry.ref = row.ref}
      BY <2>1 DEF Joined
    <2>3. CodeAmount[row.ref] \in Nat \ {0}
      BY <2>1, FlowConstants DEF Consumed
    <2>4. TxAmount(row) = CodeAmount[row.ref]
      BY <2>1, <2>3 DEF TxAmount
    <2>5. ExpectedChange(row)
             = CodeAmount[row.ref] - CommerceFee[consumedBy[row.ref]][row.ref]
      BY <2>1, <2>4 DEF ExpectedChange, TxFee
    <2> QED BY <2>1, <2>2, <2>5, EntriesSay
  <1>2. Unposted("spend") = {}
    BY <1>1 DEF Unposted
  <1> QED BY <1>2 DEF Reports

\* Every credit is posted, and one with a commission is reported all the same.
LEMMA CreditCheck ==
    ASSUME AuditInv
    PROVE  Reports("flow_credit_settlement_posting")
              = {k \in Credits : creditedBy[k] # NoOne /\ CommerceFee[creditedBy[k]][k] > 0}
  <1> DEFINE fee(k) == CommerceFee[creditedBy[k]][k]
  <1>1. ASSUME NEW row \in TxRowsOf("merchant_credit")
        PROVE  /\ row.ref \in CreditsDone
               /\ Joined(row) # {}
               /\ \A entry \in Joined(row) :
                     entry.change # ExpectedChange(row) <=> fee(row.ref) > 0
    <2>1. /\ row.type = "merchant_credit" /\ row.ref \in CreditsDone
          /\ row.change = CreditAmount[row.ref]
      BY RowsSay DEF TxRowsOf
    <2>2. Joined(row) = {entry \in AllRows(SettlementRows) : entry.ref = row.ref}
      BY <2>1 DEF Joined
    <2>3. /\ row.ref \in Credits /\ CreditAmount[row.ref] \in Nat
          /\ creditedBy[row.ref] \in Commerce /\ fee(row.ref) \in Nat
      BY <2>1, FlowConstants, FeeConstants DEF CreditsDone, AuditInv, ExplainInv, Shapes
    <2>4. TxAmount(row) = CreditAmount[row.ref] /\ TxFee(row) = 0
      BY <2>1, <2>3 DEF TxAmount, TxFee
    <2>5. ExpectedChange(row) = -(CreditAmount[row.ref] + 0)
      BY <2>1, <2>4 DEF ExpectedChange
    <2>6. Joined(row) # {}
      BY <2>1, <2>2, EntriesSay
    <2>7. \A entry \in Joined(row) : entry.change = -(CreditAmount[row.ref] + fee(row.ref))
      BY <2>1, <2>2, EntriesSay
    <2> HIDE DEF fee
    <2> QED BY <2>1, <2>3, <2>5, <2>6, <2>7
  <1> HIDE DEF fee
  <1>2. \A k \in CreditsDone : \E row \in TxRowsOf("merchant_credit") : row.ref = k
    BY RowsSay
  <1>3. Unposted("merchant_credit") = {k \in CreditsDone : fee(k) > 0}
    BY <1>1, <1>2, Zenon DEF Unposted
  <1>4. Reports("flow_credit_settlement_posting") = Unposted("merchant_credit")
    BY DEF Reports
  <1> QED BY <1>3, <1>4 DEF CreditsDone, fee

\* Every top-up is reported: its log row does not refer to the session.
LEMMA TopupCheck ==
    ASSUME AuditInv
    PROVE  Reports("flow_topup_cash_pool_posting") = {t \in Topups : T!Credited(t)}
  <1>1. ASSUME NEW row \in TxRowsOf("topup") PROVE Joined(row) = {} /\ row.ref \in ToppedUp
    <2>1. row.type = "topup" /\ row.ref \in ToppedUp /\ row.ref \in Topups
      BY RowsSay DEF TxRowsOf, ToppedUp
    <2>2. Joined(row) = {entry \in AllRows(cashPoolLog) : entry.ref = row.ref}
      BY <2>1 DEF Joined
    <2> QED BY <2>1, <2>2, EntriesSay
  <1>2. \A t \in ToppedUp : \E row \in TxRowsOf("topup") : row.ref = t
    BY RowsSay
  <1>3. Unposted("topup") = ToppedUp
    BY <1>1, <1>2 DEF Unposted
  <1> QED BY <1>3 DEF Reports, ToppedUp

\* Every withdrawal is posted, and one with a commission is reported all the same.
LEMMA WithdrawCheck ==
    ASSUME AuditInv
    PROVE  Reports("flow_withdraw_cash_pool_posting")
              = {s \in Withdrawals : wstatus[s] = "success" /\ WithdrawFee[wmerchant[s]][s] > 0}
  <1> DEFINE fee(s) == WithdrawFee[wmerchant[s]][s]
  <1>1. ASSUME NEW row \in TxRowsOf("merchant_withdraw")
        PROVE  /\ row.ref \in Succeeded
               /\ Joined(row) # {}
               /\ \A entry \in Joined(row) :
                     entry.change # ExpectedChange(row) <=> fee(row.ref) > 0
    <2>1. /\ row.type = "merchant_withdraw" /\ row.ref \in Succeeded
          /\ row.change = -Amount[row.ref]
      BY RowsSay DEF TxRowsOf
    <2>2. Joined(row) = {entry \in AllRows(cashPoolLog) : entry.ref = row.ref}
      BY <2>1 DEF Joined
    <2>3. /\ row.ref \in Withdrawals /\ Amount[row.ref] \in Nat \ {0}
          /\ wmerchant[row.ref] \in Finance /\ fee(row.ref) \in Nat
      BY <2>1, FlowConstants, FeeConstants DEF Succeeded, AuditInv, Routed
    <2>4. TxAmount(row) = Amount[row.ref] /\ TxFee(row) = 0
      BY <2>1, <2>3 DEF TxAmount, TxFee
    <2>5. ExpectedChange(row) = -(Amount[row.ref] - 0)
      BY <2>1, <2>4 DEF ExpectedChange
    <2>6. Joined(row) # {}
      BY <2>1, <2>2, EntriesSay
    <2>7. \A entry \in Joined(row) : entry.change = -(Amount[row.ref] - fee(row.ref))
      BY <2>1, <2>2, EntriesSay
    <2> HIDE DEF fee
    <2> QED BY <2>1, <2>3, <2>5, <2>6, <2>7
  <1> HIDE DEF fee
  <1>2. \A s \in Succeeded : \E row \in TxRowsOf("merchant_withdraw") : row.ref = s
    BY RowsSay
  <1>3. Unposted("merchant_withdraw") = {s \in Succeeded : fee(s) > 0}
    BY <1>1, <1>2, Zenon DEF Unposted
  <1>4. Reports("flow_withdraw_cash_pool_posting") = Unposted("merchant_withdraw")
    BY DEF Reports
  <1> QED BY <1>3, <1>4 DEF Succeeded, fee

\* A settlement log row refers to a transaction there is.
LEMMA OrphanCheck ==
    ASSUME AuditInv
    PROVE  Reports("orphan_settlement_log_refs") = {}
  <1>1. ASSUME NEW entry \in AllRows(SettlementRows) PROVE entry.ref \in TxIds \cup {NoRef}
    <2>1. \/ entry.ref = NoRef
          \/ entry.ref \in Consumed \cup CreditsDone
          \/ \E t \in ToppedUp : entry.ref = TxId[t]
      BY EntriesSay
    <2>2. ASSUME NEW row \in TxRows, row.type # "topup" PROVE row.ref \in TxIds
      BY <2>2 DEF TxIds
    <2>3. CASE entry.ref \in Consumed
      BY <2>2, <2>3, RowsSay DEF TxRowsOf
    <2>4. CASE entry.ref \in CreditsDone
      BY <2>2, <2>4, RowsSay DEF TxRowsOf
    <2>5. ASSUME NEW t \in ToppedUp, entry.ref = TxId[t] PROVE entry.ref \in TxIds
      <3>1. PICK row \in TxRows : row.type = "topup" /\ row.ref = t
        BY RowsSay DEF TxRowsOf
      <3> QED BY <2>5, <3>1 DEF TxIds
    <2> QED BY <2>1, <2>3, <2>4, <2>5
  <1>2. {entry.ref : entry \in AllRows(SettlementRows)} \ (TxIds \cup {NoRef}) = {}
    BY <1>1
  <1> QED BY <1>2 DEF Reports

\* AuditInv answers for the twelve checks, whichever flows ran in whichever order.
LEMMA AuditTold ==
    ASSUME AuditInv
    PROVE  AuditExplained
  <1> SUFFICES ASSUME NEW check \in Checks PROVE Reports(check) = Explained(check)
    BY DEF AuditExplained
  <1>1. CASE check \in {"member_balance_vs_tx_sum", "merchant_credit_limit_breach",
                        "settlement_log_chain", "cash_pool_log_chain",
                        "flow_spend_settlement_posting", "orphan_settlement_log_refs"}
    <2>1. Explained(check) = {}
      BY <1>1 DEF Explained
    <2>2. Reports(check) = {}
      BY <1>1, BalanceCheck, ChainChecks, SpendCheck, OrphanCheck
    <2> QED BY <2>1, <2>2
  <1>2. CASE check = "member_reserved_vs_active_codes"
    BY <1>2, ReservedCheck DEF Explained
  <1>3. CASE check = "merchant_settlement_balance_vs_log"
    BY <1>3, BookCheck DEF Explained
  <1>4. CASE check = "merchant_cash_pool_vs_log"
    BY <1>4, PoolCheck DEF Explained
  <1>5. CASE check = "flow_credit_settlement_posting"
    BY <1>5, CreditCheck DEF Explained
  <1>6. CASE check = "flow_topup_cash_pool_posting"
    BY <1>6, TopupCheck DEF Explained
  <1>7. CASE check = "flow_withdraw_cash_pool_posting"
    BY <1>7, WithdrawCheck DEF Explained
  <1> QED BY <1>1, <1>2, <1>3, <1>4, <1>5, <1>6, <1>7 DEF Checks

\* In any committed state the checks report what their own queries leave out and
\* nothing else: AuditInv holds always, and says so of each of the twelve.
THEOREM ChecksExplained == Spec => []AuditExplained
  <1>1. Init => AuditInv
    BY AuditOpens
  <1>2. AuditInv /\ [Next]_vars => AuditInv'
    BY AuditKept
  <1>3. AuditInv => AuditExplained
    BY AuditTold
  <1> QED BY <1>1, <1>2, <1>3, PTL DEF Spec
-----------------------------------------------------------------------------
\* No two rows of the transactions refer to the same session, code or credit,
\* whichever accounts they are on and whichever flows wrote them.
PostedOnce ==
    \A u, v \in Members : \A i \in 1 .. Len(txns[u]), j \in 1 .. Len(txns[v]) :
        txns[u][i].ref = txns[v][j].ref /\ txns[u][i].ref # NoRef => u = v /\ i = j

\* A row of a reference that no table has yet, or of none.
LEMMA PostedNew ==
    ASSUME PostedOnce, txns \in [Members -> Seq(TxRow)], NEW u \in Members,
           NEW row \in TxRow, txns' = [txns EXCEPT ![u] = Append(@, row)],
           row.ref = NoRef
             \/ \A v \in Members : \A r \in Range(txns[v]) : r.ref # row.ref
    PROVE  PostedOnce'
  <1>1. /\ txns[u] \in Seq(TxRow) /\ txns'[u] = Append(txns[u], row)
        /\ \A v \in Members \ {u} : txns'[v] = txns[v]
        /\ \A v \in Members : txns[v] \in Seq(TxRow)
    OBVIOUS
  <1>2. /\ Len(txns[u]) \in Nat /\ Len(txns'[u]) = Len(txns[u]) + 1
        /\ \A i \in 1 .. Len(txns[u]) : txns'[u][i] = txns[u][i]
        /\ txns'[u][Len(txns[u]) + 1] = row
    BY <1>1
  <1>3. \A v \in Members : \A i \in 1 .. Len(txns[v]) : txns[v][i] \in Range(txns[v])
    BY <1>1 DEF Range
  <1>4. ASSUME NEW v \in Members, NEW i \in 1 .. Len(txns'[v])
        PROVE  \/ v = u /\ i = Len(txns[u]) + 1 /\ txns'[v][i] = row
               \/ i \in 1 .. Len(txns[v]) /\ txns'[v][i] = txns[v][i]
    BY <1>1, <1>2
  <1>5. ASSUME NEW v \in Members, NEW i \in 1 .. Len(txns[v]), row.ref # NoRef
        PROVE  txns[v][i].ref # row.ref
    BY <1>3, <1>5
  <1> SUFFICES ASSUME NEW v \in Members, NEW w \in Members,
                      NEW i \in 1 .. Len(txns'[v]), NEW j \in 1 .. Len(txns'[w]),
                      txns'[v][i].ref = txns'[w][j].ref, txns'[v][i].ref # NoRef
               PROVE  v = w /\ i = j
    BY DEF PostedOnce
  <1>6. CASE i \in 1 .. Len(txns[v]) /\ txns'[v][i] = txns[v][i]
    <2>1. CASE j \in 1 .. Len(txns[w]) /\ txns'[w][j] = txns[w][j]
      BY <1>6, <2>1 DEF PostedOnce
    <2> QED BY <1>4, <1>5, <1>6, <2>1
  <1> QED BY <1>4, <1>5, <1>6

\* What has not gone through has no row yet.
LEMMA NothingPosted ==
    ASSUME Shapes, TxnsTold, NEW v \in Members, NEW r \in Range(txns[v])
    PROVE  r.ref \notin (Withdrawals \ Succeeded) \cup (Topups \ ToppedUp)
                          \cup (Codes \ Consumed) \cup (Credits \ CreditsDone)
  <1>1. Told(v, r)
    BY DEF TxnsTold
  <1>2. /\ Succeeded \subseteq Withdrawals /\ Consumed \subseteq Codes
        /\ CreditsDone \subseteq Credits
    BY DEF Succeeded, Consumed, CreditsDone
  <1>3. /\ Withdrawals \cap (Topups \cup Codes \cup Credits) = {}
        /\ Topups \cap (Codes \cup Credits) = {} /\ Codes \cap Credits = {}
        /\ NoRef \notin Withdrawals \cup Topups \cup Codes \cup Credits
    BY FlowConstants, FeeConstants
  <1>4. ASSUME r.type = "topup" PROVE r.ref \in ToppedUp
    <2>1. PICK t : t = r.ref
      OBVIOUS
    <2>2. t \in Topups /\ Depositor[t] = v
      BY <1>1, <1>4, <2>1 DEF Told
    <2>3. PICK i \in 1 .. Len(txns[v]) : txns[v][i] = r
      <3>1. txns[v] \in Seq(TxRow)
        BY DEF Shapes
      <3> QED BY <3>1 DEF Range
    <2>4. i \in T!CreditsOf(t)
      BY <2>1, <2>2, <2>3 DEF T!CreditsOf
    <2> QED BY <2>1, <2>2, <2>4 DEF ToppedUp, T!Credited
  <1>5. CASE r.type = "topup"
    BY <1>3, <1>4, <1>5 DEF ToppedUp
  <1>6. CASE r.type # "topup"
    BY <1>1, <1>2, <1>3, <1>6 DEF Told, TxTypes
  <1> QED BY <1>5, <1>6

\* Every step of every flow posts once.
LEMMA PostedKept ==
    ASSUME Shapes, Fresh, TxnsTold, PostedOnce, [Next]_vars
    PROVE  PostedOnce'
  <1>1. txns \in [Members -> Seq(TxRow)]
    BY DEF Shapes
  <1>2. ASSUME UNCHANGED txns PROVE PostedOnce'
    BY <1>2 DEF PostedOnce
  <1>3. ASSUME NEW u \in Members, NEW type \in TxTypes, NEW ref \in Refs \cup {NoRef},
               NEW change \in Int, Posts(u, type, ref, change),
               \/ ref = NoRef
               \/ ref \in (Withdrawals \ Succeeded) \cup (Topups \ ToppedUp)
                            \cup (Codes \ Consumed) \cup (Credits \ CreditsDone)
        PROVE  PostedOnce'
    <2>1. PICK row : row = RowOf(type, ref, change, u)
      OBVIOUS
    <2>2. row \in TxRow /\ row.ref = ref
      BY <2>1, RowIsTx DEF RowOf
    <2>3. txns' = [txns EXCEPT ![u] = Append(@, row)]
      BY <1>3, <2>1 DEF Posts
    <2>4. \/ row.ref = NoRef
          \/ \A v \in Members : \A r \in Range(txns[v]) : r.ref # row.ref
      BY <1>3, <2>2, NothingPosted
    <2> QED BY <1>1, <2>2, <2>3, <2>4, PostedNew
  <1>4. CASE WithdrawStep
    <2>1. ASSUME NEW s \in Withdrawals \ Succeeded,
                 Posts(Owner[s], "merchant_withdraw", s, -Amount[s])
          PROVE  PostedOnce'
      <3>1. /\ Owner[s] \in Members /\ -Amount[s] \in Int /\ s \in Refs
            /\ "merchant_withdraw" \in TxTypes
        BY FlowConstants DEF TxTypes
      <3> QED BY <1>3, <2>1, <3>1
    <2> QED BY <1>2, <1>4, <2>1, WithdrawEffect DEF Quiet
  <1>5. CASE TopupStep
    <2>1. ASSUME NEW t \in Topups \ ToppedUp, NEW a \in Nat,
                 Posts(Depositor[t], "topup", t, a)
          PROVE  PostedOnce'
      <3>1. Depositor[t] \in Members /\ a \in Int /\ t \in Refs /\ "topup" \in TxTypes
        BY FlowConstants DEF TxTypes
      <3> QED BY <1>3, <2>1, <3>1
    <2> QED BY <1>2, <1>5, <2>1, TopupEffect DEF Quiet
  <1>6. CASE CommerceStep
    <2>1. ASSUME NEW c \in Codes, Spends(c) PROVE PostedOnce'
      <3>1. /\ Holder[c] \in Members /\ -CodeAmount[c] \in Int /\ c \in Refs
            /\ "spend" \in TxTypes
        BY FlowConstants DEF TxTypes
      <3>2. c \in Codes \ Consumed /\ Posts(Holder[c], "spend", c, -CodeAmount[c])
        BY <2>1 DEF Spends
      <3> QED BY <1>3, <3>1, <3>2
    <2>2. ASSUME NEW k \in Credits, Grants(k) PROVE PostedOnce'
      <3>1. /\ CreditTo[k] \in Members /\ CreditAmount[k] \in Int /\ k \in Refs
            /\ "merchant_credit" \in TxTypes
        BY FlowConstants DEF TxTypes
      <3>2. /\ k \in Credits \ CreditsDone
            /\ Posts(CreditTo[k], "merchant_credit", k, CreditAmount[k])
        BY <2>2 DEF Grants
      <3> QED BY <1>3, <3>1, <3>2
    <2> QED BY <1>2, <1>6, <2>1, <2>2, CommerceEffect DEF Quiet
  <1>7. CASE AdminStep
    <2>1. ASSUME NEW c \in Calls, Task[c].op = "adjustBalance",
                 Posts(Task[c].on, "adjustment", NoRef, Task[c].amount)
          PROVE  PostedOnce'
      <3>1. Task[c].on \in Members /\ Task[c].amount \in Int /\ "adjustment" \in TxTypes
        BY <2>1, TaskConstants DEF TxTypes
      <3> QED BY <1>3, <2>1, <3>1
    <2> QED BY <1>2, <1>7, <2>1, AdminEffect DEF Quiet
  <1>8. CASE UNCHANGED vars
    BY <1>2, <1>8 DEF vars, walletVars
  <1> QED BY <1>4, <1>5, <1>6, <1>7, <1>8 DEF Next

\* The opening rows refer to nothing.
LEMMA PostedOpens == Init => PostedOnce
  <1> SUFFICES ASSUME Init PROVE PostedOnce
    OBVIOUS
  <1>1. txns = [u \in Members |->
                     IF OpeningBalance[u] = 0 THEN << >>
                     ELSE << [type |-> "adjustment", ref |-> NoRef,
                              change |-> OpeningBalance[u],
                              after |-> OpeningBalance[u]] >>]
    BY DEF Init, WalletInit, AccountsInit
  <1>2. ASSUME NEW u \in Members, NEW i \in 1 .. Len(txns[u]) PROVE txns[u][i].ref = NoRef
    BY <1>1, <1>2
  <1> QED BY <1>2 DEF PostedOnce

\* Among all flows no money moves twice: a withdrawal, a code or a credit that
\* went through has one row, of its amount, on the account of its member; a top-up
\* has one at most; and every other row is an adjustment by hand (transactions).
THEOREM MoneyMovesOnce == Spec => [](PostedOnce /\ TxnsTold)
  <1>1. Init => AuditInv /\ PostedOnce
    BY AuditOpens, PostedOpens
  <1>2. AuditInv /\ PostedOnce /\ [Next]_vars => AuditInv' /\ PostedOnce'
    BY AuditKept, PostedKept DEF AuditInv, ExplainInv
  <1>3. AuditInv => TxnsTold
    BY DEF AuditInv
  <1> QED BY <1>1, <1>2, <1>3, PTL DEF Spec
=============================================================================
