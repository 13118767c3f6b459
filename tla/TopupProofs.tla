----------------------------- MODULE TopupProofs -----------------------------
(***************************************************************************)
(* The theorems of flow C, for any number of members, sessions and merchants *)
(* and any amounts a merchant reports: one open session per member, a session  *)
(* credited once, and with the amount it shows.                                 *)
(***************************************************************************)
EXTENDS Topup, Sums

USE LedgerAssumption, AccountsAssumption, WalletAssumption, TopupAssumption

TopupTypeOK ==
    /\ balance \in [Members -> Int]
    /\ txns \in [Members -> Seq(TxRow)]
    /\ tstatus \in [Topups -> TopupStatuses]
    /\ tamount \in [Topups -> Nat]

\* Open sessions of one member are one session.
OpenAlone ==
    \A s, t \in Topups :
        /\ tstatus[s] \in OpenStatuses /\ tstatus[t] \in OpenStatuses
        /\ Depositor[s] = Depositor[t]
        => s = t

\* A session has one credit at most, of the amount it shows, and has it when it
\* says success.
CreditsExact ==
    \A s \in Topups :
        /\ \A i, j \in CreditsOf(s) : i = j
        /\ \A i \in CreditsOf(s) : txns[Depositor[s]][i].change = tamount[s]
        /\ tstatus[s] = "success" => CreditsOf(s) # {}

TopupInv == TopupTypeOK /\ OpenAlone /\ CreditsExact

-----------------------------------------------------------------------------
\* A step that credits nothing and writes no success keeps the credits.
LEMMA CreditsFrame ==
    ASSUME TopupInv, UNCHANGED <<balance, txns, tamount>>,
           tstatus' \in [Topups -> TopupStatuses],
           \A s \in Topups : tstatus'[s] = "success" => tstatus[s] = "success"
    PROVE  TopupTypeOK' /\ CreditsExact'
  BY DEF TopupInv, TopupTypeOK, CreditsExact, CreditsOf

\* A step that opens no session leaves one open at most.
LEMMA OpenFrame ==
    ASSUME TopupInv,
           \A s \in Topups : tstatus'[s] \in OpenStatuses => tstatus[s] \in OpenStatuses
    PROVE  OpenAlone'
  BY DEF TopupInv, OpenAlone

\* Nor does one that writes an open status where the unique index allows it.
LEMMA OpenWrite ==
    ASSUME TopupInv, NEW s \in Topups, NEW status \in TopupStatuses,
           status \in OpenStatuses => OpenSlot(s),
           tstatus' = [tstatus EXCEPT ![s] = status]
    PROVE  OpenAlone'
  <1>1. tstatus'[s] = status /\ \A t \in Topups : t # s => tstatus'[t] = tstatus[t]
    BY DEF TopupInv, TopupTypeOK
  <1>2. CASE status \in OpenStatuses
    <2>1. \A t \in Topups :
             t # s /\ tstatus[t] \in OpenStatuses => Depositor[t] # Depositor[s]
      BY <1>2 DEF OpenSlot, OpenTopups
    <2> QED BY <1>1, <2>1 DEF TopupInv, OpenAlone
  <1>3. CASE status \notin OpenStatuses
    <2>1. \A t \in Topups : tstatus'[t] \in OpenStatuses => tstatus[t] \in OpenStatuses
      BY <1>1, <1>3
    <2> QED BY <2>1, OpenFrame
  <1> QED BY <1>2, <1>3

-----------------------------------------------------------------------------
\* What changes no status, no amount and no account changes nothing of this.
LEMMA StillTopup ==
    ASSUME TopupInv, UNCHANGED <<balance, txns, tamount, tstatus>>
    PROVE  TopupInv'
  <1>1. TopupTypeOK' /\ CreditsExact'
    BY CreditsFrame DEF TopupInv, TopupTypeOK
  <1>2. OpenAlone'
    BY OpenFrame
  <1> QED BY <1>1, <1>2 DEF TopupInv

\* The creation of a session.
LEMMA CreateTopup ==
    ASSUME TopupInv, NEW s \in Topups, Create(s)
    PROVE  TopupInv'
  <1>1. CASE BeginCreate(s) \/ AbortCreate(s)
    BY <1>1, StillTopup DEF BeginCreate, AbortCreate, walletVars, sessionVars
  <1>2. ASSUME NEW m \in Finance, FinishCreate(s, m) PROVE TopupInv'
    <2>1. /\ OpenSlot(s) /\ tstatus' = [tstatus EXCEPT ![s] = "pending"]
          /\ UNCHANGED <<balance, txns, tamount>>
      BY <1>2 DEF FinishCreate, walletVars
    <2>2. "pending" \in TopupStatuses
      BY DEF TopupStatuses, OpenStatuses
    <2>3. OpenAlone'
      BY <2>1, <2>2, OpenWrite
    <2>4. tstatus' \in [Topups -> TopupStatuses]
      BY <2>1, <2>2 DEF TopupInv, TopupTypeOK
    <2>5. \A t \in Topups : tstatus'[t] = "success" => tstatus[t] = "success"
      BY <2>1 DEF TopupInv, TopupTypeOK
    <2> QED BY <2>1, <2>3, <2>4, <2>5, CreditsFrame DEF TopupInv
  <1> QED BY <1>1, <1>2 DEF Create

\* The operations that read a status and write one later.
LEMMA WriteTopup ==
    ASSUME TopupInv, NEW s \in Topups, Write(s)
    PROVE  TopupInv'
  <1>1. ASSUME NEW op \in Operations, BeginWrite(s, op) \/ AbandonWrite(s, op)
        PROVE  TopupInv'
    BY <1>1, StillTopup DEF BeginWrite, AbandonWrite, walletVars, sessionVars
  <1>2. ASSUME NEW op \in Operations, FinishWrite(s, op) PROVE TopupInv'
    <2>1. PICK status \in Writes[op] :
             /\ status \in OpenStatuses => OpenSlot(s)
             /\ tstatus' = [tstatus EXCEPT ![s] = status]
      BY <1>2 DEF FinishWrite
    <2>2. status \in TopupStatuses /\ status # "success"
      BY DEF Operations, Writes, TopupStatuses, OpenStatuses, Settled
    <2>3. UNCHANGED <<balance, txns, tamount>>
      BY <1>2 DEF FinishWrite, walletVars
    <2>4. OpenAlone'
      BY <2>1, <2>2, OpenWrite
    <2>5. tstatus' \in [Topups -> TopupStatuses]
      BY <2>1, <2>2 DEF TopupInv, TopupTypeOK
    <2>6. \A t \in Topups : tstatus'[t] = "success" => tstatus[t] = "success"
      BY <2>1, <2>2 DEF TopupInv, TopupTypeOK
    <2> QED BY <2>3, <2>4, <2>5, <2>6, CreditsFrame DEF TopupInv
  <1> QED BY <1>1, <1>2 DEF Write

\* The transaction of a credit is the last of its member, and its number was
\* free: the session had none before.
LEMMA CreditTopup ==
    ASSUME TopupInv, NEW s \in Topups, NEW amount \in ProviderAmounts,
           CallbackSuccess(s, amount)
    PROVE  /\ TopupInv'
           /\ CreditsOf(s) = {} /\ CreditsOf(s)' # {}
           /\ \A t \in Topups \ {s} : CreditsOf(t)' = CreditsOf(t)
  <1> DEFINE u == Depositor[s]
             row == [type |-> "topup", ref |-> s, change |-> amount,
                     after |-> balance[u] + amount]
  <1>1. /\ PublicNoFree(s)
        /\ balance' = [balance EXCEPT ![u] = balance[u] + amount]
        /\ txns' = [txns EXCEPT ![u] = Append(txns[u], row)]
        /\ tstatus' = [tstatus EXCEPT ![s] = "success"]
        /\ tamount' = [tamount EXCEPT ![s] = amount]
    BY DEF CallbackSuccess, AppendTx, SettleAmount
  <1>2. u \in Members /\ amount \in Nat /\ s \in Refs /\ balance[u] \in Int
    BY DEF TopupInv, TopupTypeOK
  <1>3. row \in TxRow /\ row.ref = s /\ row.change = amount
    BY <1>2 DEF TxRow, TxTypes
  <1> HIDE DEF row
  <1>4. txns[u] \in Seq(TxRow)
    BY <1>2 DEF TopupInv, TopupTypeOK
  <1>5. balance' \in [Members -> Int]
    BY <1>1, <1>2 DEF TopupInv, TopupTypeOK
  <1>6. txns' \in [Members -> Seq(TxRow)]
    BY <1>1, <1>3, <1>4 DEF TopupInv, TopupTypeOK
  <1>7. /\ tstatus' \in [Topups -> TopupStatuses] /\ tamount' \in [Topups -> Nat]
        /\ tstatus'[s] = "success" /\ tamount'[s] = amount
        /\ \A t \in Topups : t # s => tstatus'[t] = tstatus[t] /\ tamount'[t] = tamount[t]
    BY <1>1, <1>2 DEF TopupInv, TopupTypeOK, TopupStatuses, Settled
  <1>8. /\ Len(txns'[u]) = Len(txns[u]) + 1 /\ Len(txns[u]) \in Nat
        /\ txns'[u][Len(txns[u]) + 1] = row
        /\ \A i \in 1 .. Len(txns[u]) : txns'[u][i] = txns[u][i]
        /\ \A v \in Members : v # u => txns'[v] = txns[v]
    BY <1>1, <1>2, <1>3, <1>4 DEF TopupInv, TopupTypeOK
  <1>9. CreditsOf(s) = {}
    BY <1>1 DEF PublicNoFree, CreditsOf
  <1> DEFINE n == Len(txns[u])
  <1>14. \A i : i \in 1 .. Len(txns'[u]) <=> i \in 1 .. n \/ i = n + 1
    BY <1>8
  <1>15. \A t \in Topups :
            Depositor[t] = u =>
                \A i : i \in CreditsOf(t)' <=>
                          i \in CreditsOf(t) \/ (i = n + 1 /\ t = s)
    <2> SUFFICES ASSUME NEW t \in Topups, Depositor[t] = u, NEW i
                 PROVE  i \in CreditsOf(t)' <=>
                            i \in CreditsOf(t) \/ (i = n + 1 /\ t = s)
      OBVIOUS
    <2>1. i \in CreditsOf(t)' <=> i \in 1 .. Len(txns'[u]) /\ txns'[u][i].ref = t
      BY DEF CreditsOf
    <2>2. i \in CreditsOf(t) <=> i \in 1 .. n /\ txns[u][i].ref = t
      BY DEF CreditsOf
    <2>3. CASE i = n + 1
      <3>1. i \notin 1 .. n
        BY <1>8, <2>3
      <3>2. txns'[u][i].ref = s
        BY <1>3, <1>8, <2>3
      <3> QED BY <1>14, <2>1, <2>2, <2>3, <3>1, <3>2
    <2>4. CASE i # n + 1
      <3>1. i \in 1 .. Len(txns'[u]) <=> i \in 1 .. n
        BY <1>14, <2>4
      <3>2. i \in 1 .. n => txns'[u][i] = txns[u][i]
        BY <1>8
      <3> QED BY <2>1, <2>2, <2>4, <3>1, <3>2
    <2> QED BY <2>3, <2>4
  <1>10. \A i : i \in CreditsOf(s)' <=> i = n + 1
    BY <1>9, <1>15
  <1>11. ASSUME NEW t \in Topups, t # s
         PROVE  /\ CreditsOf(t)' = CreditsOf(t)
                /\ \A i \in CreditsOf(t) :
                      txns'[Depositor[t]][i] = txns[Depositor[t]][i]
    <2>1. CASE Depositor[t] = u
      <3>1. \A i : i \in CreditsOf(t)' <=> i \in CreditsOf(t)
        BY <1>11, <1>15, <2>1
      <3>2. \A i \in CreditsOf(t) : txns'[u][i] = txns[u][i]
        BY <1>8, <2>1 DEF CreditsOf
      <3> QED BY <2>1, <3>1, <3>2
    <2>2. CASE Depositor[t] # u
      <3>1. txns'[Depositor[t]] = txns[Depositor[t]]
        BY <1>8, <2>2
      <3> QED BY <3>1 DEF CreditsOf
    <2> QED BY <2>1, <2>2
  <1>12. CreditsExact'
    <2> SUFFICES ASSUME NEW t \in Topups
                 PROVE  /\ \A i, j \in CreditsOf(t)' : i = j
                        /\ \A i \in CreditsOf(t)' :
                              txns'[Depositor[t]][i].change = tamount'[t]
                        /\ tstatus'[t] = "success" => CreditsOf(t)' # {}
      BY DEF CreditsExact
    <2>1. CASE t = s
      <3>1. \A i \in CreditsOf(s)' : i = n + 1 /\ txns'[u][i].change = amount
        BY <1>3, <1>8, <1>10
      <3>2. n + 1 \in CreditsOf(s)'
        BY <1>10
      <3> HIDE DEF n
      <3>3. CreditsOf(t)' = CreditsOf(s)' /\ Depositor[t] = u
        BY <2>1 DEF CreditsOf
      <3>4. \A i, j \in CreditsOf(t)' : i = j
        BY <3>1, <3>3
      <3>5. \A i \in CreditsOf(t)' : txns'[Depositor[t]][i].change = tamount'[t]
        BY <1>7, <2>1, <3>1, <3>3
      <3>6. CreditsOf(t)' # {}
        BY <3>2, <3>3
      <3> QED BY <3>4, <3>5, <3>6
    <2>2. CASE t # s
      <3>1. /\ \A i, j \in CreditsOf(t) : i = j
            /\ \A i \in CreditsOf(t) : txns[Depositor[t]][i].change = tamount[t]
            /\ tstatus[t] = "success" => CreditsOf(t) # {}
        BY DEF TopupInv, CreditsExact
      <3>2. CreditsOf(t)' = CreditsOf(t)
        BY <1>11, <2>2
      <3>3. \A i \in CreditsOf(t) : txns'[Depositor[t]][i] = txns[Depositor[t]][i]
        BY <1>11, <2>2
      <3>4. tstatus'[t] = tstatus[t] /\ tamount'[t] = tamount[t]
        BY <1>7, <2>2
      <3> QED BY <3>1, <3>2, <3>3, <3>4
    <2> QED BY <2>1, <2>2
  <1>13. OpenAlone'
    <2>1. \A t \in Topups : tstatus'[t] \in OpenStatuses => tstatus[t] \in OpenStatuses
      BY <1>7 DEF OpenStatuses
    <2> QED BY <2>1, OpenFrame
  <1>16. TopupInv'
    BY <1>5, <1>6, <1>7, <1>12, <1>13 DEF TopupInv, TopupTypeOK
  <1>17. CreditsOf(s)' # {}
    <2> HIDE DEF n
    <2> QED BY <1>10
  <1>18. \A t \in Topups \ {s} : CreditsOf(t)' = CreditsOf(t)
    BY <1>11
  <1> QED BY <1>9, <1>16, <1>17, <1>18

\* A callback that fails, and the two that time brings.
LEMMA EndTopup ==
    ASSUME TopupInv,
           \/ \E s \in Topups : CallbackFailed(s) \/ TopupDue(s)
           \/ ExpireStaleTopups
           \/ UNCHANGED vars
    PROVE  TopupInv'
  <1>1. ASSUME NEW s \in Topups, CallbackFailed(s) PROVE TopupInv'
    <2>1. /\ tstatus' = [tstatus EXCEPT ![s] = "failed"]
          /\ UNCHANGED <<balance, txns, tamount>>
      BY <1>1 DEF CallbackFailed, walletVars
    <2>2. tstatus' \in [Topups -> TopupStatuses]
      BY <2>1 DEF TopupInv, TopupTypeOK, TopupStatuses, Settled
    <2>3. \A t \in Topups : tstatus'[t] = tstatus[t] \/ tstatus'[t] = "failed"
      BY <2>1 DEF TopupInv, TopupTypeOK
    <2>4. OpenAlone'
      BY <2>3, OpenFrame DEF OpenStatuses
    <2>5. TopupTypeOK' /\ CreditsExact'
      BY <2>1, <2>2, <2>3, CreditsFrame
    <2> QED BY <2>4, <2>5 DEF TopupInv
  <1>2. ASSUME NEW s \in Topups, TopupDue(s) PROVE TopupInv'
    BY <1>2, StillTopup DEF TopupDue, walletVars, sessionVars
  <1>3. CASE ExpireStaleTopups
    <2>1. /\ tstatus' = [s \in Topups |->
                            IF s \in DueTopups THEN "expired" ELSE tstatus[s]]
          /\ UNCHANGED <<balance, txns, tamount>>
      BY <1>3 DEF ExpireStaleTopups, walletVars
    <2>2. tstatus' \in [Topups -> TopupStatuses]
      BY <2>1 DEF TopupInv, TopupTypeOK, TopupStatuses
    <2>3. \A t \in Topups : tstatus'[t] = tstatus[t] \/ tstatus'[t] = "expired"
      BY <2>1
    <2>4. OpenAlone'
      BY <2>3, OpenFrame DEF OpenStatuses
    <2>5. TopupTypeOK' /\ CreditsExact'
      BY <2>1, <2>2, <2>3, CreditsFrame
    <2> QED BY <2>4, <2>5 DEF TopupInv
  <1>4. CASE UNCHANGED vars
    BY <1>4, StillTopup DEF vars, walletVars, topupVars, sessionVars
  <1> QED BY <1>1, <1>2, <1>3, <1>4

\* Sessions begin unused; what a member starts with is no top-up.
LEMMA TopupOpens == Init => TopupInv /\ \A s \in Topups : CreditsOf(s) = {}
  <1> SUFFICES ASSUME Init PROVE TopupInv /\ \A s \in Topups : CreditsOf(s) = {}
    OBVIOUS
  <1>1. /\ balance = OpeningBalance
        /\ txns = [u \in Members |->
                     IF OpeningBalance[u] = 0 THEN << >>
                     ELSE << [type |-> "adjustment", ref |-> NoRef,
                              change |-> OpeningBalance[u],
                              after |-> OpeningBalance[u]] >>]
    BY DEF Init, WalletInit, AccountsInit
  <1>2. tstatus = [s \in Topups |-> "unused"] /\ tamount = Asked
    BY DEF Init, TopupInit
  <1>3. balance \in [Members -> Int]
    BY <1>1
  <1>4. txns \in [Members -> Seq(TxRow)]
    <2> SUFFICES ASSUME NEW u \in Members PROVE txns[u] \in Seq(TxRow)
      BY <1>1
    <2> DEFINE row == [type |-> "adjustment", ref |-> NoRef,
                       change |-> OpeningBalance[u], after |-> OpeningBalance[u]]
    <2>1. row \in TxRow
      BY DEF TxRow, TxTypes
    <2>2. txns[u] = IF OpeningBalance[u] = 0 THEN << >> ELSE << row >>
      BY <1>1
    <2> HIDE DEF row
    <2> QED BY <2>1, <2>2
  <1>5. TopupTypeOK
    BY <1>2, <1>3, <1>4 DEF TopupTypeOK, TopupStatuses
  <1>6. OpenAlone
    BY <1>2 DEF OpenAlone, OpenStatuses
  <1>7. ASSUME NEW s \in Topups PROVE CreditsOf(s) = {}
    <2>1. Depositor[s] \in Members /\ s # NoRef
      OBVIOUS
    <2>2. \A i \in 1 .. Len(txns[Depositor[s]]) : txns[Depositor[s]][i].ref = NoRef
      BY <1>1, <2>1
    <2> QED BY <2>1, <2>2 DEF CreditsOf
  <1>8. CreditsExact
    BY <1>2, <1>7 DEF CreditsExact
  <1> QED BY <1>5, <1>6, <1>7, <1>8 DEF TopupInv

\* What a step may do to a session and to its credits.
LEMMA TopupKept ==
    ASSUME TopupInv, [Next]_vars
    PROVE  TopupInv'
  <1>1. ASSUME NEW s \in Topups, Create(s) PROVE TopupInv'
    BY <1>1, CreateTopup
  <1>2. ASSUME NEW s \in Topups, Write(s) PROVE TopupInv'
    BY <1>2, WriteTopup
  <1>3. ASSUME NEW s \in Topups, NEW a \in ProviderAmounts, CallbackSuccess(s, a)
        PROVE  TopupInv'
    BY <1>3, CreditTopup
  <1>4. ASSUME \/ \E s \in Topups : CallbackFailed(s) \/ TopupDue(s)
               \/ ExpireStaleTopups
               \/ UNCHANGED vars
        PROVE  TopupInv'
    BY <1>4, EndTopup
  <1> QED BY <1>1, <1>2, <1>3, <1>4 DEF Next, Callback

LEMMA TopupInvariant == Spec => []TopupInv
  BY TopupKept, TopupOpens, PTL DEF Spec

\* Sets without two different members are empty or singletons.
LEMMA AtMostOne ==
    ASSUME NEW S, \A x, y \in S : x = y
    PROVE  Cardinality(S) <= 1
  <1>1. CASE S = {}
    BY <1>1, FS_EmptySet
  <1>2. ASSUME NEW x \in S PROVE Cardinality(S) <= 1
    <2>1. S = {x}
      BY <1>2
    <2>2. Cardinality({x}) = 1
      BY FS_Singleton
    <2> QED BY <2>1, <2>2
  <1> QED BY <1>1, <1>2

\* A member has one open top-up at a time, whatever late writes bring back: the
\* partial unique index is tested by every write of an open status.
THEOREM OneTopupOpen == Spec => []OneOpenTopup
  <1>1. ASSUME TopupInv PROVE OneOpenTopup
    <2> SUFFICES ASSUME NEW u \in Members PROVE Cardinality(OpenTopups(u)) <= 1
      BY DEF OneOpenTopup
    <2>1. \A s, t \in OpenTopups(u) : s = t
      BY <1>1 DEF TopupInv, OpenAlone, OpenTopups
    <2> QED BY <2>1, AtMostOne
  <1> QED BY <1>1, TopupInvariant, PTL

\* A session credits its member at most once, although a late write may reopen
\* one that has succeeded: the public number of the credit is taken by then.
THEOREM TopupsCreditOnce == Spec => []CreditedOnce
  <1>1. ASSUME TopupInv PROVE CreditedOnce
    <2> SUFFICES ASSUME NEW s \in Topups PROVE Cardinality(CreditsOf(s)) <= 1
      BY DEF CreditedOnce
    <2>1. \A i, j \in CreditsOf(s) : i = j
      BY <1>1 DEF TopupInv, CreditsExact
    <2> QED BY <2>1, AtMostOne
  <1> QED BY <1>1, TopupInvariant, PTL

\* A session that says success has credited the amount it shows, also when the
\* merchant reported another than the member asked for.
THEOREM CreditsAreShown == Spec => []SuccessIsCredited
  <1>1. TopupInv => SuccessIsCredited
    BY DEF TopupInv, CreditsExact, SuccessIsCredited, Credited
  <1> QED BY <1>1, TopupInvariant, PTL

-----------------------------------------------------------------------------
\* A session that has left "unused" has a merchant, and only then may it have a
\* credit, of an amount some merchant reported.
Started ==
    /\ cashPool \in [Finance -> Int]
    /\ tmerchant \in [Topups -> Finance \cup {NoTopupMerchant}]
    /\ creating \subseteq Topups /\ inFlight \subseteq Topups \X Operations
    /\ \A s \in creating : tstatus[s] = "unused"
    /\ \A w \in inFlight : tstatus[w[1]] # "unused"
    /\ \A s \in Topups :
          /\ tstatus[s] = "unused" => CreditsOf(s) = {}
          /\ tstatus[s] # "unused" => tmerchant[s] \in Finance
          /\ CreditsOf(s) # {} => tamount[s] \in ProviderAmounts

\* What the credited sessions of a merchant brought into its pool.
BroughtTo(m) == {s \in Topups : tmerchant[s] = m /\ Credited(s)}
Brought(m) == [s \in BroughtTo(m) |-> tamount[s] - TopupFee[m][tamount[s]]]
PoolExact ==
    \A m \in Finance :
        cashPool[m] = OpeningPool[m] + SumFunctionOnSet(Brought(m), BroughtTo(m))

PoolInv == TopupInv /\ Started /\ PoolExact

\* Steps that leave the merchants, the amounts and the credits alone.
LEMMA PoolFrame ==
    ASSUME UNCHANGED <<cashPool, txns, tamount, tmerchant>>
    PROVE  /\ PoolExact' = PoolExact
           /\ \A s \in Topups : CreditsOf(s)' = CreditsOf(s)
  <1>1. \A s \in Topups : CreditsOf(s)' = CreditsOf(s)
    BY DEF CreditsOf
  <1>2. \A m : BroughtTo(m)' = BroughtTo(m)
    BY <1>1 DEF BroughtTo, Credited
  <1>3. \A m : Brought(m)' = Brought(m)
    BY <1>2 DEF Brought
  <1> QED BY <1>1, <1>2, <1>3 DEF PoolExact

\* The merchant a session is drawn is the first it has: it brought in nothing
\* so far.
LEMMA CreatePool ==
    ASSUME PoolInv, NEW s \in Topups, Create(s)
    PROVE  Started' /\ PoolExact'
  <1>1. ASSUME BeginCreate(s) \/ AbortCreate(s) PROVE Started' /\ PoolExact'
    <2>1. /\ UNCHANGED <<cashPool, txns, tamount, tmerchant, tstatus, inFlight>>
          /\ \A t \in creating' : t \in creating \/ (t = s /\ tstatus[s] = "unused")
      BY <1>1 DEF BeginCreate, AbortCreate, walletVars, sessionVars
    <2> QED BY <2>1, PoolFrame DEF PoolInv, Started
  <1>2. ASSUME NEW m \in Finance, FinishCreate(s, m) PROVE Started' /\ PoolExact'
    <2>1. /\ s \in creating /\ creating' = creating \ {s}
          /\ tstatus' = [tstatus EXCEPT ![s] = "pending"]
          /\ tmerchant' = [tmerchant EXCEPT ![s] = m]
          /\ UNCHANGED <<cashPool, txns, tamount, inFlight>>
      BY <1>2 DEF FinishCreate, walletVars
    <2>2. tstatus[s] = "unused" /\ CreditsOf(s) = {}
      BY <2>1 DEF PoolInv, Started
    <2>3. \A t \in Topups : CreditsOf(t)' = CreditsOf(t)
      BY <2>1 DEF CreditsOf
    <2>4. \A t \in Topups \ {s} : tmerchant'[t] = tmerchant[t] /\ tstatus'[t] = tstatus[t]
      BY <2>1 DEF PoolInv, TopupInv, TopupTypeOK, Started
    <2>5. tmerchant'[s] = m /\ tstatus'[s] = "pending"
      BY <2>1 DEF PoolInv, TopupInv, TopupTypeOK, Started
    <2>6. \A n : BroughtTo(n)' = BroughtTo(n)
      BY <2>2, <2>3, <2>4 DEF BroughtTo, Credited
    <2>7. \A n : Brought(n)' = Brought(n)
      BY <2>1, <2>6 DEF Brought
    <2>8. PoolExact'
      BY <2>1, <2>6, <2>7 DEF PoolInv, PoolExact
    <2>9. \A w \in inFlight' : tstatus'[w[1]] # "unused"
      BY <2>1 DEF PoolInv, TopupInv, TopupTypeOK, Started
    <2>10. tmerchant' \in [Topups -> Finance \cup {NoTopupMerchant}]
      BY <2>1 DEF PoolInv, Started
    <2> QED BY <2>1, <2>2, <2>3, <2>4, <2>5, <2>8, <2>9, <2>10 DEF PoolInv, Started
  <1> QED BY <1>1, <1>2 DEF Create

\* The writes that pass over a status move no money; they reach no session
\* that does not exist.
LEMMA WritePool ==
    ASSUME PoolInv, NEW s \in Topups, Write(s)
    PROVE  Started' /\ PoolExact'
  <1> PICK op \in Operations : BeginWrite(s, op) \/ FinishWrite(s, op) \/ AbandonWrite(s, op)
    BY DEF Write
  <1>1. /\ UNCHANGED <<cashPool, txns, tamount, tmerchant, creating>>
        /\ \A t \in Topups : CreditsOf(t)' = CreditsOf(t)
        /\ PoolExact'
    <2>1. UNCHANGED <<cashPool, txns, tamount, tmerchant, creating>>
      BY DEF BeginWrite, FinishWrite, AbandonWrite, walletVars, sessionVars
    <2> QED BY <2>1, PoolFrame DEF PoolInv
  <1>2. tstatus[s] # "unused"
    <2>1. CASE BeginWrite(s, op)
      BY <2>1 DEF BeginWrite, Accepts, Operations
    <2>2. CASE FinishWrite(s, op) \/ AbandonWrite(s, op)
      <3>1. <<s, op>> \in inFlight
        BY <2>2 DEF FinishWrite, AbandonWrite
      <3> QED BY <3>1 DEF PoolInv, Started
    <2> QED BY <2>1, <2>2
  <1>3. \A w \in inFlight' : w \in inFlight \/ w = <<s, op>>
    BY DEF BeginWrite, FinishWrite, AbandonWrite
  <1>4. \A t : tstatus'[t] = "unused" <=> tstatus[t] = "unused"
    <2>1. CASE tstatus' = tstatus
      BY <2>1
    <2>2. CASE FinishWrite(s, op)
      <3>1. PICK status \in Writes[op] : tstatus' = [tstatus EXCEPT ![s] = status]
        BY <2>2 DEF FinishWrite
      <3>2. status # "unused"
        BY DEF Writes, Operations
      <3> QED BY <1>2, <3>1, <3>2 DEF PoolInv, TopupInv, TopupTypeOK
    <2>3. FinishWrite(s, op) \/ tstatus' = tstatus
      BY DEF BeginWrite, AbandonWrite, sessionVars
    <2> QED BY <2>1, <2>2, <2>3
  <1> QED BY <1>1, <1>2, <1>3, <1>4 DEF PoolInv, Started

\* The callback brings the reported amount, less its commission, into the pool
\* of the merchant the session was drawn.
LEMMA CallbackPool ==
    ASSUME PoolInv, NEW s \in Topups, NEW amount \in ProviderAmounts,
           CallbackSuccess(s, amount)
    PROVE  Started' /\ PoolExact'
  <1> DEFINE m == tmerchant[s]
             net == amount - TopupFee[m][amount]
  <1>1. /\ tstatus' = [tstatus EXCEPT ![s] = "success"]
        /\ tamount' = [tamount EXCEPT ![s] = amount]
        /\ UNCHANGED <<tmerchant, creating, inFlight>>
        /\ tstatus[s] # "unused"
    BY DEF CallbackSuccess, SettleAmount, Finalizable, OpenStatuses
  <1>2. m \in Finance /\ amount \in Nat /\ TopupFee[m][amount] \in Nat
    <2>1. m \in Finance
      BY <1>1 DEF PoolInv, Started
    <2>2. TopupFee[m] \in [ProviderAmounts -> Nat] /\ amount \in Nat
      BY <2>1
    <2> QED BY <2>1, <2>2
  <1>3. cashPool' = [cashPool EXCEPT ![m] = cashPool[m] + net]
    <2>1. CASE net = 0
      <3>1. cashPool' = cashPool
        BY <2>1 DEF CallbackSuccess, WriteCashPoolDelta, MerchantNet, poolVars
      <3>2. cashPool[m] + net = cashPool[m]
        BY <1>2, <2>1 DEF PoolInv, Started
      <3> QED BY <3>1, <3>2 DEF PoolInv, Started
    <2>2. CASE net # 0
      BY <2>2 DEF CallbackSuccess, WriteCashPoolDelta, MerchantNet
    <2> QED BY <2>1, <2>2
  <1>4. /\ CreditsOf(s) = {} /\ CreditsOf(s)' # {}
        /\ \A t \in Topups \ {s} : CreditsOf(t)' = CreditsOf(t)
    BY CreditTopup DEF PoolInv
  <1>5. /\ tamount'[s] = amount /\ tstatus'[s] = "success"
        /\ \A t \in Topups \ {s} : tamount'[t] = tamount[t] /\ tstatus'[t] = tstatus[t]
    BY <1>1 DEF PoolInv, TopupInv, TopupTypeOK
  <1>6. net \in Int
    BY <1>2
  <1> HIDE DEF net
  <1>7. Started'
    <2>1. cashPool' \in [Finance -> Int]
      BY <1>2, <1>3, <1>6 DEF PoolInv, Started
    <2>2. \A w \in inFlight' : tstatus'[w[1]] # "unused"
      BY <1>1 DEF PoolInv, TopupInv, TopupTypeOK, Started
    <2>3. \A t \in creating' : tstatus'[t] = "unused"
      BY <1>1 DEF PoolInv, TopupInv, TopupTypeOK, Started
    <2> QED BY <1>1, <1>2, <1>4, <1>5, <2>1, <2>2, <2>3 DEF PoolInv, Started
  <1>8. ASSUME NEW n \in Finance
        PROVE  cashPool'[n] = OpeningPool[n] + SumFunctionOnSet(Brought(n), BroughtTo(n))'
    <2>1. /\ cashPool[n] = OpeningPool[n] + SumFunctionOnSet(Brought(n), BroughtTo(n))
          /\ cashPool \in [Finance -> Int] /\ OpeningPool[n] \in Nat
      BY DEF PoolInv, PoolExact, Started
    <2>2. \A t \in BroughtTo(n) : Brought(n)[t] \in Int
      <3> SUFFICES ASSUME NEW t \in BroughtTo(n) PROVE Brought(n)[t] \in Int
        OBVIOUS
      <3>1. t \in Topups /\ tamount[t] \in ProviderAmounts
        BY DEF BroughtTo, Credited, PoolInv, Started
      <3>2. TopupFee[n] \in [ProviderAmounts -> Nat] /\ ProviderAmounts \subseteq Nat
        OBVIOUS
      <3>4. TopupFee[n][tamount[t]] \in Nat /\ tamount[t] \in Nat
        BY <3>1, <3>2
      <3>3. Brought(n)[t] = tamount[t] - TopupFee[n][tamount[t]]
        BY DEF Brought
      <3> QED BY <3>3, <3>4
    <2>3. IsFiniteSet(BroughtTo(n))
      <3>1. BroughtTo(n) \subseteq Topups
        BY DEF BroughtTo
      <3> QED BY <3>1, FS_Subset
    <2>4. s \notin BroughtTo(n)
      BY <1>4 DEF BroughtTo, Credited
    <2>5. CASE n = m
      <3>1. BroughtTo(n)' = BroughtTo(n) \cup {s}
        BY <1>1, <1>4, <2>5 DEF BroughtTo, Credited
      <3>2. Brought(n)'[s] = net
        BY <1>5, <2>5, <3>1 DEF Brought, net
      <3>3. \A t \in BroughtTo(n) : Brought(n)'[t] = Brought(n)[t]
        <4> SUFFICES ASSUME NEW t \in BroughtTo(n) PROVE Brought(n)'[t] = Brought(n)[t]
          OBVIOUS
        <4>1. t \in Topups \ {s} /\ t \in BroughtTo(n)'
          BY <2>4, <3>1 DEF BroughtTo
        <4> QED BY <1>5, <4>1 DEF Brought
      <3>4. SumFunctionOnSet(Brought(n)', BroughtTo(n) \cup {s})
               = net + SumFunctionOnSet(Brought(n), BroughtTo(n))
        BY <1>6, <2>2, <2>3, <2>4, <3>2, <3>3, SumGrow
      <3>5. SumFunctionOnSet(Brought(n), BroughtTo(n)) \in Int
        BY <2>2, <2>3, SumInt
      <3>6. cashPool'[n] = cashPool[n] + net
        BY <1>2, <1>3, <2>1, <2>5
      <3> HIDE DEF m
      <3> QED BY <1>6, <2>1, <3>1, <3>4, <3>5, <3>6
    <2>6. CASE n # m
      <3>1. BroughtTo(n)' = BroughtTo(n)
        BY <1>1, <1>4, <2>6 DEF BroughtTo, Credited
      <3>2. Brought(n)' = Brought(n)
        <4>1. \A t \in BroughtTo(n) : tamount'[t] = tamount[t]
          BY <1>5, <2>4 DEF BroughtTo
        <4> QED BY <3>1, <4>1 DEF Brought
      <3>3. cashPool'[n] = cashPool[n]
        BY <1>3, <2>1, <2>6
      <3> QED BY <2>1, <3>1, <3>2, <3>3
    <2> QED BY <2>5, <2>6
  <1> QED BY <1>7, <1>8 DEF PoolExact

\* A callback that fails, and the two that time brings.
LEMMA EndPool ==
    ASSUME PoolInv,
           \/ \E s \in Topups : CallbackFailed(s) \/ TopupDue(s)
           \/ ExpireStaleTopups
           \/ UNCHANGED vars
    PROVE  Started' /\ PoolExact'
  <1>1. UNCHANGED <<cashPool, txns, tamount, tmerchant, creating, inFlight>>
    BY DEF CallbackFailed, TopupDue, ExpireStaleTopups, vars, walletVars, topupVars,
           sessionVars
  <1>2. \A t \in Topups : tstatus'[t] = "unused" <=> tstatus[t] = "unused"
    <2>1. ASSUME NEW s \in Topups, CallbackFailed(s)
          PROVE  \A t \in Topups : tstatus'[t] = "unused" <=> tstatus[t] = "unused"
      BY <2>1 DEF CallbackFailed, Finalizable, OpenStatuses, PoolInv, TopupInv, TopupTypeOK
    <2>2. CASE ExpireStaleTopups
      BY <2>2 DEF ExpireStaleTopups, DueTopups, OpenStatuses
    <2>3. ASSUME UNCHANGED tstatus
          PROVE  \A t \in Topups : tstatus'[t] = "unused" <=> tstatus[t] = "unused"
      BY <2>3
    <2>4. \/ \E s \in Topups : CallbackFailed(s)
          \/ ExpireStaleTopups
          \/ UNCHANGED tstatus
      BY DEF TopupDue, vars, topupVars, sessionVars
    <2> QED BY <2>1, <2>2, <2>3, <2>4
  <1>3. creating \subseteq Topups /\ \A w \in inFlight : w[1] \in Topups
    BY DEF PoolInv, Started
  <1>4. (\A s \in Topups : CreditsOf(s)' = CreditsOf(s)) /\ PoolExact'
    BY <1>1, PoolFrame DEF PoolInv
  <1> QED BY <1>1, <1>2, <1>3, <1>4 DEF PoolInv, Started

LEMMA PoolOpens == Init => PoolInv
  <1> SUFFICES ASSUME Init PROVE PoolInv
    OBVIOUS
  <1>1. \A s \in Topups : CreditsOf(s) = {}
    BY TopupOpens
  <1>2. Started
    BY <1>1 DEF Started, Init, WalletInit, TopupInit
  <1>3. PoolExact
    <2>1. \A m : BroughtTo(m) = {}
      BY <1>1 DEF BroughtTo, Credited
    <2>2. \A m : SumFunctionOnSet(Brought(m), BroughtTo(m)) = 0
      BY <2>1, SumEmpty
    <2>3. \A m \in Finance : cashPool[m] = OpeningPool[m] /\ OpeningPool[m] \in Nat
      BY DEF Init, WalletInit
    <2> QED BY <2>2, <2>3 DEF PoolExact
  <1> QED BY <1>2, <1>3, TopupOpens DEF PoolInv

\* The pool of each merchant is what it opened with and what its credited
\* sessions brought in, less the commissions, for any sessions, amounts, fees,
\* late writes and repeated callbacks.
THEOREM PoolsMatch == Spec => []PoolMatchesCredits
  <1>1. ASSUME PoolInv, [Next]_vars PROVE PoolInv'
    <2>1. TopupInv'
      BY <1>1, TopupKept DEF PoolInv
    <2>2. ASSUME NEW s \in Topups, Create(s) PROVE Started' /\ PoolExact'
      BY <1>1, <2>2, CreatePool
    <2>3. ASSUME NEW s \in Topups, Write(s) PROVE Started' /\ PoolExact'
      BY <1>1, <2>3, WritePool
    <2>4. ASSUME NEW s \in Topups, NEW a \in ProviderAmounts, CallbackSuccess(s, a)
          PROVE  Started' /\ PoolExact'
      BY <1>1, <2>4, CallbackPool
    <2>5. ASSUME \/ \E s \in Topups : CallbackFailed(s) \/ TopupDue(s)
                 \/ ExpireStaleTopups
                 \/ UNCHANGED vars
          PROVE  Started' /\ PoolExact'
      BY <1>1, <2>5, EndPool
    <2> QED BY <1>1, <2>1, <2>2, <2>3, <2>4, <2>5 DEF Next, Callback, PoolInv
  <1>2. PoolExact => PoolMatchesCredits
    BY DEF PoolExact, PoolMatchesCredits, BroughtTo, Brought, SumFunction
  <1> QED BY <1>1, <1>2, PoolOpens, PTL DEF Spec, PoolInv
=============================================================================
