--------------------------- MODULE WithdrawProofs ---------------------------
(***************************************************************************)
(* Theorems about Withdraw for every set of members, merchants, sessions,   *)
(* amounts, fees and opening values that satisfies the assumptions: types,  *)
(* reservations and logs, and then what a session's end means.              *)
(***************************************************************************)
EXTENDS Withdraw, Sums

USE LedgerAssumption, AccountsAssumption, WalletAssumption, WithdrawAssumption

\* The net amount of a session at a merchant is an integer: a fee may exceed
\* the amount.
LEMMA NetType ==
    ASSUME NEW m \in Finance, NEW s \in Withdrawals
    PROVE  NetAt(m, s) \in Int
  <1>1. Amount[s] \in Nat /\ WithdrawFee[m][s] \in Nat
    OBVIOUS
  <1> QED BY <1>1 DEF NetAt

\* A clamped subtraction is a natural number.
LEMMA ClampType ==
    ASSUME NEW x \in Int
    PROVE  Clamp(x) \in Nat
  BY DEF Clamp

\* Appending an audit row to a log keeps it a log of audit rows.
LEMMA LogRowType ==
    ASSUME NEW reason \in PoolReasons, NEW ref \in Refs \cup {NoRef},
           NEW change \in Int, NEW before \in Int
    PROVE  LogRow(reason, ref, change, before) \in PoolRow
  BY DEF LogRow, PoolRow

-----------------------------------------------------------------------------
\* A session being routed, or that ever was, has a finance merchant; one whose
\* request is still running has not been inserted.
Routed ==
    /\ \A s \in Withdrawals :
          request[s] = "picked" \/ wstatus[s] # "unused" => wmerchant[s] \in Finance
    /\ \A s \in Withdrawals : request[s] # "idle" => wstatus[s] = "unused"

TypeInv == TypeOK /\ Routed

\* The initial state is well typed.
LEMMA InitTypeInv == Init => TypeInv
  <1> SUFFICES ASSUME Init PROVE TypeInv
    OBVIOUS
  <1> USE DEF Init, WalletInit, AccountsInit, WithdrawInit
  <1>1. txns \in [Members -> Seq(TxRow)]
    <2>1. ASSUME NEW u \in Members
          PROVE  txns[u] \in Seq(TxRow)
      <3> DEFINE row == [type |-> "adjustment", ref |-> NoRef,
                         change |-> OpeningBalance[u],
                         after |-> OpeningBalance[u]]
      <3>1. row \in TxRow
        BY DEF TxRow, TxTypes
      <3>2. txns[u] = << >> \/ txns[u] = <<row>>
        OBVIOUS
      <3> HIDE DEF row
      <3> QED BY <3>1, <3>2
    <2> QED BY <2>1
  <1>2. cashPoolLog \in [Finance -> Seq(PoolRow)]
    <2>1. ASSUME NEW m \in Finance
          PROVE  cashPoolLog[m] \in Seq(PoolRow)
      <3>1. LogRow("admin_set_cash_pool", NoRef, OpeningPool[m], 0) \in PoolRow
        BY LogRowType DEF PoolReasons
      <3> QED BY <3>1
    <2> QED BY <2>1
  <1>3. WalletTypeOK
    BY <1>1, <1>2 DEF WalletTypeOK, AccountsTypeOK
  <1>4. TypeOK
    BY <1>3 DEF TypeOK, Statuses
  <1>5. Routed
    BY DEF Routed
  <1> QED BY <1>4, <1>5 DEF TypeInv

\* A transaction row is appended to a well-typed table.
LEMMA AppendTxType ==
    ASSUME WalletTypeOK, NEW u \in Members, NEW type \in TxTypes,
           NEW ref \in Refs \cup {NoRef}, NEW change \in Int,
           AppendTx(u, type, ref, change)
    PROVE  txns' \in [Members -> Seq(TxRow)]
  <1> DEFINE row == [type |-> type, ref |-> ref, change |-> change,
                     after |-> balance[u] + change]
  <1>1. row \in TxRow
    BY DEF TxRow, WalletTypeOK, AccountsTypeOK
  <1>2. txns' = [txns EXCEPT ![u] = Append(@, row)]
    BY DEF AppendTx
  <1> HIDE DEF row
  <1> QED BY <1>1, <1>2 DEF WalletTypeOK, AccountsTypeOK

\* A logged change of a pool keeps column and log well typed.
LEMMA LoggedChangeType ==
    ASSUME WalletTypeOK, NEW m \in Finance, NEW reason \in PoolReasons,
           NEW ref \in Refs \cup {NoRef}, NEW change \in Int,
           cashPool' = [cashPool EXCEPT ![m] = @ + change],
           cashPoolLog' = [cashPoolLog EXCEPT
               ![m] = Append(@, LogRow(reason, ref, change, cashPool[m]))]
    PROVE  /\ cashPool' \in [Finance -> Int]
           /\ cashPoolLog' \in [Finance -> Seq(PoolRow)]
  <1>1. LogRow(reason, ref, change, cashPool[m]) \in PoolRow
    BY LogRowType DEF WalletTypeOK, AccountsTypeOK
  <1> QED BY <1>1 DEF WalletTypeOK, AccountsTypeOK

\* The shared helper of the flows does so too, also for a delta of zero.
LEMMA PoolDeltaType ==
    ASSUME WalletTypeOK, NEW m \in Finance, NEW reason \in PoolReasons,
           NEW ref \in Refs \cup {NoRef}, NEW delta \in Int,
           WriteCashPoolDelta(m, delta, reason, ref)
    PROVE  /\ cashPool' \in [Finance -> Int]
           /\ cashPoolLog' \in [Finance -> Seq(PoolRow)]
  <1>1. CASE delta = 0
    BY <1>1 DEF WriteCashPoolDelta, poolVars, WalletTypeOK, AccountsTypeOK
  <1>2. CASE delta # 0
    BY <1>2, LoggedChangeType DEF WriteCashPoolDelta
  <1> QED BY <1>1, <1>2

\* Types and routing survive each statement of a request.
LEMMA RequestTypeInv ==
    ASSUME TypeInv, NEW s \in Withdrawals, Request(s)
    PROVE  TypeInv'
  <1> USE DEF TypeInv, TypeOK, Routed, WalletTypeOK, AccountsTypeOK, requestVars, accountVars,
              poolVars, walletVars, pushVars, loyaltyVars, Statuses
  <1>1. CASE CheckOpen(s)
    BY <1>1 DEF CheckOpen
  <1>2. ASSUME NEW m \in Finance, PickMerchant(s, m)
        PROVE  TypeInv'
    BY <1>2 DEF PickMerchant
  <1>3. CASE ReserveWithdraw(s)
    <2>1. wmerchant[s] \in Finance
      BY <1>3 DEF ReserveWithdraw
    <2>2. Net(s) \in Int
      BY <2>1, NetType DEF Net
    <2>3. "merchant_withdraw_cash_pool" \in PoolReasons /\ s \in Refs
      BY DEF PoolReasons
    <2>4. /\ cashPool' \in [Finance -> Int]
          /\ cashPoolLog' \in [Finance -> Seq(PoolRow)]
      <3> HIDE DEF WalletTypeOK, AccountsTypeOK
      <3>1. -Net(s) \in Int /\ WalletTypeOK
        BY <2>2
      <3>2. cashPool' = [cashPool EXCEPT ![wmerchant[s]] = @ + -Net(s)]
        BY <1>3, <2>1, <2>2 DEF ReserveWithdraw, WalletTypeOK, AccountsTypeOK
      <3>3. cashPoolLog' = [cashPoolLog EXCEPT ![wmerchant[s]] = Append(@,
                LogRow("merchant_withdraw_cash_pool", s, -Net(s),
                       cashPool[wmerchant[s]]))]
        BY <1>3 DEF ReserveWithdraw
      <3> QED BY <2>1, <2>3, <3>1, <3>2, <3>3, LoggedChangeType
    <2>5. reserved' \in [Members -> Int] /\ locked' \in SUBSET Members
      BY <1>3 DEF ReserveWithdraw
    <2>6. WalletTypeOK'
      BY <1>3, <2>4, <2>5 DEF ReserveWithdraw
    <2>7. TypeOK'
      <3> HIDE DEF WalletTypeOK, AccountsTypeOK
      <3> QED BY <1>3, <2>6 DEF ReserveWithdraw
    <2>8. Routed'
      <3> HIDE DEF WalletTypeOK, AccountsTypeOK
      <3> QED BY <1>3, <2>1 DEF ReserveWithdraw
    <2> QED BY <2>7, <2>8
  <1>4. CASE AbortRequest(s)
    BY <1>4 DEF AbortRequest
  <1> QED BY <1>1, <1>2, <1>3, <1>4 DEF Request

\* Types and routing survive a push, whichever half of it runs.
LEMMA PushTypeInv ==
    ASSUME TypeInv, NEW s \in Withdrawals, Push(s)
    PROVE  TypeInv'
  <1> USE DEF TypeInv, TypeOK, Routed, WalletTypeOK, AccountsTypeOK, requestVars, walletVars,
              pushVars, loyaltyVars, Statuses
  <1>1. CASE PushRead(s)
    BY <1>1 DEF PushRead
  <1>2. CASE PushClaim(s)
    <2>1. WalletTypeOK' /\ wmerchant' = wmerchant /\ request' = request
      BY <1>2 DEF PushClaim
    <2>2. CASE StillPending(s)
      <3> HIDE DEF WalletTypeOK, AccountsTypeOK
      <3>1. /\ wstatus' = [wstatus EXCEPT ![s] = "sent_to_merchant"]
            /\ outbound' = [outbound EXCEPT ![s] = @ + 1]
            /\ wstatus[s] # "unused"
        BY <1>2, <2>2 DEF PushClaim, StillPending
      <3>2. TypeOK'
        BY <1>2, <2>1, <3>1 DEF PushClaim
      <3>3. Routed'
        BY <2>1, <3>1
      <3> QED BY <3>2, <3>3
    <2>3. CASE ~StillPending(s)
      BY <1>2, <2>3 DEF PushClaim
    <2> QED BY <2>2, <2>3
  <1> QED BY <1>1, <1>2 DEF Push

\* Types and routing survive a callback of either outcome.
LEMMA CallbackTypeInv ==
    ASSUME TypeInv, NEW s \in Withdrawals, Callback(s)
    PROVE  TypeInv'
  <1> USE DEF TypeInv, TypeOK, Routed
  <1>1. wmerchant[s] \in Finance /\ NotFinalized(s)
    BY DEF Callback, FinalizeFailed, FinalizeSuccess, NotFinalized
  <1>2. Net(s) \in Int
    BY <1>1, NetType DEF Net
  <1>3. ReleaseReserved(Owner[s], Amount[s]) => reserved' \in [Members -> Int]
    BY DEF ReleaseReserved, WalletTypeOK, AccountsTypeOK, Clamp
  <1>4. CASE FinalizeFailed(s)
    <2>1. /\ cashPool' \in [Finance -> Int]
          /\ cashPoolLog' \in [Finance -> Seq(PoolRow)]
      <3>1. "withdraw_reversal_cash_pool" \in PoolReasons /\ s \in Refs
        BY DEF PoolReasons
      <3>2. WriteCashPoolDelta(wmerchant[s], Net(s),
                               "withdraw_reversal_cash_pool", s)
        BY <1>4 DEF FinalizeFailed, Reversed
      <3> QED BY <1>1, <1>2, <3>1, <3>2, PoolDeltaType
    <2>2. WalletTypeOK'
      BY <1>3, <1>4, <2>1 DEF FinalizeFailed, WalletTypeOK, AccountsTypeOK
    <2>3. TypeOK'
      BY <1>4, <2>2 DEF FinalizeFailed, Statuses, pushVars, loyaltyVars
    <2>4. Routed'
      BY <1>1, <1>4 DEF FinalizeFailed, NotFinalized, Statuses
    <2> QED BY <2>3, <2>4
  <1>5. CASE FinalizeSuccess(s)
    <2>1. txns' \in [Members -> Seq(TxRow)]
      <3>1. AppendTx(Owner[s], "merchant_withdraw", s, -Amount[s])
        BY <1>5 DEF FinalizeSuccess
      <3>2. /\ "merchant_withdraw" \in TxTypes
            /\ s \in Refs
            /\ -Amount[s] \in Int
            /\ Owner[s] \in Members
        BY DEF TxTypes
      <3> QED BY <3>1, <3>2, AppendTxType
    <2>2. balance' \in [Members -> Int]
      BY <1>5 DEF FinalizeSuccess, WalletTypeOK, AccountsTypeOK
    <2>3. WalletTypeOK'
      BY <1>3, <1>5, <2>1, <2>2 DEF FinalizeSuccess, WalletTypeOK, AccountsTypeOK, poolVars
    <2>4. Penalty(Amount[s]) \in Nat
      BY DEF Penalty
    <2>5. totalPoints' \in [Members -> Nat]
      <3>1. ApplyWithdrawPenalty(Owner[s], s)
        BY <1>5 DEF FinalizeSuccess
      <3>2. totalPoints[Owner[s]] - Penalty(Amount[s]) \in Int
        BY <2>4
      <3> QED BY <3>1, <3>2, ClampType DEF ApplyWithdrawPenalty
    <2>6. pointsLog' \in SUBSET (Withdrawals \X Nat)
      BY <1>5, <2>4 DEF FinalizeSuccess, ApplyWithdrawPenalty
    <2>7. cooldown' \in SUBSET Members
      BY <1>5 DEF FinalizeSuccess, MaybeSetWithdrawCooldown
    <2>8. TypeOK'
      BY <1>5, <2>3, <2>5, <2>6, <2>7 DEF FinalizeSuccess, Statuses, pushVars
    <2>9. Routed'
      BY <1>1, <1>5 DEF FinalizeSuccess, NotFinalized, Statuses
    <2> QED BY <2>8, <2>9
  <1> QED BY <1>4, <1>5 DEF Callback

-----------------------------------------------------------------------------
\* What a scan does to one account and to one pool, without the choice of the
\* row that UPDATE ... FROM applies.
ScannedAccount(u) ==
    \/ /\ \A s \in DueSessions : Owner[s] # u
       /\ reserved'[u] = reserved[u]
    \/ \E s \in DueSessions : /\ Owner[s] = u
                             /\ reserved'[u] = Clamp(reserved[u] - Amount[s])

ScannedPool(m) ==
    \/ cashPool'[m] = cashPool[m] /\ cashPoolLog'[m] = cashPoolLog[m]
    \/ \E s \in DueSessions :
          /\ wmerchant[s] = m
          /\ cashPool'[m] = cashPool[m] + Net(s)
          /\ cashPoolLog'[m] = Append(cashPoolLog[m],
                 LogRow("withdraw_timeout_cash_pool", s, Net(s), cashPool[m]))

\* A scan times out the due sessions, releases for each of their members the
\* amount of one of them, and reverses for each merchant at most one of them.
LEMMA ScanEffect ==
    ASSUME TypeInv, ScanWithdrawTimeouts
    PROVE  /\ wstatus' = [s \in Withdrawals |->
                            IF s \in DueSessions THEN "timeout" ELSE wstatus[s]]
           /\ DOMAIN reserved' = Members /\ reserved' = [u \in Members |-> reserved'[u]]
           /\ \A u \in Members : ScannedAccount(u)
           /\ DOMAIN cashPool' = Finance /\ cashPool' = [m \in Finance |-> cashPool'[m]]
           /\ DOMAIN cashPoolLog' = Finance
           /\ cashPoolLog' = [m \in Finance |-> cashPoolLog'[m]]
           /\ \A m \in Finance : ScannedPool(m)
  <1> DEFINE OwnerOf(s) == Owner[s]
             MerchantOf(s) == wmerchant[s]
  <1>1. wstatus' = [s \in Withdrawals |->
                      IF s \in DueSessions THEN "timeout" ELSE wstatus[s]]
    BY DEF ScanWithdrawTimeouts
  <1>2. PICK released \in OnePerKey(DueSessions, OwnerOf) :
           reserved' = [u \in Members |->
              IF \E s \in released : Owner[s] = u
              THEN Clamp(reserved[u] -
                         Amount[CHOOSE s \in released : Owner[s] = u])
              ELSE reserved[u]]
    BY DEF ScanWithdrawTimeouts
  <1>3. /\ released \subseteq DueSessions
        /\ \A s \in DueSessions : \E t \in released : Owner[t] = Owner[s]
    BY DEF OnePerKey
  <1>4. ASSUME NEW u \in Members
        PROVE  ScannedAccount(u)
    <2>1. CASE \E s \in released : Owner[s] = u
      <3> DEFINE t == CHOOSE s \in released : Owner[s] = u
      <3>1. t \in released /\ Owner[t] = u
        BY <2>1
      <3>2. reserved'[u] = Clamp(reserved[u] - Amount[t])
        BY <1>2, <2>1
      <3> HIDE DEF t
      <3> QED BY <1>3, <3>1, <3>2 DEF ScannedAccount
    <2>2. CASE ~\E s \in released : Owner[s] = u
      BY <1>2, <1>3, <2>2 DEF ScannedAccount
    <2> QED BY <2>1, <2>2
  <1>5. PICK returned \in OnePerKey(DueSessions, MerchantOf) :
           LET row(m) == CHOOSE s \in returned : wmerchant[s] = m
               hit(m) == \E s \in returned : wmerchant[s] = m
           IN  /\ cashPool' = [m \in Finance |->
                     IF hit(m) THEN cashPool[m] + Net(row(m))
                               ELSE cashPool[m]]
               /\ cashPoolLog' = [m \in Finance |->
                     IF hit(m)
                     THEN Append(cashPoolLog[m],
                                 LogRow("withdraw_timeout_cash_pool",
                                        row(m), Net(row(m)), cashPool[m]))
                     ELSE cashPoolLog[m]]
    BY DEF ScanWithdrawTimeouts
  <1>6. returned \subseteq DueSessions
    BY DEF OnePerKey
  <1>7. ASSUME NEW m \in Finance
        PROVE  ScannedPool(m)
    <2>1. CASE \E s \in returned : wmerchant[s] = m
      <3> DEFINE t == CHOOSE s \in returned : wmerchant[s] = m
      <3>1. t \in returned /\ wmerchant[t] = m
        BY <2>1
      <3>2. /\ cashPool'[m] = cashPool[m] + Net(t)
            /\ cashPoolLog'[m] = Append(cashPoolLog[m],
                   LogRow("withdraw_timeout_cash_pool", t, Net(t), cashPool[m]))
        BY <1>5, <2>1
      <3> HIDE DEF t
      <3> QED BY <1>6, <3>1, <3>2 DEF ScannedPool
    <2>2. CASE ~\E s \in returned : wmerchant[s] = m
      BY <1>5, <2>2 DEF ScannedPool
    <2> QED BY <2>1, <2>2
  <1> QED BY <1>1, <1>2, <1>4, <1>5, <1>7

\* Types and routing survive a scan.
LEMMA ScanTypeInv ==
    ASSUME TypeInv, ScanWithdrawTimeouts
    PROVE  TypeInv'
  <1> USE DEF TypeInv, TypeOK, Routed
  <1>1. DueSessions \subseteq Withdrawals
        /\ \A s \in DueSessions : wstatus[s] # "unused"
    BY DEF DueSessions, Open
  <1>2. reserved' \in [Members -> Int]
    <2>1. ASSUME NEW u \in Members
          PROVE  reserved'[u] \in Int
      <3>1. ScannedAccount(u)
        BY ScanEffect
      <3> QED BY <1>1, <3>1 DEF ScannedAccount, Clamp, WalletTypeOK, AccountsTypeOK
    <2> QED BY <2>1, ScanEffect
  <1>3. ASSUME NEW m \in Finance
        PROVE  cashPool'[m] \in Int /\ cashPoolLog'[m] \in Seq(PoolRow)
    <2>1. ScannedPool(m)
      BY ScanEffect
    <2>2. cashPool[m] \in Int /\ cashPoolLog[m] \in Seq(PoolRow)
      BY DEF WalletTypeOK, AccountsTypeOK
    <2>3. ASSUME NEW s \in DueSessions, wmerchant[s] = m
          PROVE  /\ Net(s) \in Int
                 /\ LogRow("withdraw_timeout_cash_pool", s, Net(s),
                           cashPool[m]) \in PoolRow
      <3>1. Net(s) \in Int /\ s \in Refs
        BY <1>1, <2>3, NetType DEF Net
      <3> QED BY <2>2, <3>1, LogRowType DEF PoolReasons
    <2>4. CASE cashPool'[m] = cashPool[m] /\ cashPoolLog'[m] = cashPoolLog[m]
      BY <2>2, <2>4
    <2>5. ASSUME NEW s \in DueSessions, NEW row \in PoolRow,
                 Net(s) \in Int,
                 cashPool'[m] = cashPool[m] + Net(s),
                 cashPoolLog'[m] = Append(cashPoolLog[m], row)
          PROVE  cashPool'[m] \in Int /\ cashPoolLog'[m] \in Seq(PoolRow)
      <3> HIDE DEF TypeInv, TypeOK, Routed
      <3> QED BY <2>2, <2>5
    <2> QED BY <2>1, <2>3, <2>4, <2>5 DEF ScannedPool
  <1>4. /\ cashPool' \in [Finance -> Int]
        /\ cashPoolLog' \in [Finance -> Seq(PoolRow)]
    BY <1>3, ScanEffect
  <1>5. WalletTypeOK'
    BY <1>2, <1>4 DEF ScanWithdrawTimeouts, WalletTypeOK, AccountsTypeOK
  <1>6. wstatus' \in [Withdrawals -> Statuses]
    BY ScanEffect DEF Statuses
  <1>7. TypeOK'
    BY <1>5, <1>6 DEF ScanWithdrawTimeouts, pushVars, loyaltyVars
  <1>8. Routed'
    BY <1>1, ScanEffect DEF ScanWithdrawTimeouts
  <1> QED BY <1>7, <1>8

\* Types and routing survive every step.
LEMMA NextTypeInv == TypeInv /\ [Next]_vars => TypeInv'
  <1> SUFFICES ASSUME TypeInv, [Next]_vars PROVE TypeInv'
    OBVIOUS
  <1> USE DEF TypeInv, TypeOK, Routed, WalletTypeOK, AccountsTypeOK
  <1>1. ASSUME NEW s \in Withdrawals, NEW d \in {"paid", "refused"},
               MerchantDecides(s, d)
        PROVE  TypeInv'
    BY <1>1 DEF MerchantDecides, walletVars, requestVars, pushVars, loyaltyVars
  <1>2. ASSUME NEW s \in Withdrawals, Expire(s)
        PROVE  TypeInv'
    BY <1>2 DEF Expire, walletVars, requestVars, pushVars, loyaltyVars
  <1>3. CASE UNCHANGED vars
    BY <1>3 DEF vars, walletVars, withdrawVars, requestVars, pushVars,
                loyaltyVars
  <1> HIDE DEF TypeInv
  <1> QED BY <1>1, <1>2, <1>3, RequestTypeInv, PushTypeInv, CallbackTypeInv,
             ScanTypeInv DEF Next

\* Every reachable state is well typed.
THEOREM TypeCorrect == Spec => []TypeOK
  <1>1. TypeInv => TypeOK
    BY DEF TypeInv
  <1> QED BY <1>1, InitTypeInv, NextTypeInv, PTL DEF Spec

-----------------------------------------------------------------------------
\* The inductive invariant about money.  No part is inductive alone: what a
\* request may reserve rests on the lock it holds, what a callback releases on
\* the reservation being exactly the open session's, and that on there being
\* one open session, which only the unique index grants.
MoneyInv ==
    /\ OneOpenPerMember
    /\ ReservedMatchesOpen
    /\ LockProtectsFunds
    /\ AccountsSound

\* Sessions whose request holds its account lock.
Picked == {s \in Withdrawals : request[s] = "picked"}

\* The invariant depends on five variables and on the members' own sessions.
LEMMA MoneyFrame ==
    ASSUME MoneyInv, Open' = Open, Picked' = Picked,
           UNCHANGED <<balance, reserved, locked>>
    PROVE  MoneyInv'
  <1>1. LockProtectsFunds'
    BY DEF MoneyInv, LockProtectsFunds, Picked, Available
  <1> QED BY <1>1 DEF MoneyInv, OneOpenPerMember, ReservedMatchesOpen, OpenOf,
                      AccountsSound

\* The money invariant survives the release of one account's only reservation,
\* by a callback, provided no request has that account locked.
LEMMA ReleaseKeepsMoney ==
    ASSUME TypeInv, TypeInv', MoneyInv, NEW s \in Open, AccountFree(Owner[s]),
           Open' = Open \ {s}, Picked' = Picked, locked' = locked,
           ReleaseReserved(Owner[s], Amount[s]),
           \/ balance' = balance
           \/ balance' = [balance EXCEPT ![Owner[s]] = @ - Amount[s]]
    PROVE  MoneyInv'
  <1> DEFINE u == Owner[s]
  <1>1. /\ s \in Withdrawals /\ u \in Members /\ Amount[s] \in Nat \ {0}
        /\ balance \in [Members -> Int] /\ reserved \in [Members -> Int]
    BY DEF Open, TypeInv, TypeOK, WalletTypeOK, AccountsTypeOK
  <1>2. reserved[u] = Amount[s]
    BY DEF MoneyInv, ReservedMatchesOpen
  <1>3. reserved' = [reserved EXCEPT ![u] = 0]
    <2>1. Clamp(reserved[u] - Amount[s]) = 0
      BY <1>1, <1>2 DEF Clamp
    <2>2. reserved' = [reserved EXCEPT ![u] = Clamp(reserved[u] - Amount[s])]
      BY DEF ReleaseReserved
    <2> QED BY <2>1, <2>2
  <1>4. \A t \in Open : Owner[t] = u => t = s
    BY DEF MoneyInv, OneOpenPerMember
  <1>5. \A v \in Members : v # u => balance'[v] = balance[v]
    BY <1>1
  <1>6. OneOpenPerMember'
    BY DEF MoneyInv, OneOpenPerMember
  <1>7. ReservedMatchesOpen'
    <2>1. \A t \in Open' : Owner[t] \in Members /\ Owner[t] # u
      BY <1>4 DEF Open
    <2>2. ASSUME NEW t \in Open'
          PROVE  reserved'[Owner[t]] = Amount[t]
      BY <1>1, <1>3, <2>1 DEF MoneyInv, ReservedMatchesOpen
    <2>3. ASSUME NEW v \in Members, OpenOf(v)' = {}
          PROVE  reserved'[v] = 0
      <3>1. CASE v = u
        BY <1>1, <1>3, <3>1
      <3>2. CASE v # u
        <4>1. OpenOf(v) = {}
          BY <2>3, <3>2 DEF OpenOf
        <4> QED BY <1>1, <1>3, <3>2, <4>1 DEF MoneyInv, ReservedMatchesOpen
      <3> QED BY <3>1, <3>2
    <2> QED BY <2>2, <2>3 DEF ReservedMatchesOpen
  <1>8. AccountsSound'
    <2>1. 0 <= reserved[u] /\ reserved[u] <= balance[u]
      BY <1>1 DEF MoneyInv, AccountsSound
    <2>2. balance'[u] \in Int /\ 0 <= balance'[u]
      BY <1>1, <1>2, <2>1
    <2>3. ASSUME NEW v \in Members
          PROVE  0 <= reserved'[v] /\ reserved'[v] <= balance'[v]
      <3>1. CASE v = u
        BY <1>1, <1>3, <2>2, <3>1
      <3>2. CASE v # u
        BY <1>1, <1>3, <1>5, <3>2 DEF MoneyInv, AccountsSound
      <3> QED BY <3>1, <3>2
    <2> QED BY <2>3 DEF AccountsSound
  <1>9. LockProtectsFunds'
    <2>1. \A t \in Picked : Owner[t] \in Members /\ Owner[t] # u
      BY DEF Picked, AccountFree, MoneyInv, LockProtectsFunds
    <2>2. \A t \in Picked : Amount[t] <= Available(Owner[t])
      BY DEF Picked, MoneyInv, LockProtectsFunds
    <2>3. \A t \in Picked : Amount[t] <= Available(Owner[t])'
      BY <1>1, <1>3, <1>5, <2>1, <2>2 DEF Available
    <2> QED BY <2>3 DEF Picked, MoneyInv, LockProtectsFunds
  <1> QED BY <1>6, <1>7, <1>8, <1>9 DEF MoneyInv

\* The money invariant survives each statement of a request.
LEMMA RequestMoney ==
    ASSUME TypeInv, TypeInv', MoneyInv, NEW s \in Withdrawals, Request(s)
    PROVE  MoneyInv'
  <1> DEFINE u == Owner[s]
  <1>0. /\ u \in Members /\ Amount[s] \in Nat \ {0}
        /\ balance \in [Members -> Int] /\ reserved \in [Members -> Int]
        /\ request \in [Withdrawals -> {"idle", "checked", "picked"}]
        /\ wstatus \in [Withdrawals -> Statuses]
    BY DEF TypeInv, TypeOK, WalletTypeOK, AccountsTypeOK
  <1>1. CASE CheckOpen(s)
    <2>1. Picked' = Picked
      BY <1>0, <1>1 DEF CheckOpen, Picked
    <2> QED BY <1>1, <2>1, MoneyFrame DEF CheckOpen, Open, walletVars
  <1>2. ASSUME NEW m \in Finance, PickMerchant(s, m)
        PROVE  MoneyInv'
    <2>1. /\ Picked' = Picked \cup {s} /\ Open' = Open
          /\ UNCHANGED <<balance, reserved>>
          /\ locked' = locked \cup {u} /\ u \notin locked
          /\ Amount[s] <= Available(u)
      BY <1>0, <1>2 DEF PickMerchant, Picked, Open, accountVars, AccountFree,
                        FundsCover
    <2>2. LockProtectsFunds'
      <3>1. locked' = {Owner[t] : t \in Picked'}
        BY <2>1 DEF MoneyInv, LockProtectsFunds, Picked
      <3>2. \A t \in Picked : Owner[t] # u
        BY <2>1 DEF MoneyInv, LockProtectsFunds, Picked
      <3>3. \A t, v \in Picked' : Owner[t] = Owner[v] => t = v
        BY <2>1, <3>2 DEF MoneyInv, LockProtectsFunds, Picked
      <3>4. \A t \in Picked' : Amount[t] <= Available(Owner[t])'
        BY <2>1 DEF MoneyInv, LockProtectsFunds, Picked, Available
      <3> QED BY <3>1, <3>3, <3>4 DEF LockProtectsFunds, Picked
    <2> QED BY <2>1, <2>2 DEF MoneyInv, OneOpenPerMember, ReservedMatchesOpen,
                              OpenOf, AccountsSound
  <1>3. CASE ReserveWithdraw(s)
    <2>1. /\ s \in Picked /\ Picked' = Picked \ {s} /\ Open' = Open \cup {s}
          /\ balance' = balance /\ reserved' = [reserved EXCEPT ![u] = @ + Amount[s]]
          /\ locked' = locked \ {u} /\ OpenOf(u) = {}
      BY <1>0, <1>3 DEF ReserveWithdraw, Picked, Open, UniqueOpen, Statuses
    <2>2. reserved[u] = 0 /\ Amount[s] <= balance[u]
      <3>1. reserved[u] = 0
        BY <1>0, <2>1 DEF MoneyInv, ReservedMatchesOpen
      <3>2. Amount[s] <= Available(u)
        BY <2>1 DEF MoneyInv, LockProtectsFunds, Picked
      <3>3. balance[u] \in Int /\ Available(u) = balance[u] - reserved[u]
        BY <1>0 DEF Available
      <3> QED BY <3>1, <3>2, <3>3
    <2>3. reserved' = [reserved EXCEPT ![u] = Amount[s]]
      <3>1. reserved[u] + Amount[s] = Amount[s]
        BY <1>0, <2>2
      <3> QED BY <2>1, <3>1
    <2>4. \A t \in Open : Owner[t] # u
      BY <2>1 DEF OpenOf
    <2>5. OneOpenPerMember'
      BY <2>1, <2>4 DEF MoneyInv, OneOpenPerMember
    <2>6. ReservedMatchesOpen'
      <3>1. ASSUME NEW t \in Open'
            PROVE  reserved'[Owner[t]] = Amount[t]
        <4>1. Owner[t] \in Members
          BY DEF Open
        <4> QED BY <1>0, <2>1, <2>3, <2>4, <4>1 DEF MoneyInv, ReservedMatchesOpen
      <3>2. ASSUME NEW v \in Members, OpenOf(v)' = {}
            PROVE  reserved'[v] = 0
        <4>1. v # u /\ OpenOf(v) = {}
          BY <2>1, <3>2 DEF OpenOf
        <4> QED BY <1>0, <2>3, <4>1 DEF MoneyInv, ReservedMatchesOpen
      <3> QED BY <3>1, <3>2 DEF ReservedMatchesOpen
    <2>7. AccountsSound'
      BY <1>0, <2>1, <2>2, <2>3 DEF MoneyInv, AccountsSound
    <2>8. LockProtectsFunds'
      <3>1. \A t \in Picked' : Owner[t] \in Members /\ Owner[t] # u
        BY <2>1 DEF MoneyInv, LockProtectsFunds, Picked
      <3>2. locked' = {Owner[t] : t \in Picked'}
        BY <2>1, <3>1 DEF MoneyInv, LockProtectsFunds, Picked
      <3>3. \A t \in Picked' : Amount[t] <= Available(Owner[t])'
        BY <1>0, <2>1, <2>3, <3>1
           DEF MoneyInv, LockProtectsFunds, Picked, Available
      <3> QED BY <2>1, <3>2, <3>3 DEF MoneyInv, LockProtectsFunds, Picked
    <2> QED BY <2>5, <2>6, <2>7, <2>8 DEF MoneyInv
  <1>4. CASE AbortRequest(s)
    <2>1. Open' = Open /\ UNCHANGED <<balance, reserved>>
          /\ Picked' = Picked \ {s}
          /\ locked' = IF s \in Picked THEN locked \ {u} ELSE locked
      BY <1>0, <1>4 DEF AbortRequest, Open, accountVars, Picked
    <2>2. LockProtectsFunds'
      <3>1. s \in Picked => \A t \in Picked' : Owner[t] # u
        BY <2>1 DEF MoneyInv, LockProtectsFunds, Picked
      <3>2. locked' = {Owner[t] : t \in Picked'}
        BY <2>1, <3>1 DEF MoneyInv, LockProtectsFunds, Picked
      <3>3. \A t \in Picked' : Amount[t] <= Available(Owner[t])'
        BY <2>1 DEF MoneyInv, LockProtectsFunds, Picked, Available
      <3> QED BY <2>1, <3>2, <3>3 DEF MoneyInv, LockProtectsFunds, Picked
    <2> QED BY <2>1, <2>2 DEF MoneyInv, OneOpenPerMember, ReservedMatchesOpen,
                              OpenOf, AccountsSound
  <1> QED BY <1>1, <1>2, <1>3, <1>4 DEF Request

\* The money invariant survives a callback of either outcome.
LEMMA CallbackMoney ==
    ASSUME TypeInv, TypeInv', MoneyInv, NEW s \in Withdrawals, Callback(s)
    PROVE  MoneyInv'
  <1>1. /\ NotFinalized(s) /\ AccountFree(Owner[s])
        /\ ReleaseReserved(Owner[s], Amount[s])
        /\ locked' = locked /\ request' = request
        /\ \/ balance' = balance
           \/ balance' = [balance EXCEPT ![Owner[s]] = @ - Amount[s]]
        /\ \E status \in Terminal : wstatus' = [wstatus EXCEPT ![s] = status]
    BY DEF Callback, FinalizeFailed, FinalizeSuccess, Terminal
  <1>2. s \in Open /\ Open' = Open \ {s}
    BY <1>1 DEF NotFinalized, Open, Terminal, TypeInv, TypeOK
  <1>3. Picked' = Picked
    BY <1>1 DEF Picked
  <1> QED BY <1>1, <1>2, <1>3, ReleaseKeepsMoney

\* The money invariant survives a scan: each due session is its member's only
\* one, so one release for each member releases everything.
LEMMA ScanMoney ==
    ASSUME TypeInv, TypeInv', MoneyInv, ScanWithdrawTimeouts
    PROVE  MoneyInv'
  <1>1. /\ balance' = balance /\ locked' = locked /\ Picked' = Picked
        /\ \A s \in DueSessions : AccountFree(Owner[s])
    BY DEF ScanWithdrawTimeouts, Picked
  <1>2. DueSessions \subseteq Open /\ Open' = Open \ DueSessions
    BY ScanEffect DEF DueSessions, Open, TypeInv, TypeOK
  <1>3. /\ \A s \in Open : Owner[s] \in Members /\ Amount[s] \in Nat \ {0}
        /\ balance \in [Members -> Int] /\ reserved \in [Members -> Int]
    BY DEF Open, TypeInv, TypeOK, WalletTypeOK, AccountsTypeOK
  <1>4. ASSUME NEW u \in Members
        PROVE  \/ /\ \A s \in DueSessions : Owner[s] # u
                  /\ reserved'[u] = reserved[u]
               \/ /\ \E s \in DueSessions : Owner[s] = u
                  /\ reserved'[u] = 0
    <2>1. CASE \E s \in DueSessions : /\ Owner[s] = u
                  /\ reserved'[u] = Clamp(reserved[u] - Amount[s])
      <3>1. PICK s \in DueSessions : /\ Owner[s] = u
                  /\ reserved'[u] = Clamp(reserved[u] - Amount[s])
        BY <2>1
      <3>2. reserved[u] = Amount[s] /\ Amount[s] \in Nat
        BY <1>2, <1>3, <3>1 DEF MoneyInv, ReservedMatchesOpen
      <3> QED BY <3>1, <3>2 DEF Clamp
    <2> QED BY <2>1, ScanEffect DEF ScannedAccount
  <1>5. OneOpenPerMember'
    BY <1>2 DEF MoneyInv, OneOpenPerMember
  <1>6. ReservedMatchesOpen'
    <2>1. ASSUME NEW s \in Open'
          PROVE  reserved'[Owner[s]] = Amount[s]
      <3>1. \A t \in DueSessions : Owner[t] # Owner[s]
        BY <1>2 DEF MoneyInv, OneOpenPerMember
      <3> QED BY <1>2, <1>3, <1>4, <3>1 DEF MoneyInv, ReservedMatchesOpen
    <2>2. ASSUME NEW u \in Members, OpenOf(u)' = {}
          PROVE  reserved'[u] = 0
      <3>1. CASE \E s \in DueSessions : Owner[s] = u
        BY <1>4, <3>1
      <3>2. CASE \A s \in DueSessions : Owner[s] # u
        <4>1. OpenOf(u) = {}
          BY <1>2, <2>2, <3>2 DEF OpenOf
        <4> QED BY <1>4, <3>2, <4>1 DEF MoneyInv, ReservedMatchesOpen
      <3> QED BY <3>1, <3>2
    <2> QED BY <2>1, <2>2 DEF ReservedMatchesOpen
  <1>7. AccountsSound'
    <2>1. ASSUME NEW u \in Members
          PROVE  0 <= reserved'[u] /\ reserved'[u] <= balance'[u]
      BY <1>1, <1>3, <1>4 DEF MoneyInv, AccountsSound
    <2> QED BY <2>1 DEF AccountsSound
  <1>8. LockProtectsFunds'
    <2>1. ASSUME NEW t \in Picked
          PROVE  Amount[t] <= Available(Owner[t])'
      <3>1. /\ Owner[t] \in locked /\ Owner[t] \in Members
            /\ Amount[t] <= Available(Owner[t])
        BY DEF MoneyInv, LockProtectsFunds, Picked
      <3>2. reserved'[Owner[t]] = reserved[Owner[t]]
        BY <1>1, <1>4, <3>1 DEF AccountFree
      <3> QED BY <1>1, <3>1, <3>2 DEF Available
    <2> QED BY <1>1, <2>1 DEF MoneyInv, LockProtectsFunds, Picked
  <1> QED BY <1>5, <1>6, <1>7, <1>8 DEF MoneyInv

\* No session is open and nothing is reserved at first.
LEMMA InitMoney == Init => MoneyInv
  <1> SUFFICES ASSUME Init PROVE MoneyInv
    OBVIOUS
  <1>1. Open = {} /\ Picked = {} /\ locked = {}
    BY DEF Init, WalletInit, AccountsInit, WithdrawInit, Open, Picked
  <1>2. \A u \in Members : reserved[u] = 0 /\ balance[u] \in Nat
    BY DEF Init, WalletInit, AccountsInit
  <1> QED BY <1>1, <1>2 DEF MoneyInv, OneOpenPerMember, ReservedMatchesOpen,
                            LockProtectsFunds, AccountsSound, Picked

\* The money invariant survives every step.
LEMMA NextMoney == TypeInv /\ TypeInv' /\ MoneyInv /\ [Next]_vars => MoneyInv'
  <1> SUFFICES ASSUME TypeInv, TypeInv', MoneyInv, [Next]_vars PROVE MoneyInv'
    OBVIOUS
  <1>1. ASSUME NEW s \in Withdrawals, Push(s)
        PROVE  MoneyInv'
    <2>1. Open' = Open
      BY <1>1 DEF Push, PushRead, PushClaim, StillPending, requestVars, Open,
                  TypeInv, TypeOK
    <2>2. Picked' = Picked /\ UNCHANGED <<balance, reserved, locked>>
      BY <1>1 DEF Push, PushRead, PushClaim, requestVars, walletVars, Picked
    <2> QED BY <2>1, <2>2, MoneyFrame
  <1>2. ASSUME NEW s \in Withdrawals, NEW d \in {"paid", "refused"},
               MerchantDecides(s, d)
        PROVE  MoneyInv'
    BY <1>2, MoneyFrame DEF MerchantDecides, requestVars, walletVars, Open, Picked
  <1>3. ASSUME NEW s \in Withdrawals, Expire(s)
        PROVE  MoneyInv'
    BY <1>3, MoneyFrame DEF Expire, requestVars, walletVars, Open, Picked
  <1>4. CASE UNCHANGED vars
    BY <1>4, MoneyFrame DEF vars, walletVars, withdrawVars, requestVars, Open,
                            Picked
  <1> QED BY <1>1, <1>2, <1>3, <1>4, RequestMoney, CallbackMoney, ScanMoney
          DEF Next

LEMMA MoneyInvariant == Spec => []MoneyInv
  BY InitTypeInv, NextTypeInv, InitMoney, NextMoney, PTL DEF Spec

\* The reservation is the open withdrawal's amount, for any number of members,
\* sessions and merchants.
THEOREM ReservationsExact == Spec => []ReservedMatchesOpen
  <1>1. MoneyInv => ReservedMatchesOpen
    BY DEF MoneyInv
  <1> QED BY <1>1, MoneyInvariant, PTL

\* One open withdrawal for each member.
THEOREM OneOpen == Spec => []OneOpenPerMember
  <1>1. MoneyInv => OneOpenPerMember
    BY DEF MoneyInv
  <1> QED BY <1>1, MoneyInvariant, PTL

\* No balance is negative and no reservation exceeds it.
THEOREM SoundAccounts == Spec => []AccountsSound
  <1>1. MoneyInv => AccountsSound
    BY DEF MoneyInv
  <1> QED BY <1>1, MoneyInvariant, PTL

\* What a routed request found available is there when it commits.
THEOREM LocksProtect == Spec => []LockProtectsFunds
  <1>1. MoneyInv => LockProtectsFunds
    BY DEF MoneyInv
  <1> QED BY <1>1, MoneyInvariant, PTL

-----------------------------------------------------------------------------
\* A row that starts where the chain ends carries the chain on.
LEMMA ChainAppend ==
    ASSUME NEW R, NEW rows \in Seq(R), NEW row, NEW column \in Int,
           row.change \in Int, row.after = column + row.change,
           ChainEndsAt(rows, column)
    PROVE  ChainEndsAt(Append(rows, row), column + row.change)
  <1> DEFINE longer == Append(rows, row)
             n == Len(rows)
  <1>1. /\ n \in Nat /\ Len(longer) = n + 1 /\ longer[n + 1] = row
        /\ \A i \in 1 .. n : longer[i] = rows[i]
    OBVIOUS
  <1>2. CASE n = 0
    <2>1. Len(longer) = 1 /\ longer[1] = row /\ column = 0
      BY <1>1, <1>2 DEF ChainEndsAt
    <2>2. longer[Len(longer)].after = column + row.change
      BY <2>1
    <2>3. longer[1].after = longer[1].change
      BY <2>1
    <2> QED BY <2>1, <2>2, <2>3 DEF ChainEndsAt
  <1>3. CASE n > 0
    <2>1. /\ rows[n].after = column
          /\ rows[1].after = rows[1].change
          /\ \A i \in 2 .. n : rows[i].after = rows[i - 1].after + rows[i].change
      BY <1>3 DEF ChainEndsAt
    <2>2. longer[1] = rows[1] /\ longer[n] = rows[n]
      BY <1>1, <1>3
    <2>3. ASSUME NEW i \in 2 .. n + 1
          PROVE  longer[i].after = longer[i - 1].after + longer[i].change
      <3>1. CASE i = n + 1
        BY <1>1, <2>1, <2>2, <3>1
      <3>2. CASE i # n + 1
        <4>1. longer[i] = rows[i] /\ longer[i - 1] = rows[i - 1]
          BY <1>1, <3>2
        <4> QED BY <2>1, <3>2, <4>1
      <3> QED BY <3>1, <3>2
    <2> HIDE DEF longer
    <2> QED BY <1>1, <1>3, <2>1, <2>2, <2>3 DEF ChainEndsAt
  <1> QED BY <1>1, <1>2, <1>3

\* One pool with its log: what CashPoolLogged says of one merchant.
PoolChain(m) ==
    /\ ChainEndsAt(cashPoolLog[m], cashPool[m])
    /\ \A i \in 1 .. Len(cashPoolLog[m]) :
          cashPoolLog[m][i].before + cashPoolLog[m][i].change
             = cashPoolLog[m][i].after

\* A change of one pool, logged from the value it had, keeps its chain.
LEMMA LoggedChangeChain ==
    ASSUME WalletTypeOK, NEW m \in Finance, NEW change \in Int,
           NEW reason, NEW ref, PoolChain(m),
           cashPool'[m] = cashPool[m] + change,
           cashPoolLog'[m] = Append(cashPoolLog[m],
                                    LogRow(reason, ref, change, cashPool[m]))
    PROVE  PoolChain(m)'
  <1> DEFINE row == LogRow(reason, ref, change, cashPool[m])
  <1>1. cashPool[m] \in Int /\ cashPoolLog[m] \in Seq(PoolRow)
    BY DEF WalletTypeOK, AccountsTypeOK
  <1>2. /\ row.change = change /\ row.before = cashPool[m]
        /\ row.after = cashPool[m] + change
    BY DEF LogRow
  <1> HIDE DEF row
  <1>3. ChainEndsAt(Append(cashPoolLog[m], row), cashPool[m] + row.change)
    BY <1>1, <1>2, ChainAppend DEF PoolChain
  <1>4. ChainEndsAt(cashPoolLog'[m], cashPool'[m])
    BY <1>2, <1>3 DEF row
  <1>5. ASSUME NEW i \in 1 .. Len(cashPoolLog'[m])
        PROVE  cashPoolLog'[m][i].before + cashPoolLog'[m][i].change
                  = cashPoolLog'[m][i].after
    <2>1. cashPoolLog'[m] = Append(cashPoolLog[m], row)
      BY DEF row
    <2>2. CASE i = Len(cashPoolLog[m]) + 1
      BY <1>1, <1>2, <2>1, <2>2
    <2>3. CASE i # Len(cashPoolLog[m]) + 1
      <3>1. /\ i \in 1 .. Len(cashPoolLog[m])
            /\ cashPoolLog'[m][i] = cashPoolLog[m][i]
        BY <1>1, <2>1, <2>3
      <3> QED BY <3>1 DEF PoolChain
    <2> QED BY <2>2, <2>3
  <1> QED BY <1>4, <1>5 DEF PoolChain

\* A balance with its transactions: what BalanceLogged says of one member.
LogInv == (\A m \in Finance : PoolChain(m)) /\ BalanceLogged

LEMMA InitLog == Init => LogInv
  <1> SUFFICES ASSUME Init PROVE LogInv
    OBVIOUS
  <1> USE DEF Init, WalletInit, AccountsInit
  <1>1. ASSUME NEW m \in Finance
        PROVE  PoolChain(m)
    <2>1. CASE OpeningPool[m] = 0
      BY <2>1 DEF PoolChain, ChainEndsAt
    <2>2. CASE OpeningPool[m] # 0
      <3>1. /\ Len(cashPoolLog[m]) = 1
            /\ cashPoolLog[m][1].change = OpeningPool[m]
            /\ cashPoolLog[m][1].before = 0
            /\ cashPoolLog[m][1].after = OpeningPool[m]
            /\ cashPool[m] = OpeningPool[m]
        BY <2>2 DEF LogRow
      <3> QED BY <3>1 DEF PoolChain, ChainEndsAt
    <2> QED BY <2>1, <2>2
  <1>2. ASSUME NEW u \in Members
        PROVE  ChainEndsAt(txns[u], balance[u])
    <2>1. CASE OpeningBalance[u] = 0
      BY <2>1 DEF ChainEndsAt
    <2>2. CASE OpeningBalance[u] # 0
      <3>1. /\ Len(txns[u]) = 1
            /\ txns[u][1].change = OpeningBalance[u]
            /\ txns[u][1].after = OpeningBalance[u]
            /\ balance[u] = OpeningBalance[u]
        BY <2>2
      <3> QED BY <3>1 DEF ChainEndsAt
    <2> QED BY <2>1, <2>2
  <1> QED BY <1>1, <1>2 DEF LogInv, BalanceLogged

\* A step that touches neither a pool nor its log keeps every pool chain.
LEMMA PoolsFrame ==
    ASSUME LogInv, UNCHANGED poolVars
    PROVE  \A m \in Finance : PoolChain(m)'
  BY DEF LogInv, PoolChain, poolVars

\* The shared helper keeps every pool chain.
LEMMA PoolDeltaChain ==
    ASSUME WalletTypeOK, LogInv, NEW n \in Finance, NEW delta \in Int,
           NEW reason, NEW ref, WriteCashPoolDelta(n, delta, reason, ref)
    PROVE  \A m \in Finance : PoolChain(m)'
  <1>1. CASE delta = 0
    BY <1>1, PoolsFrame DEF WriteCashPoolDelta
  <1>2. ASSUME delta # 0, NEW m \in Finance
        PROVE  PoolChain(m)'
    <2>1. CASE m = n
      <3>1. /\ cashPool'[m] = cashPool[m] + delta
            /\ cashPoolLog'[m] = Append(cashPoolLog[m],
                   LogRow(reason, ref, delta, cashPool[m]))
        BY <1>2, <2>1 DEF WriteCashPoolDelta, WalletTypeOK, AccountsTypeOK
      <3> QED BY <3>1, LoggedChangeChain DEF LogInv
    <2>2. CASE m # n
      BY <1>2, <2>2 DEF WriteCashPoolDelta, LogInv, PoolChain, WalletTypeOK, AccountsTypeOK
    <2> QED BY <2>1, <2>2
  <1> QED BY <1>1, <1>2

\* The logs follow the columns in every step.
LEMMA NextLog == TypeInv /\ LogInv /\ [Next]_vars => LogInv'
  <1> SUFFICES ASSUME TypeInv, LogInv, [Next]_vars PROVE LogInv'
    OBVIOUS
  <1>0. WalletTypeOK
    BY DEF TypeInv, TypeOK
  <1>1. ASSUME NEW s \in Withdrawals, Request(s)
        PROVE  LogInv'
    <2>1. CASE ReserveWithdraw(s)
      <3>1. wmerchant[s] \in Finance
        BY <2>1 DEF ReserveWithdraw, TypeInv, Routed
      <3>2. Net(s) \in Int
        BY <3>1, NetType DEF Net
      <3>3. ASSUME NEW m \in Finance
            PROVE  PoolChain(m)'
        <4>1. CASE m = wmerchant[s]
          <5>1. /\ cashPool'[m] = cashPool[m] + -Net(s)
                /\ cashPoolLog'[m] = Append(cashPoolLog[m],
                      LogRow("merchant_withdraw_cash_pool", s, -Net(s),
                             cashPool[m]))
            BY <1>0, <2>1, <3>2, <4>1 DEF ReserveWithdraw, WalletTypeOK, AccountsTypeOK
          <5>2. -Net(s) \in Int /\ PoolChain(m)
            BY <3>2 DEF LogInv
          <5> QED BY <1>0, <5>1, <5>2, LoggedChangeChain
        <4>2. CASE m # wmerchant[s]
          BY <1>0, <2>1, <4>2 DEF ReserveWithdraw, LogInv, PoolChain, WalletTypeOK, AccountsTypeOK
        <4> QED BY <4>1, <4>2
      <3>4. BalanceLogged'
        BY <2>1 DEF ReserveWithdraw, LogInv, BalanceLogged
      <3> QED BY <3>3, <3>4 DEF LogInv
    <2>2. CASE ~ReserveWithdraw(s)
      <3>1. UNCHANGED poolVars /\ UNCHANGED <<balance, txns>>
        BY <1>1, <2>2 DEF Request, CheckOpen, PickMerchant, AbortRequest,
                          walletVars, accountVars, poolVars
      <3> QED BY <3>1, PoolsFrame DEF LogInv, BalanceLogged
    <2> QED BY <2>1, <2>2
  <1>2. ASSUME NEW s \in Withdrawals, FinalizeFailed(s)
        PROVE  LogInv'
    <2>1. wmerchant[s] \in Finance
      BY <1>2 DEF FinalizeFailed, NotFinalized, TypeInv, Routed
    <2>2. Net(s) \in Int
      BY <2>1, NetType DEF Net
    <2>3. WriteCashPoolDelta(wmerchant[s], Net(s),
                             "withdraw_reversal_cash_pool", s)
      BY <1>2 DEF FinalizeFailed, Reversed
    <2>4. \A m \in Finance : PoolChain(m)'
      BY <1>0, <2>1, <2>2, <2>3, PoolDeltaChain
    <2>5. BalanceLogged'
      BY <1>2 DEF FinalizeFailed, LogInv, BalanceLogged
    <2> QED BY <2>4, <2>5 DEF LogInv
  <1>3. ASSUME NEW s \in Withdrawals, FinalizeSuccess(s)
        PROVE  LogInv'
    <2> DEFINE u == Owner[s]
               row == [type |-> "merchant_withdraw", ref |-> s,
                       change |-> -Amount[s], after |-> balance[u] + -Amount[s]]
    <2>1. /\ balance' = [balance EXCEPT ![u] = @ - Amount[s]]
          /\ txns' = [txns EXCEPT ![u] = Append(@, row)]
          /\ UNCHANGED poolVars
      BY <1>3 DEF FinalizeSuccess, AppendTx
    <2>2. /\ u \in Members /\ Amount[s] \in Nat
          /\ balance \in [Members -> Int] /\ txns \in [Members -> Seq(TxRow)]
      BY <1>0 DEF WalletTypeOK, AccountsTypeOK
    <2>3. row.change = -Amount[s] /\ row.after = balance[u] + row.change
      OBVIOUS
    <2> HIDE DEF row
    <2>4. ChainEndsAt(Append(txns[u], row), balance[u] + row.change)
      <3>1. /\ row.change \in Int /\ balance[u] \in Int
            /\ txns[u] \in Seq(TxRow) /\ ChainEndsAt(txns[u], balance[u])
        BY <2>2, <2>3 DEF LogInv, BalanceLogged
      <3> QED BY <2>3, <3>1, ChainAppend
    <2>5. ASSUME NEW v \in Members
          PROVE  ChainEndsAt(txns'[v], balance'[v])
      <3>1. CASE v = u
        <4>1. txns'[v] = Append(txns[u], row) /\ balance'[v] = balance[u] + row.change
          BY <2>1, <2>2, <2>3, <3>1
        <4> QED BY <2>4, <4>1
      <3>2. CASE v # u
        BY <2>1, <2>2, <3>2 DEF LogInv, BalanceLogged
      <3> QED BY <3>1, <3>2
    <2> QED BY <2>1, <2>5, PoolsFrame DEF LogInv, BalanceLogged
  <1>4. CASE ScanWithdrawTimeouts
    <2>1. ASSUME NEW m \in Finance
          PROVE  PoolChain(m)'
      <3>1. ScannedPool(m) /\ PoolChain(m)
        BY <1>4, ScanEffect DEF LogInv
      <3>2. CASE cashPool'[m] = cashPool[m] /\ cashPoolLog'[m] = cashPoolLog[m]
        BY <3>1, <3>2 DEF PoolChain
      <3>3. ASSUME NEW s \in DueSessions, wmerchant[s] = m,
                   cashPool'[m] = cashPool[m] + Net(s),
                   cashPoolLog'[m] = Append(cashPoolLog[m],
                      LogRow("withdraw_timeout_cash_pool", s, Net(s), cashPool[m]))
            PROVE  PoolChain(m)'
        <4>1. Net(s) \in Int
          BY <3>3, NetType DEF Net, DueSessions, Open
        <4> QED BY <1>0, <3>1, <3>3, <4>1, LoggedChangeChain
      <3> QED BY <3>1, <3>2, <3>3 DEF ScannedPool
    <2>2. BalanceLogged'
      BY <1>4 DEF ScanWithdrawTimeouts, LogInv, BalanceLogged
    <2> QED BY <2>1, <2>2 DEF LogInv
  <1>5. ASSUME UNCHANGED poolVars, UNCHANGED <<balance, txns>>
        PROVE  LogInv'
    BY <1>5, PoolsFrame DEF LogInv, BalanceLogged
  <1>6. ASSUME NEW s \in Withdrawals, NEW d \in {"paid", "refused"},
               Push(s) \/ MerchantDecides(s, d) \/ Expire(s)
        PROVE  UNCHANGED poolVars /\ UNCHANGED <<balance, txns>>
    BY <1>6 DEF Push, PushRead, PushClaim, MerchantDecides, Expire, walletVars,
                poolVars
  <1>7. CASE UNCHANGED vars
    BY <1>5, <1>7 DEF vars, walletVars, poolVars
  <1> QED BY <1>1, <1>2, <1>3, <1>4, <1>5, <1>6, <1>7 DEF Next, Callback

LEMMA LogInvariant == Spec => []LogInv
  BY InitTypeInv, NextTypeInv, InitLog, NextLog, PTL DEF Spec

\* The reconciliation invariant of the cash pools, for any number of them.
THEOREM PoolsLogged == Spec => []CashPoolLogged
  <1>1. LogInv => CashPoolLogged
    BY DEF LogInv, PoolChain, CashPoolLogged, RowsAdd
  <1> QED BY <1>1, LogInvariant, PTL

\* Every balance is where its chain of transactions ends.
THEOREM BalancesLogged == Spec => []BalanceLogged
  <1>1. LogInv => BalanceLogged
    BY DEF LogInv
  <1> QED BY <1>1, LogInvariant, PTL

-----------------------------------------------------------------------------
\* A row about another session is no row of this one.
LEMMA RowsOfOther ==
    ASSUME NEW R, NEW rows \in Seq(R), NEW row, NEW s, row.ref # s
    PROVE  RowsOf(Append(rows, row), s) = RowsOf(rows, s)
  <1> DEFINE longer == Append(rows, row)
             n == Len(rows)
  <1>1. /\ n \in Nat /\ Len(longer) = n + 1 /\ longer[n + 1] = row
        /\ \A i \in 1 .. n : longer[i] = rows[i]
    OBVIOUS
  <1> HIDE DEF longer
  <1>2. RowsOf(longer, s) \subseteq RowsOf(rows, s)
    <2>1. ASSUME NEW i \in 1 .. n + 1, longer[i].ref = s
          PROVE  i \in 1 .. n /\ rows[i].ref = s
      <3>1. i # n + 1
        BY <1>1, <2>1
      <3> QED BY <1>1, <2>1, <3>1
    <2> QED BY <1>1, <2>1 DEF RowsOf
  <1>3. RowsOf(rows, s) \subseteq RowsOf(longer, s)
    BY <1>1 DEF RowsOf
  <1> QED BY <1>2, <1>3 DEF longer

\* What must stay as it is once s has a terminal status.
Kept(s) == /\ wstatus'[s] = wstatus[s]
           /\ RowsOf(txns[Owner[s]], s)' = RowsOf(txns[Owner[s]], s)
           /\ RowsOf(cashPoolLog[wmerchant[s]], s)'
                 = RowsOf(cashPoolLog[wmerchant[s]], s)

\* A step that keeps the transactions, the pool log, the merchant and the
\* status of a session keeps what must stay.
LEMMA KeptFrame ==
    ASSUME NEW s \in Withdrawals, wstatus'[s] = wstatus[s],
           wmerchant'[s] = wmerchant[s], txns' = txns, cashPoolLog' = cashPoolLog
    PROVE  Kept(s)
  BY DEF Kept, RowsOf

\* So does one that appends a row about another session to one pool's log.
LEMMA KeptPoolRow ==
    ASSUME WalletTypeOK, NEW s \in Withdrawals, NEW m \in Finance,
           wmerchant[s] \in Finance, wstatus'[s] = wstatus[s],
           wmerchant'[s] = wmerchant[s], txns' = txns, NEW row, row.ref # s,
           cashPoolLog' = [cashPoolLog EXCEPT ![m] = Append(@, row)]
    PROVE  Kept(s)
  <1>1. cashPoolLog[m] \in Seq(PoolRow)
    BY DEF WalletTypeOK
  <1>2. RowsOf(Append(cashPoolLog[m], row), s) = RowsOf(cashPoolLog[m], s)
    BY <1>1, RowsOfOther
  <1>3. cashPoolLog'[wmerchant[s]] =
           IF wmerchant[s] = m THEN Append(cashPoolLog[m], row)
                               ELSE cashPoolLog[wmerchant[s]]
    BY DEF WalletTypeOK
  <1>4. RowsOf(cashPoolLog'[wmerchant[s]], s) = RowsOf(cashPoolLog[wmerchant[s]], s)
    BY <1>2, <1>3
  <1> QED BY <1>4 DEF Kept, RowsOf

\* No step disturbs a session that has ended.
LEMMA NextKeeps ==
    ASSUME TypeInv, [Next]_vars, NEW s \in Withdrawals, wstatus[s] \in Terminal
    PROVE  Kept(s)
  <1>0. /\ WalletTypeOK /\ wmerchant[s] \in Finance
        /\ wstatus \in [Withdrawals -> Statuses]
        /\ wmerchant \in [Withdrawals -> Finance \cup {NoMerchant}]
        /\ request[s] = "idle"
        /\ \A t \in Withdrawals : request[t] # "idle" => wstatus[t] = "unused"
        /\ \A t \in Withdrawals :
              request[t] = "picked" \/ wstatus[t] # "unused" => wmerchant[t] \in Finance
        /\ request \in [Withdrawals -> {"idle", "checked", "picked"}]
    BY DEF TypeInv, TypeOK, Routed, Terminal
  <1>1. ASSUME NEW t \in Withdrawals, Request(t)
        PROVE  Kept(s)
    <2>1. t # s \/ CheckOpen(t)
      BY <1>0, <1>1 DEF Request, PickMerchant, ReserveWithdraw, AbortRequest
    <2>2. CASE CheckOpen(t)
      BY <2>2, KeptFrame DEF CheckOpen, walletVars
    <2>3. ASSUME NEW m \in Finance, PickMerchant(t, m), t # s
          PROVE  Kept(s)
      BY <1>0, <2>3, KeptFrame DEF PickMerchant, accountVars, poolVars
    <2>4. CASE t # s /\ ReserveWithdraw(t)
      <3> DEFINE row == LogRow("merchant_withdraw_cash_pool", t, -Net(t),
                               cashPool[wmerchant[t]])
      <3>1. row.ref # s
        BY <2>4 DEF LogRow
      <3>2. /\ cashPoolLog' = [cashPoolLog EXCEPT ![wmerchant[t]] = Append(@, row)]
            /\ wstatus'[s] = wstatus[s] /\ wmerchant' = wmerchant /\ txns' = txns
            /\ wmerchant[t] \in Finance
        BY <1>0, <2>4 DEF ReserveWithdraw
      <3> HIDE DEF row
      <3> QED BY <1>0, <3>1, <3>2, KeptPoolRow
    <2>5. CASE t # s /\ AbortRequest(t)
      BY <1>0, <2>5, KeptFrame DEF AbortRequest, accountVars, poolVars
    <2> QED BY <1>1, <2>1, <2>2, <2>3, <2>4, <2>5 DEF Request
  <1>2. ASSUME NEW t \in Withdrawals, Push(t)
        PROVE  Kept(s)
    <2>1. CASE PushRead(t)
      BY <2>1, KeptFrame DEF PushRead, walletVars, requestVars
    <2>2. CASE PushClaim(t)
      <3>1. wstatus'[s] = wstatus[s]
        BY <1>0, <2>2 DEF PushClaim, StillPending, Terminal
      <3> QED BY <2>2, <3>1, KeptFrame DEF PushClaim, walletVars
    <2> QED BY <1>2, <2>1, <2>2 DEF Push
  <1>3. ASSUME NEW t \in Withdrawals, FinalizeFailed(t)
        PROVE  Kept(s)
    <2> DEFINE row == LogRow("withdraw_reversal_cash_pool", t, Net(t),
                             cashPool[wmerchant[t]])
    <2>1. t # s /\ row.ref # s /\ wmerchant[t] \in Finance
      BY <1>0, <1>3 DEF FinalizeFailed, NotFinalized, Terminal, LogRow
    <2>2. wstatus'[s] = wstatus[s] /\ wmerchant' = wmerchant /\ txns' = txns
      BY <1>0, <1>3, <2>1 DEF FinalizeFailed
    <2>3. \/ cashPoolLog' = cashPoolLog
          \/ cashPoolLog' = [cashPoolLog EXCEPT ![wmerchant[t]] = Append(@, row)]
      BY <1>3 DEF FinalizeFailed, WriteCashPoolDelta, Reversed, poolVars
    <2> HIDE DEF row
    <2> QED BY <1>0, <2>1, <2>2, <2>3, KeptFrame, KeptPoolRow
  <1>4. ASSUME NEW t \in Withdrawals, FinalizeSuccess(t)
        PROVE  Kept(s)
    <2> DEFINE row == [type |-> "merchant_withdraw", ref |-> t,
                       change |-> -Amount[t],
                       after |-> balance[Owner[t]] + -Amount[t]]
    <2>1. t # s /\ row.ref # s
      BY <1>4 DEF FinalizeSuccess, NotFinalized, Terminal
    <2>2. /\ wstatus'[s] = wstatus[s] /\ wmerchant' = wmerchant
          /\ cashPoolLog' = cashPoolLog
          /\ txns' = [txns EXCEPT ![Owner[t]] = Append(@, row)]
      BY <1>0, <1>4, <2>1 DEF FinalizeSuccess, AppendTx, poolVars
    <2> HIDE DEF row
    <2>3. txns \in [Members -> Seq(TxRow)] /\ Owner[s] \in Members /\ Owner[t] \in Members
      <3>1. WalletTypeOK
        BY <1>0
      <3> QED BY <3>1 DEF WalletTypeOK, AccountsTypeOK
    <2>4. RowsOf(Append(txns[Owner[t]], row), s) = RowsOf(txns[Owner[t]], s)
      BY <2>1, <2>3, RowsOfOther
    <2>5. txns'[Owner[s]] = IF Owner[s] = Owner[t] THEN Append(txns[Owner[t]], row)
                                                   ELSE txns[Owner[s]]
      BY <2>2, <2>3
    <2>6. RowsOf(txns'[Owner[s]], s) = RowsOf(txns[Owner[s]], s)
      BY <2>4, <2>5
    <2> QED BY <2>2, <2>6 DEF Kept, RowsOf
  <1>5. CASE ScanWithdrawTimeouts
    <2> DEFINE m == wmerchant[s]
    <2>1. s \notin DueSessions
      BY DEF DueSessions, Open, Terminal
    <2>2. wstatus'[s] = wstatus[s] /\ wmerchant' = wmerchant /\ txns' = txns
      BY <1>5, <2>1, ScanEffect DEF ScanWithdrawTimeouts
    <2>3. ScannedPool(m)
      BY <1>0, <1>5, ScanEffect
    <2>4. ASSUME NEW t \in DueSessions,
                 cashPoolLog'[m] = Append(cashPoolLog[m],
                    LogRow("withdraw_timeout_cash_pool", t, Net(t), cashPool[m]))
          PROVE  RowsOf(cashPoolLog'[m], s) = RowsOf(cashPoolLog[m], s)
      <3> DEFINE row == LogRow("withdraw_timeout_cash_pool", t, Net(t), cashPool[m])
      <3>1. row.ref # s
        BY <2>1, <2>4 DEF LogRow
      <3>2. cashPoolLog[m] \in Seq(PoolRow) /\ cashPoolLog'[m] = Append(cashPoolLog[m], row)
        BY <1>0, <2>4 DEF WalletTypeOK
      <3> HIDE DEF row
      <3> QED BY <3>1, <3>2, RowsOfOther
    <2>5. RowsOf(cashPoolLog'[m], s) = RowsOf(cashPoolLog[m], s)
      BY <2>3, <2>4 DEF ScannedPool
    <2> QED BY <2>2, <2>5 DEF Kept, RowsOf
  <1>6. ASSUME NEW t \in Withdrawals, NEW d \in {"paid", "refused"},
               MerchantDecides(t, d) \/ Expire(t)
        PROVE  Kept(s)
    BY <1>6, KeptFrame DEF MerchantDecides, Expire, walletVars, requestVars
  <1>7. CASE UNCHANGED vars
    BY <1>7, KeptFrame DEF vars, walletVars, withdrawVars, requestVars
  <1> QED BY <1>1, <1>2, <1>3, <1>4, <1>5, <1>6, <1>7 DEF Next, Callback

\* A session that has ended keeps its status and gets no further row, whatever
\* callback, push or scan comes late.
THEOREM Final == Spec => FinalizedIsFinal
  <1>1. TypeInv /\ [Next]_vars =>
           [\A s \in Withdrawals : wstatus[s] \in Terminal =>
              /\ wstatus'[s] = wstatus[s]
              /\ RowsOf(txns[Owner[s]], s)' = RowsOf(txns[Owner[s]], s)
              /\ RowsOf(cashPoolLog[wmerchant[s]], s)'
                    = RowsOf(cashPoolLog[wmerchant[s]], s)]_vars
    BY NextKeeps DEF Kept
  <1> QED BY <1>1, InitTypeInv, NextTypeInv, PTL DEF Spec, FinalizedIsFinal

-----------------------------------------------------------------------------
\* A push reads without a lock, but only one UPDATE finds the session pending.
LEMMA NextPushed ==
    ASSUME TypeInv, PushedAtMostOnce, [Next]_vars
    PROVE  PushedAtMostOnce'
  <1>0. /\ wstatus \in [Withdrawals -> Statuses]
        /\ outbound \in [Withdrawals -> Nat]
        /\ \A s \in Withdrawals : request[s] # "idle" => wstatus[s] = "unused"
    BY DEF TypeInv, TypeOK, Routed
  <1> SUFFICES ASSUME NEW s \in Withdrawals
               PROVE  outbound'[s] <= IF wstatus'[s] \in {"unused", "pending"}
                                      THEN 0 ELSE 1
    BY DEF PushedAtMostOnce
  <1>1. outbound[s] <= IF wstatus[s] \in {"unused", "pending"} THEN 0 ELSE 1
    BY DEF PushedAtMostOnce
  <1>2. ASSUME outbound' = outbound,
               wstatus'[s] \in {"unused", "pending"} =>
                  wstatus[s] \in {"unused", "pending"}
        PROVE  outbound'[s] <= IF wstatus'[s] \in {"unused", "pending"}
                               THEN 0 ELSE 1
    BY <1>0, <1>1, <1>2
  <1>3. ASSUME NEW t \in Withdrawals, Request(t)
        PROVE  /\ outbound' = outbound
               /\ wstatus'[s] \in {"unused", "pending"} =>
                     wstatus[s] \in {"unused", "pending"}
    BY <1>0, <1>3 DEF Request, CheckOpen, PickMerchant, ReserveWithdraw,
                      AbortRequest, pushVars
  <1>4. ASSUME NEW t \in Withdrawals, Callback(t)
        PROVE  /\ outbound' = outbound
               /\ wstatus'[s] \in {"unused", "pending"} =>
                     wstatus[s] \in {"unused", "pending"}
    BY <1>0, <1>4 DEF Callback, FinalizeFailed, FinalizeSuccess, pushVars
  <1>5. ASSUME ScanWithdrawTimeouts
        PROVE  /\ outbound' = outbound
               /\ wstatus'[s] \in {"unused", "pending"} =>
                     wstatus[s] \in {"unused", "pending"}
    BY <1>5, ScanEffect DEF ScanWithdrawTimeouts, pushVars
  <1>6. ASSUME NEW t \in Withdrawals, NEW d \in {"paid", "refused"},
               PushRead(t) \/ MerchantDecides(t, d) \/ Expire(t)
        PROVE  outbound' = outbound /\ wstatus' = wstatus
    BY <1>6 DEF PushRead, MerchantDecides, Expire, requestVars, pushVars
  <1>7. ASSUME NEW t \in Withdrawals, PushClaim(t)
        PROVE  outbound'[s] <= IF wstatus'[s] \in {"unused", "pending"}
                               THEN 0 ELSE 1
    <2>1. CASE t = s /\ StillPending(s)
      <3>1. wstatus'[s] = "sent_to_merchant" /\ outbound'[s] = outbound[s] + 1
        BY <1>0, <1>7, <2>1 DEF PushClaim
      <3> QED BY <1>0, <1>1, <2>1, <3>1 DEF StillPending
    <2>2. CASE ~(t = s /\ StillPending(s))
      <3>1. wstatus'[s] = wstatus[s] /\ outbound'[s] = outbound[s]
        BY <1>0, <1>7, <2>2 DEF PushClaim
      <3> QED BY <1>1, <3>1
    <2> QED BY <2>1, <2>2
  <1>8. CASE UNCHANGED vars
    BY <1>1, <1>8 DEF vars, withdrawVars, requestVars, pushVars
  <1> QED BY <1>2, <1>3, <1>4, <1>5, <1>6, <1>7, <1>8 DEF Next, Push

\* However many pushes read the session, its provider is called once, and not
\* before the session has left pending.
THEOREM PushedOnce == Spec => []PushedAtMostOnce
  <1>1. Init => PushedAtMostOnce
    BY DEF Init, WithdrawInit, PushedAtMostOnce
  <1>2. TypeInv /\ PushedAtMostOnce /\ [Next]_vars => PushedAtMostOnce'
    BY NextPushed
  <1> QED BY <1>1, <1>2, InitTypeInv, NextTypeInv, PTL DEF Spec

-----------------------------------------------------------------------------
\* The pool never pays what it has not got: with the merchant's row a request
\* writes only what its condition found there.
LEMMA NextOverdraft ==
    ASSUME TypeInv, PoolWithinOverdraft, [Next]_vars
    PROVE  PoolWithinOverdraft'
  <1>0. /\ cashPool \in [Finance -> Int] /\ WalletTypeOK
        /\ \A t \in Withdrawals :
              request[t] = "picked" \/ wstatus[t] # "unused" => wmerchant[t] \in Finance
    BY DEF TypeInv, TypeOK, Routed, WalletTypeOK
  <1> SUFFICES ASSUME FeesWithinAmount, NEW m \in Finance
               PROVE  Capacity(m)' >= 0
    BY DEF PoolWithinOverdraft
  <1>1. /\ cashPool[m] + Overdraft[m] >= 0
        /\ cashPool[m] \in Int /\ Overdraft[m] \in Nat
    BY <1>0 DEF PoolWithinOverdraft, Capacity
  <1>2. ASSUME NEW t \in Withdrawals, wmerchant[t] \in Finance
        PROVE  Net(t) \in Nat
    <2>1. /\ Amount[t] \in Nat /\ WithdrawFee[wmerchant[t]][t] \in Nat
          /\ WithdrawFee[wmerchant[t]][t] <= Amount[t]
      BY <1>2 DEF FeesWithinAmount
    <2> QED BY <2>1 DEF Net, NetAt
  <1>3. ASSUME cashPool'[m] \in Int, cashPool'[m] >= cashPool[m]
        PROVE  Capacity(m)' >= 0
    BY <1>1, <1>3 DEF Capacity
  <1>4. ASSUME NEW t \in Withdrawals, ReserveWithdraw(t)
        PROVE  Capacity(m)' >= 0
    <2>1. wmerchant[t] \in Finance /\ Net(t) \in Nat
      BY <1>0, <1>2, <1>4 DEF ReserveWithdraw
    <2>2. /\ cashPool' = [cashPool EXCEPT ![wmerchant[t]] = @ - Net(t)]
          /\ cashPool[wmerchant[t]] + Overdraft[wmerchant[t]] >= Net(t)
      BY <1>4 DEF ReserveWithdraw, PoolStillCovers, Capacity
    <2>3. CASE m = wmerchant[t]
      <3>1. cashPool'[m] = cashPool[m] - Net(t)
        BY <1>0, <2>2, <2>3
      <3> QED BY <1>1, <2>1, <2>2, <2>3, <3>1 DEF Capacity
    <2>4. CASE m # wmerchant[t]
      BY <1>0, <1>1, <2>2, <2>4 DEF Capacity
    <2> QED BY <2>3, <2>4
  <1>5. ASSUME NEW t \in Withdrawals, FinalizeFailed(t)
        PROVE  cashPool'[m] \in Int /\ cashPool'[m] >= cashPool[m]
    <2>1. wmerchant[t] \in Finance /\ Net(t) \in Nat
      BY <1>0, <1>2, <1>5 DEF FinalizeFailed, NotFinalized
    <2>2. \/ cashPool' = cashPool
          \/ cashPool' = [cashPool EXCEPT ![wmerchant[t]] = @ + Net(t)]
      BY <1>5 DEF FinalizeFailed, WriteCashPoolDelta, Reversed, poolVars
    <2> QED BY <1>0, <1>1, <2>1, <2>2
  <1>6. ASSUME ScanWithdrawTimeouts
        PROVE  cashPool'[m] \in Int /\ cashPool'[m] >= cashPool[m]
    <2>1. ScannedPool(m)
      BY <1>6, ScanEffect
    <2>2. ASSUME NEW t \in DueSessions, wmerchant[t] = m
          PROVE  Net(t) \in Nat
      BY <1>2, <2>2 DEF DueSessions, Open
    <2> QED BY <1>1, <2>1, <2>2 DEF ScannedPool
  <1>7. ASSUME NEW t \in Withdrawals, NEW d \in {"paid", "refused"},
               \/ Request(t) /\ ~ReserveWithdraw(t)
               \/ Push(t) \/ MerchantDecides(t, d)
               \/ FinalizeSuccess(t) \/ Expire(t)
        PROVE  cashPool' = cashPool
    BY <1>7 DEF Request, CheckOpen, PickMerchant, AbortRequest, Push, PushRead,
                PushClaim, MerchantDecides, FinalizeSuccess, Expire, walletVars,
                poolVars
  <1>8. CASE UNCHANGED vars
    BY <1>1, <1>3, <1>8 DEF vars, walletVars
  <1> QED BY <1>1, <1>3, <1>4, <1>5, <1>6, <1>7, <1>8 DEF Next, Callback

\* No interleaving of requests, reversals and scans takes a pool below its
\* overdraft, for any commissions that do not exceed the amounts.
THEOREM PoolsCovered == Spec => []PoolWithinOverdraft
  <1>1. Init => PoolWithinOverdraft
    BY DEF Init, WalletInit, PoolWithinOverdraft, Capacity
  <1>2. TypeInv /\ PoolWithinOverdraft /\ [Next]_vars => PoolWithinOverdraft'
    BY NextOverdraft
  <1> QED BY <1>1, <1>2, InitTypeInv, NextTypeInv, PTL DEF Spec

-----------------------------------------------------------------------------
\* The first row about a session is the only one.
LEMMA RowsOfOwn ==
    ASSUME NEW R, NEW rows \in Seq(R), NEW row, NEW s, row.ref = s,
           RowsOf(rows, s) = {}
    PROVE  RowsOf(Append(rows, row), s) = {Len(rows) + 1}
  <1> DEFINE longer == Append(rows, row)
             n == Len(rows)
  <1>1. /\ n \in Nat /\ Len(longer) = n + 1 /\ longer[n + 1] = row
        /\ \A i \in 1 .. n : longer[i] = rows[i]
    OBVIOUS
  <1> HIDE DEF longer
  <1>2. ASSUME NEW i \in 1 .. n + 1, longer[i].ref = s
        PROVE  i = n + 1
    <2>1. CASE i # n + 1
      <3>1. i \in 1 .. n /\ rows[i].ref = s
        BY <1>1, <1>2, <2>1
      <3> QED BY <3>1 DEF RowsOf
    <2> QED BY <2>1
  <1>3. n + 1 \in 1 .. n + 1 /\ longer[n + 1].ref = s
    BY <1>1
  <1>4. RowsOf(longer, s) = {i \in 1 .. n + 1 : longer[i].ref = s}
    BY <1>1 DEF RowsOf
  <1>5. RowsOf(longer, s) = {n + 1}
    BY <1>2, <1>3, <1>4
  <1> QED BY <1>5 DEF longer

\* What DebitedOnce says of one session.
PenaltiesOf(s) == {row \in pointsLog : row[1] = s}
Debited(s) ==
    IF wstatus[s] = "success"
    THEN /\ Cardinality(RowsOf(txns[Owner[s]], s)) = 1
         /\ \A i \in RowsOf(txns[Owner[s]], s) :
               txns[Owner[s]][i].change = -Amount[s]
         /\ Penalty(Amount[s]) > 0 => Cardinality(PenaltiesOf(s)) = 1
    ELSE RowsOf(txns[Owner[s]], s) = {} /\ PenaltiesOf(s) = {}

LEMMA DebitedForm == DebitedOnce <=> \A s \in Withdrawals : Debited(s)
  BY DEF DebitedOnce, Debited, RowsOf, PenaltiesOf

\* A step that writes no transaction and no penalty, and ends no session in
\* success, changes nothing about a debit.
LEMMA DebitedFrame ==
    ASSUME NEW s \in Withdrawals, Debited(s), txns' = txns,
           pointsLog' = pointsLog,
           wstatus'[s] = "success" <=> wstatus[s] = "success"
    PROVE  Debited(s)'
  BY DEF Debited, PenaltiesOf, RowsOf

\* A success debits its own session once.
LEMMA SuccessDebits ==
    ASSUME TypeInv, NEW s \in Withdrawals, Debited(s), FinalizeSuccess(s)
    PROVE  Debited(s)'
  <1> DEFINE u == Owner[s]
             row == [type |-> "merchant_withdraw", ref |-> s,
                     change |-> -Amount[s], after |-> balance[u] + -Amount[s]]
             n == Len(txns[u]) + 1
  <1>1. RowsOf(txns[u], s) = {} /\ PenaltiesOf(s) = {}
    BY DEF FinalizeSuccess, NotFinalized, Debited
  <1>2. /\ txns \in [Members -> Seq(TxRow)] /\ u \in Members
        /\ wstatus \in [Withdrawals -> Statuses]
        /\ Amount[s] \in Nat
    BY DEF TypeInv, TypeOK, WalletTypeOK, AccountsTypeOK
  <1>3. txns'[u] = Append(txns[u], row) /\ wstatus'[s] = "success"
    BY <1>2 DEF FinalizeSuccess, AppendTx
  <1>4. row.ref = s /\ row.change = -Amount[s]
    OBVIOUS
  <1> HIDE DEF row
  <1>5. RowsOf(txns'[u], s) = {n} /\ txns'[u][n] = row
    <2>1. txns[u] \in Seq(TxRow)
      BY <1>2
    <2>2. RowsOf(Append(txns[u], row), s) = {n}
      BY <1>1, <1>4, <2>1, RowsOfOwn
    <2>3. Append(txns[u], row)[n] = row
      BY <2>1
    <2> QED BY <1>3, <2>2, <2>3
  <1>6. Cardinality(RowsOf(txns'[u], s)) = 1
    BY <1>5, FS_Singleton
  <1>7. \A i \in RowsOf(txns'[u], s) : txns'[u][i].change = -Amount[s]
    BY <1>4, <1>5
  <1>8. ASSUME Penalty(Amount[s]) > 0
        PROVE  Cardinality(PenaltiesOf(s)') = 1
    <2>1. s \notin {r[1] : r \in pointsLog}
      BY <1>1 DEF PenaltiesOf
    <2>2. pointsLog' = pointsLog \cup {<<s, Penalty(Amount[s])>>}
      BY <1>8, <2>1 DEF FinalizeSuccess, ApplyWithdrawPenalty
    <2>3. PenaltiesOf(s)' = {<<s, Penalty(Amount[s])>>}
      <3>1. <<s, Penalty(Amount[s])>>[1] = s
        OBVIOUS
      <3> QED BY <1>1, <2>2, <3>1 DEF PenaltiesOf
    <2> QED BY <2>3, FS_Singleton
  <1> QED BY <1>3, <1>6, <1>7, <1>8 DEF Debited, RowsOf

\* It leaves the debit of every other session alone.
LEMMA SuccessSpares ==
    ASSUME TypeInv, NEW s \in Withdrawals, NEW t \in Withdrawals, t # s,
           Debited(s), FinalizeSuccess(t)
    PROVE  Debited(s)'
  <1> DEFINE u == Owner[t]
             v == Owner[s]
             row == [type |-> "merchant_withdraw", ref |-> t,
                     change |-> -Amount[t], after |-> balance[u] + -Amount[t]]
  <1>1. /\ txns \in [Members -> Seq(TxRow)] /\ u \in Members /\ v \in Members
        /\ wstatus \in [Withdrawals -> Statuses]
    BY DEF TypeInv, TypeOK, WalletTypeOK, AccountsTypeOK
  <1>2. /\ txns' = [txns EXCEPT ![u] = Append(@, row)]
        /\ wstatus'[s] = wstatus[s] /\ row.ref # s
    BY <1>1 DEF FinalizeSuccess, AppendTx
  <1>3. PenaltiesOf(s)' = PenaltiesOf(s)
    <2>1. \/ pointsLog' = pointsLog
          \/ pointsLog' = pointsLog \cup {<<t, Penalty(Amount[t])>>}
      BY DEF FinalizeSuccess, ApplyWithdrawPenalty
    <2>2. <<t, Penalty(Amount[t])>>[1] = t
      OBVIOUS
    <2> QED BY <2>1, <2>2 DEF PenaltiesOf
  <1> HIDE DEF row
  <1>4. RowsOf(txns'[v], s) = RowsOf(txns[v], s)
    BY <1>1, <1>2, RowsOfOther
  <1>5. \A i \in RowsOf(txns[v], s) : txns'[v][i] = txns[v][i]
    <2>1. CASE v # u
      BY <1>1, <1>2, <2>1
    <2>2. CASE v = u
      <3>1. txns'[v] = Append(txns[v], row) /\ txns[v] \in Seq(TxRow)
        BY <1>1, <1>2, <2>2
      <3>2. \A i \in 1 .. Len(txns[v]) : Append(txns[v], row)[i] = txns[v][i]
        BY <3>1
      <3> QED BY <3>1, <3>2 DEF RowsOf
    <2> QED BY <2>1, <2>2
  <1>6. RowsOf(txns[v], s)' = RowsOf(txns'[v], s)
    BY DEF RowsOf
  <1> QED BY <1>2, <1>3, <1>4, <1>5, <1>6 DEF Debited

\* Every step keeps a session debited once or not at all.
LEMMA NextDebited ==
    ASSUME TypeInv, DebitedOnce, [Next]_vars
    PROVE  DebitedOnce'
  <1> SUFFICES ASSUME NEW s \in Withdrawals PROVE Debited(s)'
    BY DebitedForm DEF DebitedOnce, Debited, RowsOf, PenaltiesOf
  <1>0. /\ Debited(s) /\ wstatus \in [Withdrawals -> Statuses]
        /\ \A t \in Withdrawals : request[t] # "idle" => wstatus[t] = "unused"
    BY DebitedForm DEF TypeInv, TypeOK, Routed
  <1>1. ASSUME NEW t \in Withdrawals,
               Request(t) \/ Push(t) \/ FinalizeFailed(t)
        PROVE  /\ txns' = txns /\ pointsLog' = pointsLog
               /\ wstatus'[s] = "success" <=> wstatus[s] = "success"
    <2>1. CASE Request(t)
      BY <1>0, <2>1 DEF Request, CheckOpen, PickMerchant, ReserveWithdraw,
                 AbortRequest, walletVars, accountVars, poolVars, loyaltyVars
    <2>2. CASE Push(t)
      BY <1>0, <2>2 DEF Push, PushRead, PushClaim, StillPending, walletVars,
                        requestVars, loyaltyVars
    <2>3. CASE FinalizeFailed(t)
      BY <1>0, <2>3 DEF FinalizeFailed, NotFinalized, loyaltyVars
    <2> QED BY <1>1, <2>1, <2>2, <2>3
  <1>2. ASSUME ScanWithdrawTimeouts
        PROVE  /\ txns' = txns /\ pointsLog' = pointsLog
               /\ wstatus'[s] = "success" <=> wstatus[s] = "success"
    BY <1>0, <1>2, ScanEffect
       DEF ScanWithdrawTimeouts, DueSessions, Open, loyaltyVars
  <1>3. ASSUME NEW t \in Withdrawals, NEW d \in {"paid", "refused"},
               MerchantDecides(t, d) \/ Expire(t)
        PROVE  txns' = txns /\ pointsLog' = pointsLog /\ wstatus' = wstatus
    BY <1>3 DEF MerchantDecides, Expire, walletVars, requestVars, loyaltyVars
  <1>4. CASE UNCHANGED vars
    BY <1>0, <1>4, DebitedFrame DEF vars, walletVars, withdrawVars, requestVars,
                                    loyaltyVars
  <1> QED BY <1>0, <1>1, <1>2, <1>3, <1>4, DebitedFrame, SuccessDebits,
             SuccessSpares DEF Next, Callback

\* A member pays for a withdrawal once, and only for one that succeeded.
THEOREM DebitsOnce == Spec => []DebitedOnce
  <1>1. Init => DebitedOnce
    <2>1. ASSUME Init, NEW s \in Withdrawals
          PROVE  Debited(s)
      <3>1. \A i \in 1 .. Len(txns[Owner[s]]) : txns[Owner[s]][i].ref # s
        <4>1. \/ txns[Owner[s]] = << >>
              \/ /\ Len(txns[Owner[s]]) = 1
                 /\ txns[Owner[s]][1].ref = NoRef
          BY <2>1 DEF Init, WalletInit, AccountsInit
        <4> QED BY <4>1
      <3> QED BY <2>1, <3>1 DEF Init, WithdrawInit, Debited, RowsOf, PenaltiesOf
    <2> QED BY <2>1, DebitedForm
  <1>2. TypeInv /\ DebitedOnce /\ [Next]_vars => DebitedOnce'
    BY NextDebited
  <1> QED BY <1>1, <1>2, InitTypeInv, NextTypeInv, PTL DEF Spec

-----------------------------------------------------------------------------
\* Penalties and cooldown.
CostsOf(u) == {row \in pointsLog : Owner[row[1]] = u}
CostOf(u) == SumFunctionOnSet([row \in CostsOf(u) |-> row[2]], CostsOf(u))
WithdrawalsOf(u) == Cardinality(WithdrawRows(txns[u]))

CooldownExact ==
    \A u \in Members : u \in cooldown <=> WithdrawalsOf(u) >= CooldownThreshold
PointsExact ==
    \A u \in Members : totalPoints[u] = Clamp(OpeningPoints[u] - CostOf(u))
PenaltyInv == IsFiniteSet(pointsLog) /\ CooldownExact /\ PointsExact

LEMMA PenaltiesForm == CooldownExact /\ PointsExact <=> PenaltiesApplied
  BY DEF CooldownExact, PointsExact, PenaltiesApplied, CostOf, CostsOf,
         WithdrawalsOf, SumFunction

\* A row of a completed withdrawal raises their number by one.
LEMMA WithdrawRowsGrow ==
    ASSUME NEW R, NEW rows \in Seq(R), NEW row, row.type = "merchant_withdraw"
    PROVE  /\ Cardinality(WithdrawRows(rows)) \in Nat
           /\ Cardinality(WithdrawRows(Append(rows, row)))
                 = Cardinality(WithdrawRows(rows)) + 1
  <1> DEFINE longer == Append(rows, row)
             n == Len(rows)
             W == WithdrawRows(rows)
  <1>1. /\ n \in Nat /\ Len(longer) = n + 1 /\ longer[n + 1] = row
        /\ \A i \in 1 .. n : longer[i] = rows[i]
    OBVIOUS
  <1>2. 1 .. n + 1 = (1 .. n) \cup {n + 1} /\ n + 1 \notin 1 .. n
    BY <1>1
  <1>3. IsFiniteSet(1 .. n)
    BY <1>1, FS_Interval
  <1> HIDE DEF longer
  <1>4. WithdrawRows(longer) = W \cup {n + 1}
    BY <1>1, <1>2 DEF WithdrawRows
  <1>5. n + 1 \notin W /\ IsFiniteSet(W)
    BY <1>2, <1>3, FS_Subset DEF WithdrawRows
  <1> HIDE DEF W
  <1> QED BY <1>4, <1>5, FS_AddElement, FS_CardinalityType DEF W, longer

\* A step that leaves transactions, points and cooldown alone.
LEMMA PenaltyFrame ==
    ASSUME PenaltyInv, UNCHANGED <<txns, loyaltyVars>>
    PROVE  PenaltyInv'
  BY DEF PenaltyInv, CooldownExact, PointsExact, loyaltyVars, CostOf, CostsOf,
         WithdrawalsOf

\* The withdrawal just completed counts towards the member's cooldown.
LEMMA SuccessCools ==
    ASSUME TypeInv, CooldownExact, NEW s \in Withdrawals, FinalizeSuccess(s)
    PROVE  CooldownExact'
  <1> DEFINE u == Owner[s]
             row == [type |-> "merchant_withdraw", ref |-> s,
                     change |-> -Amount[s], after |-> balance[u] + -Amount[s]]
  <1>1. txns \in [Members -> Seq(TxRow)] /\ u \in Members
    BY DEF TypeInv, TypeOK, WalletTypeOK, AccountsTypeOK
  <1>2. txns' = [txns EXCEPT ![u] = Append(@, row)]
    BY <1>1 DEF FinalizeSuccess, AppendTx
  <1>3. row.type = "merchant_withdraw"
    OBVIOUS
  <1> HIDE DEF row
  <1>4. txns[u] \in Seq(TxRow) /\ txns'[u] = Append(txns[u], row)
    BY <1>1, <1>2
  <1>5. WithdrawalsOf(u) \in Nat /\ WithdrawalsOf(u)' = WithdrawalsOf(u) + 1
    BY <1>3, <1>4, WithdrawRowsGrow DEF WithdrawalsOf
  <1>6. \A v \in Members \ {u} : WithdrawalsOf(v)' = WithdrawalsOf(v)
    BY <1>1, <1>2 DEF WithdrawalsOf
  <1>7. cooldown' = IF WithdrawalsOf(u)' >= CooldownThreshold
                    THEN cooldown \cup {u} ELSE cooldown
    BY DEF FinalizeSuccess, MaybeSetWithdrawCooldown, WithdrawalsOf
  <1> HIDE DEF u
  <1>8. ASSUME NEW v \in Members \ {u}
        PROVE  v \in cooldown' <=> WithdrawalsOf(v)' >= CooldownThreshold
    BY <1>6, <1>7 DEF CooldownExact
  <1>9. u \in cooldown' <=> WithdrawalsOf(u)' >= CooldownThreshold
    <2>1. CASE WithdrawalsOf(u)' >= CooldownThreshold
      BY <1>7, <2>1
    <2>2. CASE ~(WithdrawalsOf(u)' >= CooldownThreshold)
      <3>1. u \in cooldown' => WithdrawalsOf(u) >= CooldownThreshold
        BY <1>1, <1>7, <2>2 DEF CooldownExact
      <3>2. ~(WithdrawalsOf(u) >= CooldownThreshold)
        BY <1>5, <2>2
      <3> QED BY <2>2, <3>1, <3>2
    <2> QED BY <2>1, <2>2
  <1> QED BY <1>8, <1>9 DEF CooldownExact

\* Clamping once at the end is clamping after every penalty.
LEMMA ClampTwice ==
    ASSUME NEW points \in Int, NEW cost \in Nat
    PROVE  Clamp(Clamp(points) - cost) = Clamp(points - cost)
  BY DEF Clamp

\* A penalty is logged once for a session and takes its points off.
LEMMA SuccessCosts ==
    ASSUME TypeInv, PenaltyInv, NEW s \in Withdrawals, FinalizeSuccess(s)
    PROVE  IsFiniteSet(pointsLog)' /\ PointsExact'
  <1> DEFINE u == Owner[s]
             p == Penalty(Amount[s])
             x == <<s, p>>
  <1>1. /\ u \in Members /\ p \in Nat /\ totalPoints \in [Members -> Nat]
        /\ pointsLog \in SUBSET (Withdrawals \X Nat)
        /\ IsFiniteSet(pointsLog) /\ PointsExact
    <2>1. Amount[s] \in Nat
      OBVIOUS
    <2>2. p \in Nat
      BY <2>1 DEF Penalty
    <2> QED BY <2>2 DEF TypeInv, TypeOK, PenaltyInv
  <1>2. CASE UNCHANGED <<totalPoints, pointsLog>>
    BY <1>1, <1>2 DEF PointsExact, CostOf, CostsOf
  <1>3. CASE ~ UNCHANGED <<totalPoints, pointsLog>>
    <2>1. /\ totalPoints' = [totalPoints EXCEPT ![u] = Clamp(@ - p)]
          /\ pointsLog' = pointsLog \cup {x}
          /\ s \notin {row[1] : row \in pointsLog}
      BY <1>3 DEF FinalizeSuccess, ApplyWithdrawPenalty
    <2>2. x \notin pointsLog /\ x[1] = s /\ x[2] = p
      BY <2>1
    <2>3. IsFiniteSet(pointsLog')
      BY <1>1, <2>1, FS_AddElement
    <2>4. CostsOf(u)' = CostsOf(u) \cup {x} /\ x \notin CostsOf(u)
      BY <2>1, <2>2 DEF CostsOf
    <2>5. \A v \in Members \ {u} : CostsOf(v)' = CostsOf(v)
      BY <2>1, <2>2 DEF CostsOf
    <2>6. IsFiniteSet(CostsOf(u)) /\ \A row \in CostsOf(u) : row[2] \in Nat
      BY <1>1, FS_Subset DEF CostsOf
    <2>7. CostOf(u)' = p + CostOf(u) /\ CostOf(u) \in Nat
      <3> DEFINE S == CostsOf(u)
                 f == [row \in S |-> row[2]]
                 g == [row \in S \cup {x} |-> row[2]]
      <3>1. \A row \in S : f[row] \in Nat /\ f[row] \in Int /\ g[row] = f[row]
        BY <2>6
      <3>2. g[x] = p /\ g[x] \in Int
        BY <1>1, <2>2
      <3>3. CostOf(u)' = SumFunctionOnSet(g, S \cup {x})
        BY <2>4 DEF CostOf
      <3>4. CostOf(u) = SumFunctionOnSet(f, S)
        BY DEF CostOf
      <3>5. IsFiniteSet(S) /\ x \notin S
        BY <2>4, <2>6
      <3> HIDE DEF S, f, g, x, u, p
      <3>6. SumFunctionOnSet(g, S \cup {x}) = g[x] + SumFunctionOnSet(f, S)
        <4>1. \A row \in S : f[row] \in Int /\ g[row] = f[row]
          BY <3>1
        <4> QED BY <3>2, <3>5, <4>1, SumGrow
      <3>7. SumFunctionOnSet(f, S) \in Nat
        BY <3>1, <3>5, SumNat
      <3> QED BY <3>2, <3>3, <3>4, <3>6, <3>7
    <2>8. ASSUME NEW v \in Members \ {u}
          PROVE  totalPoints'[v] = Clamp(OpeningPoints[v] - CostOf(v)')
      BY <1>1, <2>1, <2>5 DEF PointsExact, CostOf
    <2>9. totalPoints'[u] = Clamp(OpeningPoints[u] - CostOf(u)')
      <3>1. totalPoints[u] = Clamp(OpeningPoints[u] - CostOf(u))
        BY <1>1 DEF PointsExact
      <3>2. totalPoints'[u] = Clamp(totalPoints[u] - p)
        BY <1>1, <2>1
      <3>3. OpeningPoints[u] \in Int /\ CostOf(u) \in Int /\ p \in Int
        BY <1>1, <2>7
      <3> HIDE DEF u, p
      <3>4. OpeningPoints[u] - CostOf(u) \in Int
        BY <3>3
      <3>5. Clamp(Clamp(OpeningPoints[u] - CostOf(u)) - p)
               = Clamp((OpeningPoints[u] - CostOf(u)) - p)
        BY <1>1, <3>4, ClampTwice
      <3>6. (OpeningPoints[u] - CostOf(u)) - p = OpeningPoints[u] - CostOf(u)'
        BY <2>7, <3>3
      <3> QED BY <3>1, <3>2, <3>5, <3>6
    <2> QED BY <2>3, <2>8, <2>9 DEF PointsExact
  <1> QED BY <1>2, <1>3

LEMMA NextPenalty == TypeInv /\ PenaltyInv /\ [Next]_vars => PenaltyInv'
  <1> SUFFICES ASSUME TypeInv, PenaltyInv, [Next]_vars PROVE PenaltyInv'
    OBVIOUS
  <1>1. ASSUME NEW s \in Withdrawals, Request(s) \/ Push(s) \/ Expire(s)
        PROVE  UNCHANGED <<txns, loyaltyVars>>
    BY <1>1 DEF Request, CheckOpen, PickMerchant, ReserveWithdraw, AbortRequest,
                Push, PushRead, PushClaim, Expire, walletVars, accountVars,
                loyaltyVars
  <1>2. ASSUME NEW s \in Withdrawals, NEW d \in {"paid", "refused"},
               MerchantDecides(s, d)
        PROVE  UNCHANGED <<txns, loyaltyVars>>
    BY <1>2 DEF MerchantDecides, walletVars, loyaltyVars
  <1>3. ASSUME NEW s \in Withdrawals, FinalizeFailed(s)
        PROVE  UNCHANGED <<txns, loyaltyVars>>
    BY <1>3 DEF FinalizeFailed, loyaltyVars
  <1>4. ASSUME ScanWithdrawTimeouts PROVE UNCHANGED <<txns, loyaltyVars>>
    BY <1>4 DEF ScanWithdrawTimeouts, loyaltyVars
  <1>5. ASSUME UNCHANGED vars PROVE UNCHANGED <<txns, loyaltyVars>>
    BY <1>5 DEF vars, walletVars, withdrawVars, loyaltyVars
  <1>6. ASSUME NEW s \in Withdrawals, FinalizeSuccess(s) PROVE PenaltyInv'
    BY <1>6, SuccessCools, SuccessCosts DEF PenaltyInv
  <1> QED BY <1>1, <1>2, <1>3, <1>4, <1>5, <1>6, PenaltyFrame DEF Next, Callback

LEMMA InitPenalty == Init => PenaltyInv
  <1> SUFFICES ASSUME Init PROVE PenaltyInv
    OBVIOUS
  <1> USE DEF Init, WalletInit, AccountsInit, WithdrawInit
  <1>1. IsFiniteSet(pointsLog)
    BY FS_EmptySet
  <1>2. ASSUME NEW u \in Members
        PROVE  ~(u \in cooldown) /\ ~(WithdrawalsOf(u) >= CooldownThreshold)
    <2>1. \/ txns[u] = << >>
          \/ Len(txns[u]) = 1 /\ txns[u][1].type = "adjustment"
      OBVIOUS
    <2>2. WithdrawRows(txns[u]) = {}
      BY <2>1 DEF WithdrawRows
    <2>3. WithdrawalsOf(u) = 0
      BY <2>2, FS_EmptySet DEF WithdrawalsOf
    <2> QED BY <2>3
  <1>3. ASSUME NEW u \in Members
        PROVE  totalPoints[u] = Clamp(OpeningPoints[u] - CostOf(u))
    <2>1. CostsOf(u) = {}
      BY DEF CostsOf
    <2>2. CostOf(u) = 0
      BY <2>1, SumEmpty DEF CostOf
    <2>3. OpeningPoints[u] \in Nat /\ totalPoints[u] = OpeningPoints[u]
      OBVIOUS
    <2> HIDE DEF Init, WalletInit, AccountsInit, WithdrawInit
    <2> QED BY <2>2, <2>3 DEF Clamp
  <1> QED BY <1>1, <1>2, <1>3 DEF PenaltyInv, CooldownExact, PointsExact

\* A member's points are what the penalties logged leave of the opening ones,
\* and a cooldown starts with the withdrawal that reaches the threshold.
THEOREM PenaltiesExact == Spec => []PenaltiesApplied
  <1>1. PenaltyInv => PenaltiesApplied
    BY PenaltiesForm DEF PenaltyInv
  <1> QED BY <1>1, InitTypeInv, NextTypeInv, InitPenalty, NextPenalty, PTL DEF Spec

-----------------------------------------------------------------------------
\* The refinement of Hold.  The sum of the instance is the one of the module.
LEMMA HoldSums ==
    ASSUME NEW f, NEW S
    PROVE  H!SumFunctionOnSet(f, S) = SumFunctionOnSet(f, S)
  <1>1. H!SumFunctionOnSet(f, S) = (CHOOSE g : Adds(f, g, S))[S]
    BY Zenon DEF H!SumFunctionOnSet, H!FoldFunctionOnSet, H!MapThenFoldSet, Adds, Pick
  <1> QED BY <1>1, SumUnfold

Captured == Ended("success")
Released == Ended("failed") \cup Ended("timeout")

\* A step that ends or opens no session and moves no money is no step of Hold.
LEMMA HoldStutters ==
    ASSUME UNCHANGED <<balance, Open, Captured, Released>>
    PROVE  UNCHANGED H!holdVars
  BY DEF H!holdVars, Captured, Released

\* The request that commits places its hold: the lock it has kept since it
\* found the funds, and the index, see to it that they are there.
LEMMA RequestPlaces ==
    ASSUME TypeInv, MoneyInv, NEW s \in Withdrawals, ReserveWithdraw(s)
    PROVE  H!Place(s)
  <1> DEFINE u == Owner[s]
  <1>0. /\ u \in Members /\ Amount[s] \in Nat /\ balance[u] \in Int
        /\ wstatus \in [Withdrawals -> Statuses]
    BY DEF TypeInv, TypeOK, WalletTypeOK, AccountsTypeOK
  <1>1. /\ request[s] = "picked" /\ OpenOf(u) = {} /\ balance' = balance
        /\ wstatus' = [wstatus EXCEPT ![s] = "pending"] /\ wstatus[s] = "unused"
    BY DEF ReserveWithdraw, UniqueOpen, TypeInv, Routed
  <1>2. H!SetAside(u) = 0
    <2>1. {h \in Open : Owner[h] = u} = {}
      BY <1>1 DEF OpenOf
    <2>2. H!SumFunctionOnSet(Amount, {}) = 0
      BY HoldSums, SumEmpty
    <2> QED BY <2>1, <2>2 DEF H!SetAside
  <1>3. Amount[s] <= balance[u]
    <2>1. reserved[u] = 0 /\ Amount[s] <= Available(u)
      BY <1>0, <1>1 DEF MoneyInv, ReservedMatchesOpen, LockProtectsFunds
    <2> QED BY <1>0, <2>1 DEF Available
  <1>4. s \notin Open \cup Captured \cup Released
    BY <1>1 DEF Open, Captured, Released, Ended
  <1>5. Open' = Open \cup {s} /\ Captured' = Captured /\ Released' = Released
    BY <1>0, <1>1 DEF Open, Captured, Released, Ended
  <1>6. H!SetAside(u) + Amount[s] <= balance[u]
    BY <1>0, <1>2, <1>3
  <1> QED BY <1>1, <1>4, <1>5, <1>6 DEF H!Place, Captured, Released

LEMMA CallbackEnds ==
    ASSUME TypeInv, NEW s \in Withdrawals, Callback(s)
    PROVE  H!Capture(s) \/ H!Release({s})
  <1>0. wstatus \in [Withdrawals -> Statuses]
    BY DEF TypeInv, TypeOK
  <1>1. CASE FinalizeSuccess(s)
    <2>1. s \in Open /\ wstatus' = [wstatus EXCEPT ![s] = "success"]
          /\ balance' = [balance EXCEPT ![Owner[s]] = @ - Amount[s]]
      BY <1>1 DEF FinalizeSuccess, NotFinalized, Open
    <2>2. /\ Open' = Open \ {s} /\ Captured' = Captured \cup {s}
          /\ Released' = Released
      BY <1>0, <2>1 DEF Open, Captured, Released, Ended
    <2> QED BY <2>1, <2>2 DEF H!Capture, Captured, Released
  <1>2. CASE FinalizeFailed(s)
    <2>1. s \in Open /\ wstatus' = [wstatus EXCEPT ![s] = "failed"]
          /\ balance' = balance
      BY <1>2 DEF FinalizeFailed, NotFinalized, Open
    <2>2. /\ Open' = Open \ {s} /\ Captured' = Captured
          /\ Released' = Released \cup {s}
      BY <1>0, <2>1 DEF Open, Captured, Released, Ended
    <2> QED BY <2>1, <2>2 DEF H!Release, Captured, Released
  <1> QED BY <1>1, <1>2 DEF Callback

\* A scan releases the due sessions together.
LEMMA ScanReleases ==
    ASSUME TypeInv, ScanWithdrawTimeouts
    PROVE  H!Release(DueSessions)
  <1>1. /\ wstatus' = [s \in Withdrawals |->
                         IF s \in DueSessions THEN "timeout" ELSE wstatus[s]]
        /\ balance' = balance /\ DueSessions \subseteq Open
    BY ScanEffect DEF ScanWithdrawTimeouts, DueSessions
  <1>2. /\ Open' = Open \ DueSessions /\ Captured' = Captured
        /\ Released' = Released \cup DueSessions
    BY <1>1 DEF Open, Captured, Released, Ended
  <1> QED BY <1>1, <1>2 DEF H!Release, Captured, Released

LEMMA HoldStep ==
    TypeInv /\ MoneyInv /\ [Next]_vars => [H!HoldNext]_(H!holdVars)
  <1> SUFFICES ASSUME TypeInv, MoneyInv, [Next]_vars
               PROVE  [H!HoldNext]_(H!holdVars)
    OBVIOUS
  <1>0. wstatus \in [Withdrawals -> Statuses]
    BY DEF TypeInv, TypeOK
  <1>1. ASSUME UNCHANGED <<balance, wstatus>> PROVE UNCHANGED H!holdVars
    BY <1>1, HoldStutters DEF Open, Captured, Released, Ended
  <1>2. ASSUME NEW s \in Withdrawals, Request(s)
        PROVE  H!Place(s) \/ UNCHANGED H!holdVars
    <2>1. CASE ReserveWithdraw(s)
      BY <2>1, RequestPlaces
    <2>2. CASE ~ReserveWithdraw(s)
      <3>1. UNCHANGED <<balance, wstatus>>
        BY <1>2, <2>2 DEF Request, CheckOpen, PickMerchant, AbortRequest,
                          walletVars, accountVars
      <3> QED BY <1>1, <3>1
    <2> QED BY <2>1, <2>2
  <1>3. ASSUME NEW s \in Withdrawals, Push(s) PROVE UNCHANGED H!holdVars
    <2>1. balance' = balance
          /\ \/ wstatus' = wstatus
             \/ /\ wstatus[s] = "pending"
                /\ wstatus' = [wstatus EXCEPT ![s] = "sent_to_merchant"]
      BY <1>3 DEF Push, PushRead, PushClaim, StillPending, walletVars, requestVars
    <2>2. UNCHANGED <<Open, Captured, Released>>
      BY <1>0, <2>1 DEF Open, Captured, Released, Ended
    <2> QED BY <2>1, <2>2, HoldStutters
  <1>4. ASSUME NEW s \in Withdrawals, NEW d \in {"paid", "refused"},
               MerchantDecides(s, d) \/ Expire(s)
        PROVE  UNCHANGED H!holdVars
    BY <1>1, <1>4 DEF MerchantDecides, Expire, walletVars, requestVars
  <1>5. ASSUME UNCHANGED vars PROVE UNCHANGED H!holdVars
    BY <1>1, <1>5 DEF vars, walletVars, withdrawVars, requestVars
  <1>6. ASSUME NEW s \in Withdrawals, H!Capture(s) \/ H!Release({s}) \/ H!Place(s)
        PROVE  H!HoldNext
    BY <1>6 DEF H!HoldNext
  <1>7. ASSUME H!Release(DueSessions) PROVE H!HoldNext
    <2>1. DueSessions \in SUBSET Withdrawals
      BY DEF DueSessions, Open
    <2> HIDE DEF DueSessions
    <2> QED BY <1>7, <2>1 DEF H!HoldNext
  <1> QED BY <1>2, <1>3, <1>4, <1>5, <1>6, <1>7, CallbackEnds, ScanReleases
          DEF Next

LEMMA HoldInitially == Init => H!HoldInit
  BY DEF Init, WalletInit, AccountsInit, WithdrawInit, H!HoldInit, Open, Ended

\* A withdrawal implements a hold: it sets money aside only while it is there,
\* and ends once, captured by the callback of success or released by any other
\* end, for every interleaving of requests, pushes, callbacks and scans.
THEOREM WithdrawalsAreHolds == Spec => ImplementsHold
  BY InitTypeInv, NextTypeInv, InitMoney, NextMoney, HoldInitially, HoldStep,
     PTL DEF Spec, ImplementsHold, H!HoldSpec
=============================================================================
