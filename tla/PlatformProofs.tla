--------------------------- MODULE PlatformProofs ---------------------------
(***************************************************************************)
(* The theorems of the platform as a whole, where every flow and the back   *)
(* office interleave on the same accounts: for any number of members,       *)
(* merchants, sessions, codes, credits and calls.                           *)
(***************************************************************************)
EXTENDS Platform, Sums

\* What the constants are, in the form the proofs use it.
LEMMA FiniteConstants ==
    /\ IsFiniteSet(Withdrawals) /\ IsFiniteSet(Topups) /\ IsFiniteSet(Codes)
    /\ IsFiniteSet(Credits) /\ IsFiniteSet(Calls)
  <1>1. T!IsFiniteSet(Topups) /\ C!IsFiniteSet(Codes) /\ C!IsFiniteSet(Credits)
    BY PlatformAssumption DEF T!TopupAssumption, C!CommerceAssumption
  <1>2. ASSUME NEW S, T!IsFiniteSet(S) \/ C!IsFiniteSet(S) PROVE IsFiniteSet(S)
    BY <1>2 DEF IsFiniteSet, T!IsFiniteSet, C!IsFiniteSet
  <1> QED BY <1>1, <1>2, PlatformAssumption

LEMMA FlowConstants ==
    /\ \A s \in Withdrawals : /\ Owner[s] \in Members /\ Amount[s] \in Nat \ {0}
                              /\ s \in Refs
    /\ \A t \in Topups : Depositor[t] \in Members /\ Asked[t] \in Nat /\ t \in Refs
    /\ \A c \in Codes : /\ Holder[c] \in Members /\ CodeAmount[c] \in Nat \ {0}
                        /\ c \in Refs
    /\ \A k \in Credits : /\ CreditTo[k] \in Members /\ CreditAmount[k] \in Nat
                          /\ k \in Refs
    /\ \A u \in Members : OpeningBalance[u] \in Nat
    /\ ProviderAmounts \subseteq Nat
    /\ NoRef \notin Refs
    /\ Withdrawals \cap (Topups \cup Codes \cup Credits) = {}
    /\ Topups \cap (Codes \cup Credits) = {}
    /\ NoOne \notin Commerce
  BY PlatformAssumption, LedgerAssumption, AccountsAssumption
     DEF W!WithdrawAssumption, T!TopupAssumption, C!CommerceAssumption

LEMMA TaskConstants ==
    ASSUME NEW c \in Calls
    PROVE  /\ Task[c].op = "adjustBalance" =>
                 Task[c].on \in Members
           /\ Task[c].amount \in Int
           /\ KeyOf[c] \in Keys \cup {NoKey}
  <1>1. Task[c] \in Tasks /\ KeyOf \in [Calls -> Keys \cup {NoKey}]
    BY AdminAssumption
  <1> QED BY <1>1 DEF Tasks

-----------------------------------------------------------------------------
\* Idempotency keys.  A key is stored by the call that did the work, and stays
\* with it.
StoredIsDone == \A k \in stored : \E d \in Calls : KeyOf[d] = k /\ stage[d] = "done"
KeyInv == stage \in [Calls -> Stages] /\ StoredIsDone /\ CachedIsDone

\* A call that is not over moves on to a stage that answers nothing.
LEMMA StageMoves ==
    ASSUME KeyInv, NEW c \in Calls, stage[c] # "done", stage[c] # "cached",
           NEW next \in Stages, next # "cached",
           stage' = [stage EXCEPT ![c] = next],
           \A k \in stored' : k \in stored \/ (k = KeyOf[c] /\ next = "done")
    PROVE  KeyInv'
  <1>1. \A d \in Calls : stage[d] = "done" => stage'[d] = "done"
    BY DEF KeyInv
  <1>2. stage'[c] = next /\ stage' \in [Calls -> Stages]
    BY DEF KeyInv
  <1>3. StoredIsDone'
    BY <1>1, <1>2 DEF KeyInv, StoredIsDone
  <1>4. \A d \in Calls : stage'[d] = "cached" => stage[d] = "cached"
    BY DEF KeyInv
  <1>5. CachedIsDone'
    BY <1>1, <1>4 DEF KeyInv, CachedIsDone
  <1> QED BY <1>2, <1>3, <1>5 DEF KeyInv

\* The probe that finds its key finds the call that did the work.
LEMMA ProbeAnswers ==
    ASSUME KeyInv, NEW c \in Calls, ProbeKey(c), KnownKey(c)
    PROVE  KeyInv'
  <1>1. stage[c] = "idle" /\ stage' = [stage EXCEPT ![c] = "cached"] /\ stored' = stored
    BY DEF ProbeKey
  <1>2. PICK d \in Calls : KeyOf[d] = KeyOf[c] /\ stage[d] = "done"
    BY DEF KeyInv, StoredIsDone, KnownKey
  <1>3. \A e \in Calls : stage[e] = "done" => stage'[e] = "done" /\ e # c
    BY <1>1 DEF KeyInv
  <1>4. stage' \in [Calls -> Stages]
    BY <1>1 DEF KeyInv, Stages
  <1>5. StoredIsDone'
    BY <1>1, <1>3 DEF KeyInv, StoredIsDone
  <1>6. CachedIsDone'
    <2> SUFFICES ASSUME NEW e \in Calls, stage'[e] = "cached"
                 PROVE  \E f \in Calls \ {e} : KeyOf[f] = KeyOf[e] /\ stage'[f] = "done"
      BY DEF CachedIsDone
    <2>1. CASE e = c
      BY <1>2, <1>3, <2>1
    <2>2. CASE e # c
      <3>1. stage[e] = "cached"
        BY <1>1, <2>2 DEF KeyInv
      <3>2. PICK f \in Calls \ {e} : KeyOf[f] = KeyOf[e] /\ stage[f] = "done"
        BY <3>1 DEF KeyInv, CachedIsDone
      <3> QED BY <1>3, <3>2
    <2> QED BY <2>1, <2>2
  <1> QED BY <1>4, <1>5, <1>6 DEF KeyInv

LEMMA AdminKeys ==
    ASSUME KeyInv, NEW c \in Calls, Serve(c)
    PROVE  KeyInv'
  <1>1. CASE ProbeKey(c) /\ KnownKey(c)
    BY <1>1, ProbeAnswers
  <1>2. CASE ProbeKey(c) /\ ~KnownKey(c)
    <2>1. /\ stage[c] = "idle" /\ stage' = [stage EXCEPT ![c] = "running"]
          /\ stored' = stored
      BY <1>2 DEF ProbeKey
    <2> QED BY <2>1, StageMoves DEF Stages
  <1>3. CASE AdjustBalance(c) \/ WritePool(c) \/ WriteSettlement(c) \/ WriteLimit(c)
    <2>1. stage[c] \in {"running", "read"} /\ StoreAndCommit(c)
      BY <1>3 DEF AdjustBalance, WritePool, WriteSettlement, WriteLimit
    <2>2. /\ stage' = [stage EXCEPT ![c] = "done"]
          /\ \A k \in stored' : k \in stored \/ k = KeyOf[c]
      BY <2>1 DEF StoreAndCommit
    <2> QED BY <2>1, <2>2, StageMoves DEF Stages
  <1>4. CASE ReadMerchant(c)
    <2>1. /\ stage[c] = "running" /\ stage' = [stage EXCEPT ![c] = "read"]
          /\ stored' = stored
      BY <1>4 DEF ReadMerchant
    <2> QED BY <2>1, StageMoves DEF Stages
  <1>5. CASE Refuse(c)
    <2>1. /\ stage[c] \in {"running", "read"}
          /\ stage' = [stage EXCEPT ![c] = "refused"] /\ stored' = stored
      BY <1>5 DEF Refuse, KeepsKey
    <2> QED BY <2>1, StageMoves DEF Stages
  <1> QED BY <1>1, <1>2, <1>3, <1>4, <1>5 DEF Serve

LEMMA KeysKept ==
    ASSUME KeyInv, [Next]_vars
    PROVE  KeyInv'
  <1>1. CASE UNCHANGED adminVars
    BY <1>1 DEF adminVars, KeyInv, StoredIsDone, CachedIsDone
  <1>2. CASE AdminStep
    BY <1>2, AdminKeys DEF AdminStep, AdminNext
  <1>3. AdminStep \/ UNCHANGED adminVars
    BY DEF Next, vars, WithdrawStep, TopupStep, CommerceStep
  <1> QED BY <1>1, <1>2, <1>3

LEMMA KeysOpen == Init => KeyInv
  BY DEF Init, AdminInit, KeyInv, StoredIsDone, CachedIsDone, Stages

\* A repeat of a call is answered with a stored result only when the money of
\* that result has moved, for any calls, keys and interleavings with the flows.
THEOREM RepeatsAreDone == Spec => []CachedIsDone
  <1>1. KeyInv => CachedIsDone
    BY DEF KeyInv
  <1> QED BY <1>1, KeysOpen, KeysKept, PTL DEF Spec

-----------------------------------------------------------------------------
\* The accounts.  What a proof about them needs to know of each flow's state.
Shapes ==
    /\ balance \in [Members -> Int]
    /\ txns \in [Members -> Seq(TxRow)]
    /\ wstatus \in [Withdrawals -> W!Statuses]
    /\ tamount \in [Topups -> Nat]
    /\ cstatus \in [Codes -> C!CodeStatuses]
    /\ creditedBy \in [Credits -> Commerce \cup {NoOne}]
    /\ stage \in [Calls -> Stages]

\* What a request or a code that is being made has not become yet.
Fresh ==
    /\ request \in [Withdrawals -> {"idle", "checked", "picked"}]
    /\ \A s \in Withdrawals : request[s] # "idle" => wstatus[s] = "unused"
    /\ counted \in SUBSET Codes
    /\ \A c \in counted : cstatus[c] = "unused"

\* What has gone through: the sets the explanation of a balance sums over.
Succeeded == {s \in Withdrawals : wstatus[s] = "success"}
ToppedUp == {t \in Topups : T!Credited(t)}
Consumed == {c \in Codes : cstatus[c] = "consumed"}
CreditsDone == {k \in Credits : creditedBy[k] # NoOne}
Adjusted == {c \in Calls : stage[c] = "done" /\ Task[c].op = "adjustBalance"}
done == <<Succeeded, ToppedUp, tamount, Consumed, CreditsDone, Adjusted>>

\* A row of the account of u, and what it changes.
RowOf(type, ref, change, u) ==
    [type |-> type, ref |-> ref, change |-> change, after |-> balance[u] + change]
Posts(u, type, ref, change) ==
    /\ balance' = [balance EXCEPT ![u] = @ + change]
    /\ txns' = [txns EXCEPT ![u] = Append(@, RowOf(type, ref, change, u))]

LEMMA RowIsTx ==
    ASSUME Shapes, NEW u \in Members, NEW type \in TxTypes,
           NEW ref \in Refs \cup {NoRef}, NEW change \in Int
    PROVE  RowOf(type, ref, change, u) \in TxRow
  <1>1. balance[u] + change \in Int
    BY DEF Shapes
  <1> QED BY <1>1 DEF RowOf, TxRow

\* A row credits the top-up it refers to, if it stands in its member's account.
LEMMA PostCredits ==
    ASSUME Shapes, NEW u \in Members, NEW type \in TxTypes,
           NEW ref \in Refs \cup {NoRef}, NEW change \in Int,
           Posts(u, type, ref, change)
    PROVE  /\ balance' \in [Members -> Int] /\ txns' \in [Members -> Seq(TxRow)]
           /\ \A t \in Topups :
                 T!Credited(t)' <=> T!Credited(t) \/ (ref = t /\ Depositor[t] = u)
  <1> DEFINE row == RowOf(type, ref, change, u)
  <1>1. row \in TxRow /\ row.ref = ref
    BY RowIsTx DEF RowOf
  <1>2. txns \in [Members -> Seq(TxRow)] /\ txns' = [txns EXCEPT ![u] = Append(@, row)]
    BY DEF Shapes, Posts
  <1> HIDE DEF row
  <1>3. txns' \in [Members -> Seq(TxRow)] /\ txns'[u] = Append(txns[u], row)
    BY <1>1, <1>2
  <1>4. ASSUME NEW t \in Topups
        PROVE  T!Credited(t)' <=> T!Credited(t) \/ (ref = t /\ Depositor[t] = u)
    <2>1. CASE Depositor[t] # u
      <3>1. txns'[Depositor[t]] = txns[Depositor[t]]
        BY <1>2, <2>1, FlowConstants
      <3> QED BY <2>1, <3>1 DEF T!Credited, T!CreditsOf
    <2>2. CASE Depositor[t] = u
      <3> DEFINE rows == txns[u]
                 longer == Append(rows, row)
                 n == Len(rows)
      <3>1. /\ n \in Nat /\ Len(longer) = n + 1 /\ longer[n + 1] = row
            /\ \A i \in 1 .. n : longer[i] = rows[i]
        BY <1>2
      <3>2. T!Credited(t) <=> \E i \in 1 .. n : rows[i].ref = t
        BY <2>2 DEF T!Credited, T!CreditsOf
      <3>3. T!Credited(t)' <=> \E i \in 1 .. Len(longer) : longer[i].ref = t
        BY <1>3, <2>2 DEF T!Credited, T!CreditsOf
      <3> HIDE DEF longer, rows, n
      <3>4. ASSUME NEW i \in 1 .. n PROVE i \in 1 .. n + 1 /\ i # n + 1
        BY <3>1
      <3>5. ASSUME NEW i \in 1 .. n + 1, i # n + 1 PROVE i \in 1 .. n
        BY <3>1, <3>5
      <3>6. n + 1 \in 1 .. n + 1
        BY <3>1
      <3> QED BY <1>1, <2>2, <3>1, <3>2, <3>3, <3>4, <3>5, <3>6
    <2> QED BY <2>1, <2>2
  <1>5. balance' \in [Members -> Int]
    BY DEF Shapes, Posts
  <1> QED BY <1>3, <1>4, <1>5

-----------------------------------------------------------------------------
\* What a step of each flow does to the accounts and to what has gone through.
Quiet == UNCHANGED <<balance, txns, done>>

\* The status of one withdrawal changes, none that has ended.
Moves(s, status) ==
    /\ wstatus[s] \in {"unused", "pending", "sent_to_merchant"}
    /\ wstatus' = [wstatus EXCEPT ![s] = status]

\* Requests in progress are of sessions that do not exist yet, whatever the
\* flow does.
LEMMA RequestsFresh ==
    ASSUME Shapes, Fresh, W!Next
    PROVE  /\ request' \in [Withdrawals -> {"idle", "checked", "picked"}]
           /\ \A s \in Withdrawals : request'[s] # "idle" => wstatus'[s] = "unused"
  <1> DEFINE Goal == /\ request' \in [Withdrawals -> {"idle", "checked", "picked"}]
                     /\ \A s \in Withdrawals :
                           request'[s] # "idle" => wstatus'[s] = "unused"
  <1>0. /\ request \in [Withdrawals -> {"idle", "checked", "picked"}]
        /\ \A s \in Withdrawals : request[s] # "idle" => wstatus[s] = "unused"
        /\ wstatus \in [Withdrawals -> W!Statuses]
    BY DEF Shapes, Fresh
  <1>1. ASSUME NEW s \in Withdrawals, W!Request(s) PROVE Goal
    <2>1. CASE W!CheckOpen(s)
      BY <1>0, <2>1 DEF W!CheckOpen
    <2>2. ASSUME NEW m \in Finance, W!PickMerchant(s, m) PROVE Goal
      BY <1>0, <2>2 DEF W!PickMerchant
    <2>3. CASE W!ReserveWithdraw(s)
      BY <1>0, <2>3 DEF W!ReserveWithdraw
    <2>4. CASE W!AbortRequest(s)
      BY <1>0, <2>4 DEF W!AbortRequest
    <2> QED BY <1>1, <2>1, <2>2, <2>3, <2>4 DEF W!Request
  <1>2. ASSUME NEW s \in Withdrawals, W!Push(s) PROVE Goal
    BY <1>0, <1>2 DEF W!Push, W!PushRead, W!PushClaim, W!StillPending, W!requestVars
  <1>3. ASSUME NEW s \in Withdrawals, W!Callback(s) PROVE Goal
    BY <1>0, <1>3 DEF W!Callback, W!FinalizeFailed, W!FinalizeSuccess, W!NotFinalized
  <1>4. ASSUME NEW s \in Withdrawals, NEW d \in {"paid", "refused"},
               W!MerchantDecides(s, d) \/ W!Expire(s)
        PROVE  Goal
    BY <1>0, <1>4 DEF W!MerchantDecides, W!Expire, W!requestVars
  <1>5. ASSUME W!ScanWithdrawTimeouts PROVE Goal
    <2>1. /\ request' = request
          /\ wstatus' = [s \in Withdrawals |->
                           IF s \in W!DueSessions THEN "timeout" ELSE wstatus[s]]
          /\ W!DueSessions \subseteq {s \in Withdrawals : wstatus[s] # "unused"}
      BY <1>5 DEF W!ScanWithdrawTimeouts, W!DueSessions, W!Open
    <2> QED BY <1>0, <2>1
  <1> QED BY <1>1, <1>2, <1>3, <1>4, <1>5 DEF W!Next

\* A withdrawal that succeeds posts its debit.
LEMMA WithdrawEffect ==
    ASSUME Shapes, Fresh, WithdrawStep
    PROVE  /\ wstatus' \in [Withdrawals -> W!Statuses]
           /\ \/ Quiet
              \/ \E s \in Withdrawals \ Succeeded :
                    /\ Posts(Owner[s], "merchant_withdraw", s, -Amount[s])
                    /\ Succeeded' = Succeeded \cup {s}
                    /\ UNCHANGED <<tamount, Consumed, CreditsDone, Adjusted>>
  <1> DEFINE Goal == /\ wstatus' \in [Withdrawals -> W!Statuses]
                     /\ \/ Quiet
                        \/ \E s \in Withdrawals \ Succeeded :
                              /\ Posts(Owner[s], "merchant_withdraw", s, -Amount[s])
                              /\ Succeeded' = Succeeded \cup {s}
                              /\ UNCHANGED <<tamount, Consumed, CreditsDone, Adjusted>>
  <1>0. wstatus \in [Withdrawals -> W!Statuses] /\ W!Next
    BY DEF Shapes, WithdrawStep
  <1>1. UNCHANGED <<tamount, Consumed, CreditsDone, Adjusted>>
    BY DEF WithdrawStep, topupVars, commerceVars, adminVars, Consumed, CreditsDone,
           Adjusted
  <1>2. ASSUME UNCHANGED <<balance, txns>>, Succeeded' = Succeeded PROVE Quiet
    BY <1>1, <1>2 DEF Quiet, done, ToppedUp, T!Credited, T!CreditsOf
  <1>3. ASSUME NEW s \in Withdrawals, NEW status \in W!Statuses, Moves(s, status),
               status # "success", UNCHANGED <<balance, txns>>
        PROVE  Goal
    BY <1>0, <1>2, <1>3 DEF Succeeded, Moves
  <1>4. ASSUME UNCHANGED <<balance, txns, wstatus>> PROVE Goal
    BY <1>0, <1>2, <1>4 DEF Succeeded
  <1>5. ASSUME NEW s \in Withdrawals, W!Request(s) PROVE Goal
    <2>1. CASE W!ReserveWithdraw(s)
      <3>1. Moves(s, "pending") /\ UNCHANGED <<balance, txns>>
        BY <2>1 DEF W!ReserveWithdraw, Moves, Fresh
      <3> QED BY <1>3, <3>1 DEF W!Statuses
    <2>2. CASE ~W!ReserveWithdraw(s)
      BY <1>4, <1>5, <2>2 DEF W!Request, W!CheckOpen, W!PickMerchant, W!AbortRequest,
                              W!walletVars, W!accountVars
    <2> QED BY <2>1, <2>2
  <1>6. ASSUME NEW s \in Withdrawals, W!Push(s) PROVE Goal
    <2>1. /\ UNCHANGED <<balance, txns>>
          /\ wstatus' = wstatus \/ Moves(s, "sent_to_merchant")
      BY <1>6 DEF W!Push, W!PushRead, W!PushClaim, W!StillPending, W!walletVars,
                  W!requestVars, Moves
    <2> QED BY <1>3, <1>4, <2>1 DEF W!Statuses
  <1>7. ASSUME NEW s \in Withdrawals, W!FinalizeFailed(s) PROVE Goal
    <2>1. Moves(s, "failed") /\ UNCHANGED <<balance, txns>>
      BY <1>7 DEF W!FinalizeFailed, W!NotFinalized, Moves
    <2> QED BY <1>3, <2>1 DEF W!Statuses
  <1>8. ASSUME NEW s \in Withdrawals, W!FinalizeSuccess(s) PROVE Goal
    <2>1. Moves(s, "success")
          /\ Posts(Owner[s], "merchant_withdraw", s, -Amount[s])
      <3>1. balance' = [balance EXCEPT ![Owner[s]] = @ + (-Amount[s])]
        <4>1. balance' = [balance EXCEPT ![Owner[s]] = @ - Amount[s]]
          BY <1>8 DEF W!FinalizeSuccess
        <4>2. Amount[s] \in Nat /\ balance[Owner[s]] \in Int
          BY FlowConstants DEF Shapes
        <4>3. balance[Owner[s]] - Amount[s] = balance[Owner[s]] + (-Amount[s])
          BY <4>2
        <4> QED BY <4>1, <4>3
      <3> QED BY <1>8, <3>1 DEF W!FinalizeSuccess, W!NotFinalized, W!AppendTx, Moves,
                                Posts, RowOf
    <2>2. s \notin Succeeded /\ Succeeded' = Succeeded \cup {s}
      BY <1>0, <2>1 DEF Moves, Succeeded
    <2>3. wstatus' \in [Withdrawals -> W!Statuses]
      BY <1>0, <2>1 DEF Moves, W!Statuses
    <2> QED BY <1>1, <2>1, <2>2, <2>3
  <1>9. ASSUME NEW s \in Withdrawals, NEW d \in {"paid", "refused"},
               W!MerchantDecides(s, d) \/ W!Expire(s)
        PROVE  Goal
    BY <1>4, <1>9 DEF W!MerchantDecides, W!Expire, W!walletVars, W!requestVars
  <1>10. ASSUME W!ScanWithdrawTimeouts PROVE Goal
    <2>1. /\ UNCHANGED <<balance, txns>>
          /\ wstatus' = [s \in Withdrawals |->
                           IF s \in W!DueSessions THEN "timeout" ELSE wstatus[s]]
          /\ W!DueSessions \subseteq {s \in Withdrawals : wstatus[s] # "success"}
      BY <1>10 DEF W!ScanWithdrawTimeouts, W!DueSessions, W!Open
    <2>2. wstatus' \in [Withdrawals -> W!Statuses] /\ Succeeded' = Succeeded
      BY <1>0, <2>1 DEF W!Statuses, Succeeded
    <2> QED BY <1>2, <2>1, <2>2
  <1> HIDE DEF Goal
  <1>11. Goal
    BY <1>0, <1>5, <1>6, <1>7, <1>8, <1>9, <1>10 DEF W!Next, W!Callback
  <1> QED BY <1>11 DEF Goal

\* A callback of success posts the amount it reports, for a session without a
\* credit; every other step of a top-up writes no account.
LEMMA TopupEffect ==
    ASSUME Shapes, TopupStep
    PROVE  /\ tamount' \in [Topups -> Nat]
           /\ \/ Quiet
              \/ \E t \in Topups \ ToppedUp, a \in Nat :
                    /\ Posts(Depositor[t], "topup", t, a)
                    /\ tamount' = [tamount EXCEPT ![t] = a]
                    /\ UNCHANGED <<Succeeded, Consumed, CreditsDone, Adjusted>>
  <1> DEFINE Goal == /\ tamount' \in [Topups -> Nat]
                     /\ \/ Quiet
                        \/ \E t \in Topups \ ToppedUp, a \in Nat :
                              /\ Posts(Depositor[t], "topup", t, a)
                              /\ tamount' = [tamount EXCEPT ![t] = a]
                              /\ UNCHANGED <<Succeeded, Consumed, CreditsDone, Adjusted>>
  <1>0. tamount \in [Topups -> Nat] /\ T!Next
    BY DEF Shapes, TopupStep
  <1>1. UNCHANGED <<Succeeded, Consumed, CreditsDone, Adjusted>>
    BY DEF TopupStep, withdrawVars, commerceVars, adminVars, Succeeded, Consumed,
           CreditsDone, Adjusted
  <1>2. ASSUME UNCHANGED <<balance, txns, tamount>> PROVE Goal
    BY <1>0, <1>1, <1>2 DEF Quiet, done, ToppedUp, T!Credited, T!CreditsOf
  <1>3. ASSUME NEW t \in Topups, T!Create(t) \/ T!Write(t) \/ T!CallbackFailed(t)
                                 \/ T!TopupDue(t)
        PROVE  Goal
    <2>1. UNCHANGED <<balance, txns, tamount>>
      BY <1>3 DEF T!Create, T!BeginCreate, T!FinishCreate, T!AbortCreate, T!Write,
                  T!BeginWrite, T!FinishWrite, T!AbandonWrite, T!CallbackFailed,
                  T!TopupDue, T!walletVars, T!sessionVars
    <2> QED BY <1>2, <2>1
  <1>4. ASSUME NEW t \in Topups, NEW a \in ProviderAmounts, T!CallbackSuccess(t, a)
        PROVE  Goal
    <2>1. /\ Posts(Depositor[t], "topup", t, a) /\ a \in Nat
          /\ tamount' = [tamount EXCEPT ![t] = a]
      BY <1>4, FlowConstants DEF T!CallbackSuccess, T!SettleAmount, T!AppendTx, Posts, RowOf
    <2>2. t \notin ToppedUp
      BY <1>4 DEF T!CallbackSuccess, T!PublicNoFree, ToppedUp, T!Credited, T!CreditsOf
    <2>3. tamount' \in [Topups -> Nat]
      BY <1>0, <2>1
    <2> QED BY <1>1, <2>1, <2>2, <2>3
  <1>5. ASSUME T!ExpireStaleTopups PROVE Goal
    BY <1>2, <1>5 DEF T!ExpireStaleTopups, T!walletVars
  <1> HIDE DEF Goal
  <1>6. Goal
    BY <1>0, <1>3, <1>4, <1>5 DEF T!Next, T!Callback
  <1> QED BY <1>6 DEF Goal

\* Codes being made do not exist yet.
LEMMA CodesFresh ==
    ASSUME Shapes, Fresh, C!Next
    PROVE  counted' \in SUBSET Codes /\ \A c \in counted' : cstatus'[c] = "unused"
  <1> DEFINE Goal == counted' \in SUBSET Codes /\ \A c \in counted' : cstatus'[c] = "unused"
  <1>0. /\ cstatus \in [Codes -> C!CodeStatuses] /\ counted \in SUBSET Codes
        /\ \A c \in counted : cstatus[c] = "unused"
    BY DEF Shapes, Fresh
  <1>1. ASSUME NEW c \in Codes, C!CountCodes(c) \/ C!AbortCode(c) \/ C!CodeDue(c)
                                \/ C!CancelCode(c)
        PROVE  Goal
    BY <1>0, <1>1 DEF C!CountCodes, C!AbortCode, C!CodeDue, C!CancelCode, C!StillActive,
                      C!codeVars
  <1>2. ASSUME NEW c \in Codes, NEW points \in PointChoices, C!CreateCode(c, points)
        PROVE  Goal
    BY <1>0, <1>2 DEF C!CreateCode
  <1>3. ASSUME NEW c \in Codes, NEW m \in Commerce, C!ConsumeCode(c, m) PROVE Goal
    BY <1>0, <1>3 DEF C!ConsumeCode, C!StillActive
  <1>4. ASSUME C!ExpireCodes PROVE Goal
    <2>1. /\ counted' = counted
          /\ cstatus' = [c \in Codes |-> IF c \in C!DueCodes THEN "expired" ELSE cstatus[c]]
          /\ C!DueCodes \subseteq {c \in Codes : cstatus[c] # "unused"}
      BY <1>4 DEF C!ExpireCodes, C!DueCodes, C!Active
    <2> QED BY <1>0, <2>1
  <1>5. ASSUME NEW k \in Credits, NEW m \in Commerce, C!CreditMember(k, m) PROVE Goal
    BY <1>0, <1>5 DEF C!CreditMember, C!codeVars
  <1> HIDE DEF Goal
  <1>6. Goal
    BY <1>1, <1>2, <1>3, <1>4, <1>5 DEF C!Next
  <1> QED BY <1>6 DEF Goal

Spends(c) ==
    /\ c \in Codes \ Consumed
    /\ Posts(Holder[c], "spend", c, -CodeAmount[c])
    /\ Consumed' = Consumed \cup {c}
    /\ UNCHANGED <<Succeeded, tamount, CreditsDone, Adjusted>>
Grants(k) ==
    /\ k \in Credits \ CreditsDone
    /\ Posts(CreditTo[k], "merchant_credit", k, CreditAmount[k])
    /\ CreditsDone' = CreditsDone \cup {k}
    /\ UNCHANGED <<Succeeded, tamount, Consumed, Adjusted>>

\* A consumed code posts what the member pays, a credit what it gets.
LEMMA CommerceEffect ==
    ASSUME Shapes, Fresh, CommerceStep
    PROVE  /\ cstatus' \in [Codes -> C!CodeStatuses]
           /\ creditedBy' \in [Credits -> Commerce \cup {NoOne}]
           /\ Quiet \/ (\E c \in Codes : Spends(c)) \/ (\E k \in Credits : Grants(k))
  <1> DEFINE Typed == /\ cstatus' \in [Codes -> C!CodeStatuses]
                      /\ creditedBy' \in [Credits -> Commerce \cup {NoOne}]
             Goal == Typed /\ (Quiet \/ (\E c \in Codes : Spends(c))
                                     \/ (\E k \in Credits : Grants(k)))
  <1>0. /\ cstatus \in [Codes -> C!CodeStatuses]
        /\ creditedBy \in [Credits -> Commerce \cup {NoOne}] /\ C!Next
    BY DEF Shapes, CommerceStep
  <1>1. UNCHANGED <<Succeeded, tamount, Adjusted>>
    BY DEF CommerceStep, withdrawVars, topupVars, adminVars, Succeeded, Adjusted
  <1>2. ASSUME UNCHANGED <<balance, txns, Consumed, CreditsDone>> PROVE Quiet
    BY <1>1, <1>2 DEF Quiet, done, ToppedUp, T!Credited, T!CreditsOf
  <1>3. ASSUME NEW c \in Codes, NEW status \in C!CodeStatuses, status # "consumed",
               cstatus[c] # "consumed", cstatus' = [cstatus EXCEPT ![c] = status],
               UNCHANGED <<balance, txns, creditedBy>>
        PROVE  Goal
    <2>1. Typed
      BY <1>0, <1>3
    <2>2. Consumed' = Consumed /\ CreditsDone' = CreditsDone
      BY <1>0, <1>3 DEF Consumed, CreditsDone
    <2> QED BY <1>2, <1>3, <2>1, <2>2
  <1>4. ASSUME NEW c \in Codes, C!CountCodes(c) \/ C!AbortCode(c) \/ C!CodeDue(c)
        PROVE  Goal
    <2>1. UNCHANGED <<balance, txns, cstatus, creditedBy>>
      BY <1>4 DEF C!CountCodes, C!AbortCode, C!CodeDue, C!accountVars, C!codeVars
    <2> QED BY <1>0, <1>2, <2>1 DEF Consumed, CreditsDone
  <1>5. ASSUME NEW c \in Codes, NEW points \in PointChoices, C!CreateCode(c, points)
        PROVE  Goal
    BY <1>3, <1>5 DEF C!CreateCode, C!CodeStatuses, Fresh
  <1>6. ASSUME NEW c \in Codes, C!CancelCode(c) PROVE Goal
    BY <1>3, <1>6 DEF C!CancelCode, C!StillActive, C!CodeStatuses
  <1>7. ASSUME NEW c \in Codes, NEW m \in Commerce, C!ConsumeCode(c, m) PROVE Goal
    <2>1. /\ cstatus[c] = "active" /\ cstatus' = [cstatus EXCEPT ![c] = "consumed"]
          /\ creditedBy' = creditedBy
      BY <1>7 DEF C!ConsumeCode, C!StillActive
    <2>2. Typed /\ c \notin Consumed /\ Consumed' = Consumed \cup {c}
          /\ CreditsDone' = CreditsDone
      BY <1>0, <2>1 DEF Consumed, CreditsDone, C!CodeStatuses
    <2>3. Posts(Holder[c], "spend", c, -CodeAmount[c])
      <3>1. balance' = [balance EXCEPT ![Holder[c]] = @ + (-CodeAmount[c])]
        <4>1. balance' = [balance EXCEPT ![Holder[c]] = @ - CodeAmount[c]]
          BY <1>7 DEF C!ConsumeCode
        <4>2. CodeAmount[c] \in Nat /\ balance[Holder[c]] \in Int
          BY FlowConstants DEF Shapes
        <4>3. balance[Holder[c]] - CodeAmount[c] = balance[Holder[c]] + (-CodeAmount[c])
          BY <4>2
        <4> QED BY <4>1, <4>3
      <3> QED BY <1>7, <3>1 DEF C!ConsumeCode, C!AppendTx, Posts, RowOf
    <2> QED BY <1>1, <2>2, <2>3 DEF Spends
  <1>8. ASSUME C!ExpireCodes PROVE Goal
    <2>1. /\ UNCHANGED <<balance, txns, creditedBy>>
          /\ cstatus' = [c \in Codes |-> IF c \in C!DueCodes THEN "expired" ELSE cstatus[c]]
          /\ C!DueCodes \subseteq {c \in Codes : cstatus[c] = "active"}
      BY <1>8 DEF C!ExpireCodes, C!DueCodes, C!Active
    <2>2. Typed /\ Consumed' = Consumed /\ CreditsDone' = CreditsDone
      BY <1>0, <2>1 DEF Consumed, CreditsDone, C!CodeStatuses
    <2> QED BY <1>2, <2>1, <2>2
  <1>9. ASSUME NEW k \in Credits, NEW m \in Commerce, C!CreditMember(k, m) PROVE Goal
    <2>1. /\ creditedBy[k] = NoOne /\ creditedBy' = [creditedBy EXCEPT ![k] = m]
          /\ cstatus' = cstatus
          /\ Posts(CreditTo[k], "merchant_credit", k, CreditAmount[k])
      BY <1>9 DEF C!CreditMember, C!codeVars, C!AppendTx, Posts, RowOf
    <2>2. Typed /\ k \notin CreditsDone /\ CreditsDone' = CreditsDone \cup {k}
          /\ Consumed' = Consumed
      BY <1>0, <2>1, FlowConstants DEF Consumed, CreditsDone
    <2> QED BY <1>1, <2>1, <2>2 DEF Grants
  <1> HIDE DEF Goal
  <1>10. Goal
    BY <1>0, <1>4, <1>5, <1>6, <1>7, <1>8, <1>9 DEF C!Next
  <1> QED BY <1>10 DEF Goal

\* A call of adjustBalance posts its amount; no other call of the back office
\* touches an account.
LEMMA AdminEffect ==
    ASSUME Shapes, AdminStep
    PROVE  /\ stage' \in [Calls -> Stages]
           /\ \/ Quiet
              \/ \E c \in Calls \ Adjusted :
                    /\ Task[c].op = "adjustBalance"
                    /\ Posts(Task[c].on, "adjustment", NoRef, Task[c].amount)
                    /\ Adjusted' = Adjusted \cup {c}
                    /\ UNCHANGED <<Succeeded, tamount, Consumed, CreditsDone>>
  <1> DEFINE Goal == /\ stage' \in [Calls -> Stages]
                     /\ \/ Quiet
                        \/ \E c \in Calls \ Adjusted :
                              /\ Task[c].op = "adjustBalance"
                              /\ Posts(Task[c].on, "adjustment", NoRef, Task[c].amount)
                              /\ Adjusted' = Adjusted \cup {c}
                              /\ UNCHANGED <<Succeeded, tamount, Consumed, CreditsDone>>
  <1>0. stage \in [Calls -> Stages]
    BY DEF Shapes
  <1>1. UNCHANGED <<Succeeded, tamount, Consumed, CreditsDone>>
    BY DEF AdminStep, withdrawVars, topupVars, commerceVars, Succeeded, Consumed,
           CreditsDone
  <1>2. ASSUME UNCHANGED <<balance, txns>>, Adjusted' = Adjusted PROVE Quiet
    BY <1>1, <1>2 DEF Quiet, done, ToppedUp, T!Credited, T!CreditsOf
  <1> SUFFICES ASSUME NEW c \in Calls, Serve(c) PROVE Goal
    BY DEF AdminStep, AdminNext
  <1>3. ASSUME NEW next \in Stages, stage' = [stage EXCEPT ![c] = next], stage[c] # "done",
               next # "done" \/ Task[c].op # "adjustBalance", UNCHANGED <<balance, txns>>
        PROVE  Goal
    <2>1. Adjusted' = Adjusted /\ stage' \in [Calls -> Stages]
      BY <1>0, <1>3 DEF Adjusted
    <2> QED BY <1>2, <1>3, <2>1
  <1>4. CASE ProbeKey(c) \/ ReadMerchant(c) \/ Refuse(c)
    <2>1. /\ stage[c] # "done" /\ UNCHANGED <<balance, txns>>
          /\ \E next \in Stages \ {"done"} : stage' = [stage EXCEPT ![c] = next]
      BY <1>4 DEF ProbeKey, ReadMerchant, Refuse, walletVars, Stages
    <2> QED BY <1>3, <2>1
  <1>5. CASE WritePool(c) \/ WriteSettlement(c) \/ WriteLimit(c)
    <2>1. /\ stage[c] = "read" /\ UNCHANGED <<balance, txns>>
          /\ stage' = [stage EXCEPT ![c] = "done"] /\ Task[c].op # "adjustBalance"
      BY <1>5 DEF WritePool, WriteSettlement, WriteLimit, StoreAndCommit, OnPool,
                  walletVars, accountVars
    <2> QED BY <1>3, <2>1 DEF Stages
  <1>6. CASE AdjustBalance(c)
    <2>1. /\ stage[c] = "running" /\ stage' = [stage EXCEPT ![c] = "done"]
          /\ Task[c].op = "adjustBalance"
          /\ Posts(Task[c].on, "adjustment", NoRef, Task[c].amount)
      BY <1>6 DEF AdjustBalance, StoreAndCommit, AppendTx, Posts, RowOf
    <2>2. /\ stage' \in [Calls -> Stages] /\ c \notin Adjusted
          /\ Adjusted' = Adjusted \cup {c}
      BY <1>0, <2>1 DEF Stages, Adjusted
    <2> QED BY <1>1, <2>1, <2>2
  <1> QED BY <1>4, <1>5, <1>6 DEF Serve

-----------------------------------------------------------------------------
\* The sum a member's column of a flow adds to its balance.
SumFor(f, owner, S, u) == SumFunctionOnSet(f, {x \in S : owner[x] = u})

LEMMA SumForGrows ==
    ASSUME NEW f, NEW owner, NEW S, IsFiniteSet(S), NEW x, x \notin S,
           \A i \in S \cup {x} : f[i] \in Int, NEW u
    PROVE  /\ owner[x] = u
              => SumFor(f, owner, S \cup {x}, u) = SumFor(f, owner, S, u) + f[x]
           /\ owner[x] # u
              => SumFor(f, owner, S \cup {x}, u) = SumFor(f, owner, S, u)
  <1> DEFINE mine == {i \in S : owner[i] = u}
  <1>1. IsFiniteSet(mine) /\ x \notin mine /\ mine \subseteq S
    BY FS_Subset
  <1>2. {i \in S \cup {x} : owner[i] = u} = IF owner[x] = u THEN mine \cup {x} ELSE mine
    OBVIOUS
  <1>3. SumFor(f, owner, S, u) = SumFunctionOnSet(f, mine)
    BY DEF SumFor
  <1>4. SumFor(f, owner, S \cup {x}, u)
           = SumFunctionOnSet(f, IF owner[x] = u THEN mine \cup {x} ELSE mine)
    BY <1>2 DEF SumFor
  <1> HIDE DEF mine
  <1>5. SumFunctionOnSet(f, mine \cup {x}) = f[x] + SumFunctionOnSet(f, mine)
        /\ SumFunctionOnSet(f, mine) \in Int
    <2>1. \A i \in mine \cup {x} : f[i] \in Int
      BY <1>1
    <2> QED BY <1>1, <2>1, SumAdd
  <1>6. f[x] \in Int
    OBVIOUS
  <1> QED BY <1>3, <1>4, <1>5, <1>6

LEMMA SumForSame ==
    ASSUME NEW f, NEW g, NEW owner, NEW S, IsFiniteSet(S), \A i \in S : f[i] = g[i],
           NEW u
    PROVE  SumFor(f, owner, S, u) = SumFor(g, owner, S, u)
  <1> DEFINE mine == {i \in S : owner[i] = u}
  <1>1. IsFiniteSet(mine) /\ mine \subseteq S
    BY FS_Subset
  <1> HIDE DEF mine
  <1>2. \A i \in mine : f[i] = g[i]
    BY <1>1
  <1>3. SumFunctionOnSet(f, mine) = SumFunctionOnSet(g, mine)
    BY <1>1, <1>2, SumSame
  <1> QED BY <1>3 DEF SumFor, mine

LEMMA SumForInt ==
    ASSUME NEW f, NEW owner, NEW S, IsFiniteSet(S), \A i \in S : f[i] \in Int, NEW u
    PROVE  SumFor(f, owner, S, u) \in Int
  <1> DEFINE mine == {i \in S : owner[i] = u}
  <1>1. IsFiniteSet(mine) /\ mine \subseteq S
    BY FS_Subset
  <1> HIDE DEF mine
  <1>2. SumFunctionOnSet(f, mine) \in Int
    BY <1>1, SumInt
  <1> QED BY <1>2 DEF SumFor, mine

TaskOn == [c \in Calls |-> Task[c].on]
TaskAmount == [c \in Calls |-> Task[c].amount]

Accounted(u) ==
    OpeningBalance[u] + SumFor(tamount, Depositor, ToppedUp, u)
                      - SumFor(Amount, Owner, Succeeded, u)
                      - SumFor(CodeAmount, Holder, Consumed, u)
                      + SumFor(CreditAmount, CreditTo, CreditsDone, u)
                      + SumFor(TaskAmount, TaskOn, Adjusted, u)
Exact == \A u \in Members : balance[u] = Accounted(u)

LEMMA DoneFinite ==
    /\ IsFiniteSet(ToppedUp) /\ IsFiniteSet(Succeeded) /\ IsFiniteSet(Consumed)
    /\ IsFiniteSet(CreditsDone) /\ IsFiniteSet(Adjusted)
  <1>1. /\ ToppedUp \subseteq Topups /\ Succeeded \subseteq Withdrawals
        /\ Consumed \subseteq Codes /\ CreditsDone \subseteq Credits
        /\ Adjusted \subseteq Calls
    BY DEF ToppedUp, Succeeded, Consumed, CreditsDone, Adjusted
  <1> QED BY <1>1, FiniteConstants, FS_Subset

LEMMA SumsInt ==
    ASSUME Shapes, NEW u \in Members
    PROVE  /\ SumFor(tamount, Depositor, ToppedUp, u) \in Int
           /\ SumFor(Amount, Owner, Succeeded, u) \in Int
           /\ SumFor(CodeAmount, Holder, Consumed, u) \in Int
           /\ SumFor(CreditAmount, CreditTo, CreditsDone, u) \in Int
           /\ SumFor(TaskAmount, TaskOn, Adjusted, u) \in Int
           /\ OpeningBalance[u] \in Int
  <1>1. \A t \in ToppedUp : tamount[t] \in Int
    BY DEF Shapes, ToppedUp
  <1>2. \A s \in Succeeded : Amount[s] \in Int
    BY FlowConstants DEF Succeeded
  <1>3. \A c \in Consumed : CodeAmount[c] \in Int
    BY FlowConstants DEF Consumed
  <1>4. \A k \in CreditsDone : CreditAmount[k] \in Int
    BY FlowConstants DEF CreditsDone
  <1>5. \A c \in Adjusted : TaskAmount[c] \in Int
    BY TaskConstants DEF Adjusted, TaskAmount
  <1>6. OpeningBalance[u] \in Int
    BY FlowConstants
  <1> QED BY <1>1, <1>2, <1>3, <1>4, <1>5, <1>6, DoneFinite, SumForInt

\* A row posted to one account, with what has gone through grown by its cause.
LEMMA PostExplained ==
    ASSUME Shapes, Exact, NEW v \in Members, NEW type, NEW ref, NEW change \in Int,
           Posts(v, type, ref, change),
           \A u \in Members :
              Accounted(u)' = Accounted(u) + (IF u = v THEN change ELSE 0)
    PROVE  Exact'
  <1>1. ASSUME NEW u \in Members PROVE balance'[u] = Accounted(u)'
    <2>1. balance[u] = Accounted(u) /\ balance[u] \in Int
      BY DEF Exact, Shapes
    <2>2. balance'[u] = balance[u] + (IF u = v THEN change ELSE 0)
      BY <2>1 DEF Posts, Shapes
    <2> QED BY <2>1, <2>2
  <1> QED BY <1>1 DEF Exact

LEMMA WithdrawExact ==
    ASSUME Shapes, Exact, NEW s \in Withdrawals \ Succeeded,
           Posts(Owner[s], "merchant_withdraw", s, -Amount[s]),
           Succeeded' = Succeeded \cup {s}, ToppedUp' = ToppedUp,
           UNCHANGED <<tamount, Consumed, CreditsDone, Adjusted>>
    PROVE  Exact'
  <1>1. Owner[s] \in Members /\ Amount[s] \in Int /\ -Amount[s] \in Int
    BY FlowConstants
  <1>2. ASSUME NEW u \in Members
        PROVE  Accounted(u)' = Accounted(u) + (IF u = Owner[s] THEN -Amount[s] ELSE 0)
    <2>1. SumFor(Amount, Owner, Succeeded \cup {s}, u)
             = SumFor(Amount, Owner, Succeeded, u)
               + (IF Owner[s] = u THEN Amount[s] ELSE 0)
      <3>1. \A i \in Succeeded \cup {s} : Amount[i] \in Int
        BY FlowConstants DEF Succeeded
      <3>2. /\ Owner[s] = u
               => SumFor(Amount, Owner, Succeeded \cup {s}, u)
                     = SumFor(Amount, Owner, Succeeded, u) + Amount[s]
            /\ Owner[s] # u
               => SumFor(Amount, Owner, Succeeded \cup {s}, u)
                     = SumFor(Amount, Owner, Succeeded, u)
        BY <3>1, DoneFinite, SumForGrows
      <3> QED BY <3>2, SumsInt
    <2> QED BY <1>1, <2>1, SumsInt DEF Accounted
  <1> QED BY <1>1, <1>2, PostExplained

LEMMA TopupExact ==
    ASSUME Shapes, Exact, NEW t \in Topups \ ToppedUp, NEW a \in Nat,
           Posts(Depositor[t], "topup", t, a), tamount' = [tamount EXCEPT ![t] = a],
           ToppedUp' = ToppedUp \cup {t},
           UNCHANGED <<Succeeded, Consumed, CreditsDone, Adjusted>>
    PROVE  Exact'
  <1>1. Depositor[t] \in Members /\ a \in Int
    BY FlowConstants
  <1>2. ASSUME NEW u \in Members
        PROVE  Accounted(u)' = Accounted(u) + (IF u = Depositor[t] THEN a ELSE 0)
    <2>1. /\ tamount'[t] = a /\ \A i \in ToppedUp \cup {t} : tamount'[i] \in Int
          /\ \A i \in ToppedUp : tamount'[i] = tamount[i]
      BY DEF Shapes, ToppedUp
    <2>2. SumFor(tamount', Depositor, ToppedUp, u) = SumFor(tamount, Depositor, ToppedUp, u)
      <3>1. IsFiniteSet(ToppedUp) /\ \A i \in ToppedUp : tamount'[i] = tamount[i]
        BY <2>1, DoneFinite
      <3> QED BY ONLY <3>1, SumForSame
    <2>3. SumFor(tamount', Depositor, ToppedUp \cup {t}, u)
             = SumFor(tamount', Depositor, ToppedUp, u)
               + (IF Depositor[t] = u THEN a ELSE 0)
      <3>1. IsFiniteSet(ToppedUp) /\ t \notin ToppedUp
        BY DoneFinite
      <3>2. /\ Depositor[t] = u
               => SumFor(tamount', Depositor, ToppedUp \cup {t}, u)
                     = SumFor(tamount', Depositor, ToppedUp, u) + tamount'[t]
            /\ Depositor[t] # u
               => SumFor(tamount', Depositor, ToppedUp \cup {t}, u)
                     = SumFor(tamount', Depositor, ToppedUp, u)
        BY ONLY <2>1, <3>1, SumForGrows
      <3> QED BY <2>1, <2>2, <3>2, SumsInt
    <2>4. SumFor(tamount, Depositor, ToppedUp, u)'
             = SumFor(tamount', Depositor, ToppedUp \cup {t}, u)
      BY DEF SumFor
    <2> QED BY <1>1, <2>2, <2>3, <2>4, SumsInt DEF Accounted
  <1> QED BY <1>1, <1>2, PostExplained

LEMMA SpendExact ==
    ASSUME Shapes, Exact, NEW c \in Codes, Spends(c), ToppedUp' = ToppedUp
    PROVE  Exact'
  <1>1. Holder[c] \in Members /\ CodeAmount[c] \in Int /\ -CodeAmount[c] \in Int
    BY FlowConstants
  <1>2. ASSUME NEW u \in Members
        PROVE  Accounted(u)' = Accounted(u) + (IF u = Holder[c] THEN -CodeAmount[c] ELSE 0)
    <2>1. SumFor(CodeAmount, Holder, Consumed \cup {c}, u)
             = SumFor(CodeAmount, Holder, Consumed, u)
               + (IF Holder[c] = u THEN CodeAmount[c] ELSE 0)
      <3>1. \A i \in Consumed \cup {c} : CodeAmount[i] \in Int
        BY FlowConstants DEF Consumed
      <3>2. IsFiniteSet(Consumed) /\ c \notin Consumed
        BY DoneFinite DEF Spends
      <3>3. /\ Holder[c] = u
               => SumFor(CodeAmount, Holder, Consumed \cup {c}, u)
                     = SumFor(CodeAmount, Holder, Consumed, u) + CodeAmount[c]
            /\ Holder[c] # u
               => SumFor(CodeAmount, Holder, Consumed \cup {c}, u)
                     = SumFor(CodeAmount, Holder, Consumed, u)
        BY ONLY <3>1, <3>2, SumForGrows
      <3> QED BY <3>3, SumsInt
    <2> QED BY <1>1, <2>1, SumsInt DEF Accounted, Spends
  <1> QED BY <1>1, <1>2, PostExplained DEF Spends

LEMMA GrantExact ==
    ASSUME Shapes, Exact, NEW k \in Credits, Grants(k), ToppedUp' = ToppedUp
    PROVE  Exact'
  <1>1. CreditTo[k] \in Members /\ CreditAmount[k] \in Int
    BY FlowConstants
  <1>2. ASSUME NEW u \in Members
        PROVE  Accounted(u)' = Accounted(u) + (IF u = CreditTo[k] THEN CreditAmount[k] ELSE 0)
    <2>1. SumFor(CreditAmount, CreditTo, CreditsDone \cup {k}, u)
             = SumFor(CreditAmount, CreditTo, CreditsDone, u)
               + (IF CreditTo[k] = u THEN CreditAmount[k] ELSE 0)
      <3>1. \A i \in CreditsDone \cup {k} : CreditAmount[i] \in Int
        BY FlowConstants DEF CreditsDone
      <3>2. IsFiniteSet(CreditsDone) /\ k \notin CreditsDone
        BY DoneFinite DEF Grants
      <3>3. /\ CreditTo[k] = u
               => SumFor(CreditAmount, CreditTo, CreditsDone \cup {k}, u)
                     = SumFor(CreditAmount, CreditTo, CreditsDone, u) + CreditAmount[k]
            /\ CreditTo[k] # u
               => SumFor(CreditAmount, CreditTo, CreditsDone \cup {k}, u)
                     = SumFor(CreditAmount, CreditTo, CreditsDone, u)
        BY ONLY <3>1, <3>2, SumForGrows
      <3> QED BY <3>3, SumsInt
    <2> QED BY <1>1, <2>1, SumsInt DEF Accounted, Grants
  <1> QED BY <1>1, <1>2, PostExplained DEF Grants

LEMMA AdjustExact ==
    ASSUME Shapes, Exact, NEW c \in Calls \ Adjusted, Task[c].op = "adjustBalance",
           Posts(Task[c].on, "adjustment", NoRef, Task[c].amount),
           Adjusted' = Adjusted \cup {c}, ToppedUp' = ToppedUp,
           UNCHANGED <<Succeeded, tamount, Consumed, CreditsDone>>
    PROVE  Exact'
  <1>1. /\ Task[c].on \in Members /\ Task[c].amount \in Int
        /\ TaskOn[c] = Task[c].on /\ TaskAmount[c] = Task[c].amount
    BY TaskConstants DEF TaskOn, TaskAmount
  <1>2. ASSUME NEW u \in Members
        PROVE  Accounted(u)' = Accounted(u) + (IF u = Task[c].on THEN Task[c].amount ELSE 0)
    <2>1. SumFor(TaskAmount, TaskOn, Adjusted \cup {c}, u)
             = SumFor(TaskAmount, TaskOn, Adjusted, u)
               + (IF TaskOn[c] = u THEN TaskAmount[c] ELSE 0)
      <3>1. \A i \in Adjusted \cup {c} : TaskAmount[i] \in Int
        BY TaskConstants DEF Adjusted, TaskAmount
      <3>2. IsFiniteSet(Adjusted) /\ c \notin Adjusted
        BY DoneFinite
      <3>3. /\ TaskOn[c] = u
               => SumFor(TaskAmount, TaskOn, Adjusted \cup {c}, u)
                     = SumFor(TaskAmount, TaskOn, Adjusted, u) + TaskAmount[c]
            /\ TaskOn[c] # u
               => SumFor(TaskAmount, TaskOn, Adjusted \cup {c}, u)
                     = SumFor(TaskAmount, TaskOn, Adjusted, u)
        BY ONLY <3>1, <3>2, SumForGrows
      <3> QED BY <3>3, SumsInt
    <2> QED BY <1>1, <2>1, SumsInt DEF Accounted
  <1> QED BY <1>1, <1>2, PostExplained

-----------------------------------------------------------------------------
\* A step keeps the shapes, and the explanation with them.
ExplainInv == Shapes /\ Fresh /\ Exact

LEMMA FreshKept ==
    ASSUME Shapes, Fresh, [Next]_vars
    PROVE  Fresh'
  <1>1. CASE WithdrawStep
    <2>1. W!Next /\ UNCHANGED <<counted, cstatus>>
      BY <1>1 DEF WithdrawStep, commerceVars
    <2> QED BY <2>1, RequestsFresh DEF Fresh
  <1>2. CASE CommerceStep
    <2>1. C!Next /\ UNCHANGED <<request, wstatus>>
      BY <1>2 DEF CommerceStep, withdrawVars
    <2> QED BY <2>1, CodesFresh DEF Fresh
  <1>3. CASE TopupStep \/ AdminStep \/ UNCHANGED vars
    <2>1. UNCHANGED <<counted, cstatus, request, wstatus>>
      BY <1>3 DEF TopupStep, AdminStep, vars, withdrawVars, commerceVars
    <2> QED BY <2>1 DEF Fresh
  <1> QED BY <1>1, <1>2, <1>3 DEF Next

LEMMA QuietKeeps ==
    ASSUME Shapes, Exact, Quiet
    PROVE  Exact' /\ balance' \in [Members -> Int] /\ txns' \in [Members -> Seq(TxRow)]
  BY DEF Shapes, Exact, Quiet, done, Accounted

\* Only a top-up's own row credits it.
LEMMA OtherPosts ==
    ASSUME Shapes, NEW u \in Members, NEW type \in TxTypes,
           NEW ref \in (Refs \cup {NoRef}) \ Topups, NEW change \in Int,
           Posts(u, type, ref, change)
    PROVE  /\ ToppedUp' = ToppedUp
           /\ balance' \in [Members -> Int] /\ txns' \in [Members -> Seq(TxRow)]
  BY PostCredits DEF ToppedUp

LEMMA ExplainKept ==
    ASSUME ExplainInv, [Next]_vars
    PROVE  ExplainInv'
  <1> DEFINE Goal == Exact' /\ balance' \in [Members -> Int]
                            /\ txns' \in [Members -> Seq(TxRow)]
  <1> USE DEF ExplainInv
  <1>1. Fresh'
    BY FreshKept
  <1>2. CASE WithdrawStep
    <2>1. UNCHANGED <<tamount, cstatus, creditedBy, stage>>
      BY <1>2 DEF WithdrawStep, topupVars, commerceVars, adminVars
    <2>2. ASSUME NEW s \in Withdrawals \ Succeeded,
                 Posts(Owner[s], "merchant_withdraw", s, -Amount[s]),
                 Succeeded' = Succeeded \cup {s},
                 UNCHANGED <<tamount, Consumed, CreditsDone, Adjusted>>
          PROVE  Goal
      <3>1. /\ Owner[s] \in Members /\ -Amount[s] \in Int
            /\ s \in (Refs \cup {NoRef}) \ Topups /\ "merchant_withdraw" \in TxTypes
        BY FlowConstants DEF TxTypes
      <3> QED BY <2>2, <3>1, OtherPosts, WithdrawExact
    <2> QED BY <1>1, <1>2, <2>1, <2>2, WithdrawEffect, QuietKeeps DEF Shapes
  <1>3. CASE TopupStep
    <2>1. UNCHANGED <<wstatus, cstatus, creditedBy, stage>>
      BY <1>3 DEF TopupStep, withdrawVars, commerceVars, adminVars
    <2>2. ASSUME NEW t \in Topups \ ToppedUp, NEW a \in Nat,
                 Posts(Depositor[t], "topup", t, a),
                 tamount' = [tamount EXCEPT ![t] = a],
                 UNCHANGED <<Succeeded, Consumed, CreditsDone, Adjusted>>
          PROVE  Goal
      <3>1. /\ Depositor[t] \in Members /\ a \in Int /\ t \in Refs \cup {NoRef}
            /\ "topup" \in TxTypes
        BY FlowConstants DEF TxTypes
      <3>2. /\ balance' \in [Members -> Int] /\ txns' \in [Members -> Seq(TxRow)]
            /\ \A x \in Topups : T!Credited(x)' <=> T!Credited(x) \/ t = x
        BY <2>2, <3>1, PostCredits
      <3>3. ToppedUp' = ToppedUp \cup {t}
        BY <3>2 DEF ToppedUp
      <3> QED BY <2>2, <3>2, <3>3, TopupExact
    <2> QED BY <1>1, <1>3, <2>1, <2>2, TopupEffect, QuietKeeps DEF Shapes
  <1>4. CASE CommerceStep
    <2>1. UNCHANGED <<wstatus, tamount, stage>>
      BY <1>4 DEF CommerceStep, withdrawVars, topupVars, adminVars
    <2>2. ASSUME NEW c \in Codes, Spends(c) PROVE Goal
      <3>1. /\ Holder[c] \in Members /\ -CodeAmount[c] \in Int
            /\ c \in (Refs \cup {NoRef}) \ Topups /\ "spend" \in TxTypes
        BY FlowConstants DEF TxTypes
      <3> QED BY <2>2, <3>1, OtherPosts, SpendExact DEF Spends
    <2>3. ASSUME NEW k \in Credits, Grants(k) PROVE Goal
      <3>1. /\ CreditTo[k] \in Members /\ CreditAmount[k] \in Int
            /\ k \in (Refs \cup {NoRef}) \ Topups /\ "merchant_credit" \in TxTypes
        BY FlowConstants DEF TxTypes
      <3> QED BY <2>3, <3>1, OtherPosts, GrantExact DEF Grants
    <2> QED BY <1>1, <1>4, <2>1, <2>2, <2>3, CommerceEffect, QuietKeeps DEF Shapes
  <1>5. CASE AdminStep
    <2>1. UNCHANGED <<wstatus, tamount, cstatus, creditedBy>>
      BY <1>5 DEF AdminStep, withdrawVars, topupVars, commerceVars
    <2>2. ASSUME NEW c \in Calls \ Adjusted, Task[c].op = "adjustBalance",
                 Posts(Task[c].on, "adjustment", NoRef, Task[c].amount),
                 Adjusted' = Adjusted \cup {c},
                 UNCHANGED <<Succeeded, tamount, Consumed, CreditsDone>>
          PROVE  Goal
      <3>1. /\ Task[c].on \in Members /\ Task[c].amount \in Int
            /\ NoRef \in (Refs \cup {NoRef}) \ Topups /\ "adjustment" \in TxTypes
        BY <2>2, TaskConstants, FlowConstants DEF TxTypes
      <3> QED BY <2>2, <3>1, OtherPosts, AdjustExact
    <2> QED BY <1>1, <1>5, <2>1, <2>2, AdminEffect, QuietKeeps DEF Shapes
  <1>6. CASE UNCHANGED vars
    <2>1. /\ UNCHANGED <<balance, txns, wstatus, tamount, cstatus, creditedBy, stage>>
      BY <1>6 DEF vars, walletVars, withdrawVars, topupVars, commerceVars, adminVars
    <2>2. Quiet
      BY <2>1 DEF Quiet, done, Succeeded, ToppedUp, T!Credited, T!CreditsOf, Consumed,
                  CreditsDone, Adjusted
    <2> QED BY <1>1, <2>1, <2>2, QuietKeeps DEF Shapes
  <1> QED BY <1>2, <1>3, <1>4, <1>5, <1>6 DEF Next

LEMMA ExplainOpens == Init => ExplainInv
  <1> SUFFICES ASSUME Init PROVE ExplainInv
    OBVIOUS
  <1>1. /\ balance = OpeningBalance
        /\ txns = [u \in Members |->
                     IF OpeningBalance[u] = 0 THEN << >>
                     ELSE << [type |-> "adjustment", ref |-> NoRef,
                              change |-> OpeningBalance[u],
                              after |-> OpeningBalance[u]] >>]
        /\ wstatus = [s \in Withdrawals |-> "unused"]
        /\ request = [s \in Withdrawals |-> "idle"]
        /\ tamount = Asked /\ cstatus = [c \in Codes |-> "unused"] /\ counted = {}
        /\ creditedBy = [k \in Credits |-> NoOne] /\ stage = [c \in Calls |-> "idle"]
    BY DEF Init, WalletInit, AccountsInit, W!WithdrawInit, T!TopupInit, C!CommerceInit,
           AdminInit
  <1>2. txns \in [Members -> Seq(TxRow)]
    <2>1. ASSUME NEW u \in Members
          PROVE  txns[u] \in Seq(TxRow)
      <3> DEFINE row == [type |-> "adjustment", ref |-> NoRef,
                         change |-> OpeningBalance[u], after |-> OpeningBalance[u]]
      <3>1. row \in TxRow
        BY FlowConstants DEF TxRow, TxTypes
      <3>2. txns[u] = << >> \/ txns[u] = <<row>>
        BY <1>1
      <3> HIDE DEF row
      <3>3. << >> \in Seq(TxRow) /\ << row >> \in Seq(TxRow)
        BY <3>1
      <3> QED BY <3>2, <3>3
    <2> QED BY <1>1, <2>1
  <1>3. Shapes
    <2>1. tamount \in [Topups -> Nat] /\ balance \in [Members -> Int]
      BY <1>1, PlatformAssumption, AccountsAssumption DEF T!TopupAssumption
    <2> QED BY <1>1, <1>2, <2>1 DEF Shapes, W!Statuses, C!CodeStatuses, Stages
  <1>4. Fresh
    BY <1>1 DEF Fresh
  <1>5. Succeeded = {} /\ Consumed = {} /\ CreditsDone = {} /\ Adjusted = {}
    BY <1>1 DEF Succeeded, Consumed, CreditsDone, Adjusted
  <1>6. ToppedUp = {}
    <2>1. ASSUME NEW t \in Topups PROVE ~T!Credited(t)
      <3>1. \/ txns[Depositor[t]] = << >>
            \/ Len(txns[Depositor[t]]) = 1 /\ txns[Depositor[t]][1].ref = NoRef
        BY <1>1, FlowConstants
      <3>2. t # NoRef
        BY FlowConstants
      <3> QED BY <3>1, <3>2 DEF T!Credited, T!CreditsOf
    <2> QED BY <2>1 DEF ToppedUp
  <1>7. Exact
    <2> SUFFICES ASSUME NEW u \in Members PROVE balance[u] = Accounted(u)
      BY DEF Exact
    <2>1. \A f, owner : SumFor(f, owner, {}, u) = 0
      <3>1. \A owner : {x \in {} : owner[x] = u} = {}
        OBVIOUS
      <3> QED BY <3>1, SumEmpty DEF SumFor
    <2>2. OpeningBalance[u] \in Int
      BY FlowConstants
    <2> QED BY <1>1, <1>5, <1>6, <2>1, <2>2 DEF Accounted
  <1> QED BY <1>3, <1>4, <1>7 DEF ExplainInv

\* The sums of the definition are the sums of the proof.
LEMMA ExplainedIs == Exact => BalanceExplained
  <1> SUFFICES ASSUME Exact, NEW u \in Members,
                      NEW adjusted, adjusted = {c \in Calls : /\ stage[c] = "done"
                                                              /\ Task[c].on = u
                                                              /\ Task[c].op = "adjustBalance"}
               PROVE  balance[u] = OpeningBalance[u]
              + SumFunctionOnSet(tamount, {t \in Topups :
                    Depositor[t] = u /\ T!Credited(t)})
              - SumFunctionOnSet(Amount, {s \in Withdrawals :
                    Owner[s] = u /\ wstatus[s] = "success"})
              - SumFunctionOnSet(CodeAmount, {c \in Codes :
                    Holder[c] = u /\ cstatus[c] = "consumed"})
              + SumFunctionOnSet(CreditAmount, {k \in Credits :
                    CreditTo[k] = u /\ creditedBy[k] # NoOne})
              + SumFunction([c \in adjusted |-> Task[c].amount])
    BY Zenon DEF BalanceExplained
  <1>1. {t \in Topups : Depositor[t] = u /\ T!Credited(t)}
           = {x \in ToppedUp : Depositor[x] = u}
    BY DEF ToppedUp
  <1>2. {s \in Withdrawals : Owner[s] = u /\ wstatus[s] = "success"}
           = {x \in Succeeded : Owner[x] = u}
    BY DEF Succeeded
  <1>3. {c \in Codes : Holder[c] = u /\ cstatus[c] = "consumed"}
           = {x \in Consumed : Holder[x] = u}
    BY DEF Consumed
  <1>4. {k \in Credits : CreditTo[k] = u /\ creditedBy[k] # NoOne}
           = {x \in CreditsDone : CreditTo[x] = u}
    BY DEF CreditsDone
  <1>5. SumFunction([c \in adjusted |-> Task[c].amount]) = SumFor(TaskAmount, TaskOn, Adjusted, u)
    <2> DEFINE f == [c \in adjusted |-> Task[c].amount]
    <2>1. adjusted = {x \in Adjusted : TaskOn[x] = u} /\ adjusted \subseteq Calls
      BY DEF Adjusted, TaskOn
    <2>2. IsFiniteSet(adjusted)
      BY <2>1, FiniteConstants, FS_Subset
    <2>3. \A c \in adjusted : f[c] = TaskAmount[c]
      BY <2>1 DEF TaskAmount
    <2>4. SumFunction(f) = SumFunctionOnSet(f, adjusted)
      BY DEF SumFunction
    <2> HIDE DEF f
    <2>5. SumFunctionOnSet(f, adjusted) = SumFunctionOnSet(TaskAmount, adjusted)
      BY <2>2, <2>3, SumSame
    <2> QED BY <2>1, <2>4, <2>5 DEF f, SumFor
  <1>6. balance[u] = Accounted(u)
    BY DEF Exact
  <1> QED BY <1>1, <1>2, <1>3, <1>4, <1>5, <1>6 DEF Accounted, SumFor

\* A member's balance is what the flows and the back office have moved, for any
\* number of them and any interleaving: none writes an account over another.
THEOREM BalancesExplained == Spec => []BalanceExplained
  <1>1. ExplainInv => BalanceExplained
    BY ExplainedIs DEF ExplainInv
  <1> QED BY <1>1, ExplainOpens, ExplainKept, PTL DEF Spec

-----------------------------------------------------------------------------
\* The holds of the platform, as Hold sees them.
Holding == W!Open \cup C!Active
Captured == W!Ended("success") \cup C!Ended({"consumed"})
Released == W!Ended("failed") \cup W!Ended("timeout") \cup C!Ended({"cancelled", "expired"})
Held(u) == SumFor(HoldAmount, HoldOwner, Holding, u)

LEMMA HoldConstants ==
    /\ \A h \in Withdrawals \cup Codes : /\ HoldOwner[h] \in Members
                                         /\ HoldAmount[h] \in Nat
    /\ \A s \in Withdrawals : HoldOwner[s] = Owner[s] /\ HoldAmount[s] = Amount[s]
    /\ \A c \in Codes : /\ HoldOwner[c] = Holder[c] /\ HoldAmount[c] = CodeAmount[c]
                        /\ c \notin Withdrawals
    /\ IsFiniteSet(Withdrawals \cup Codes)
  <1>1. IsFiniteSet(Withdrawals \cup Codes)
    BY FiniteConstants, FS_Union
  <1>2. \A c \in Codes : c \notin Withdrawals
    BY FlowConstants
  <1> QED BY <1>1, <1>2, FlowConstants DEF HoldOwner, HoldAmount

LEMMA HoldingFinite ==
    ASSUME NEW S, S \subseteq Withdrawals \cup Codes, NEW u
    PROVE  /\ IsFiniteSet(S) /\ \A h \in S : HoldAmount[h] \in Int
           /\ SumFor(HoldAmount, HoldOwner, S, u) \in Nat
  <1> DEFINE mine == {h \in S : HoldOwner[h] = u}
  <1>1. IsFiniteSet(S) /\ IsFiniteSet(mine) /\ mine \subseteq S
    BY HoldConstants, FS_Subset
  <1>2. \A h \in S : HoldAmount[h] \in Nat
    BY HoldConstants
  <1> HIDE DEF mine
  <1>3. SumFunctionOnSet(HoldAmount, mine) \in Nat
    BY <1>1, <1>2, SumNat
  <1> QED BY <1>1, <1>2, <1>3 DEF SumFor, mine

LEMMA HoldingKnown == Holding \subseteq Withdrawals \cup Codes
  BY DEF Holding, W!Open, C!Active

\* What is set aside less a part of it.
LEMMA SumForLess ==
    ASSUME NEW S, S \subseteq Withdrawals \cup Codes, NEW P, P \subseteq S, NEW u
    PROVE  SumFor(HoldAmount, HoldOwner, S, u)
              = SumFor(HoldAmount, HoldOwner, S \ P, u) + SumFor(HoldAmount, HoldOwner, P, u)
  <1> DEFINE kept == {h \in S \ P : HoldOwner[h] = u}
             gone == {h \in P : HoldOwner[h] = u}
  <1>1. /\ {h \in S : HoldOwner[h] = u} = kept \cup gone /\ kept \cap gone = {}
        /\ kept \cup gone \subseteq S
    OBVIOUS
  <1>2. IsFiniteSet(kept) /\ IsFiniteSet(gone)
    BY HoldingFinite, FS_Subset
  <1> HIDE DEF kept, gone
  <1>3. \A h \in kept \cup gone : HoldAmount[h] \in Int
    BY <1>1, HoldingFinite
  <1>4. SumFunctionOnSet(HoldAmount, kept \cup gone)
           = SumFunctionOnSet(HoldAmount, kept) + SumFunctionOnSet(HoldAmount, gone)
    BY <1>1, <1>2, <1>3, SumUnion
  <1> QED BY <1>1, <1>4 DEF SumFor, kept, gone

LEMMA SumForOne ==
    ASSUME NEW h \in Withdrawals \cup Codes, NEW u
    PROVE  SumFor(HoldAmount, HoldOwner, {h}, u) = IF HoldOwner[h] = u THEN HoldAmount[h] ELSE 0
  <1>1. HoldAmount[h] \in Int
    BY HoldConstants
  <1>2. SumFunctionOnSet(HoldAmount, {}) = 0 /\ IsFiniteSet({})
    BY SumEmpty, FS_EmptySet
  <1>3. SumFunctionOnSet(HoldAmount, {} \cup {h}) = HoldAmount[h] + 0
    BY <1>1, <1>2, SumAdd
  <1>4. CASE HoldOwner[h] = u
    <2>1. {x \in {h} : HoldOwner[x] = u} = {h} /\ {} \cup {h} = {h}
      BY <1>4
    <2>2. SumFunctionOnSet(HoldAmount, {h}) = HoldAmount[h]
      BY <1>1, <1>3, <2>1
    <2> QED BY <1>4, <2>1, <2>2 DEF SumFor
  <1>5. CASE HoldOwner[h] # u
    <2>1. {x \in {h} : HoldOwner[x] = u} = {}
      BY <1>5
    <2> QED BY <1>2, <1>5, <2>1 DEF SumFor
  <1> QED BY <1>4, <1>5

-----------------------------------------------------------------------------
\* What a step may do to the holds and to the accounts under them.
Lets(h) ==
    /\ h \in Holding
    /\ reserved' = [reserved EXCEPT ![HoldOwner[h]] = Clamp(@ - HoldAmount[h])]
    /\ Holding' = Holding \ {h}
Places(h) ==
    /\ h \in (Withdrawals \cup Codes) \ (Holding \cup Captured \cup Released)
    /\ HoldAmount[h] <= balance[HoldOwner[h]] - reserved[HoldOwner[h]]
    /\ reserved' = [reserved EXCEPT ![HoldOwner[h]] = @ + HoldAmount[h]]
    /\ Holding' = Holding \cup {h}
    /\ UNCHANGED <<balance, Captured, Released>>
Captures(h) ==
    /\ Lets(h)
    /\ balance' = [balance EXCEPT ![HoldOwner[h]] = @ - HoldAmount[h]]
    /\ Captured' = Captured \cup {h} /\ Released' = Released
Frees(h) ==
    /\ Lets(h)
    /\ Released' = Released \cup {h}
    /\ UNCHANGED <<balance, Captured>>
FreesAll(S) ==
    /\ S \subseteq Holding
    /\ reserved' = [u \in Members |->
                      Clamp(reserved[u] - SumFor(HoldAmount, HoldOwner, S, u))]
    /\ Holding' = Holding \ S
    /\ Released' = Released \cup S
    /\ UNCHANGED <<balance, Captured>>
Shifts(u, change) ==
    /\ balance' = [balance EXCEPT ![u] = @ + change]
    /\ reserved[u] <= balance[u] + change
    /\ UNCHANGED <<reserved, Holding, Captured, Released>>
HoldMoves ==
    \/ UNCHANGED <<balance, reserved, Holding, Captured, Released>>
    \/ \E h \in Withdrawals \cup Codes : Places(h) \/ Captures(h) \/ Frees(h)
    \/ \E S \in SUBSET (Withdrawals \cup Codes) : FreesAll(S)
    \/ \E u \in Members, change \in Int : Shifts(u, change)

\* What is set aside is the column, and is there.
Covered ==
    /\ balance \in [Members -> Int] /\ reserved \in [Members -> Int]
    /\ \A u \in Members : reserved[u] = Held(u) /\ reserved[u] <= balance[u]

LEMMA LetsExact ==
    ASSUME Covered, NEW h \in Withdrawals \cup Codes, Lets(h)
    PROVE  /\ reserved' \in [Members -> Int]
           /\ \A u \in Members :
                 /\ reserved'[u] = Held(u)'
                 /\ reserved'[u] = reserved[u] - (IF HoldOwner[h] = u THEN HoldAmount[h] ELSE 0)
  <1>1. HoldOwner[h] \in Members /\ HoldAmount[h] \in Nat
    BY HoldConstants
  <1>2. reserved' = [reserved EXCEPT ![HoldOwner[h]] = Clamp(@ - HoldAmount[h])]
    BY DEF Lets
  <1>3. ASSUME NEW u \in Members
        PROVE  /\ reserved'[u] = Held(u)' /\ reserved'[u] \in Int
               /\ reserved'[u] = reserved[u] - (IF HoldOwner[h] = u THEN HoldAmount[h] ELSE 0)
    <2>1. Holding' = Holding \ {h} /\ {h} \subseteq Holding
      BY DEF Lets
    <2>2. Held(u)' = SumFor(HoldAmount, HoldOwner, Holding \ {h}, u)
      BY <2>1 DEF Held, SumFor
    <2>3. Held(u) = SumFor(HoldAmount, HoldOwner, Holding \ {h}, u)
                       + SumFor(HoldAmount, HoldOwner, {h}, u)
      BY <2>1, HoldingKnown, SumForLess DEF Held
    <2>4. SumFor(HoldAmount, HoldOwner, Holding \ {h}, u) \in Nat
      BY HoldingKnown, HoldingFinite
    <2>5. reserved[u] = Held(u) /\ reserved[u] \in Int
      BY DEF Covered
    <2>6. reserved'[u] = IF HoldOwner[h] = u THEN Clamp(reserved[u] - HoldAmount[h])
                                             ELSE reserved[u]
      BY <1>1, <1>2 DEF Covered
    <2>7. SumFor(HoldAmount, HoldOwner, {h}, u) = IF HoldOwner[h] = u THEN HoldAmount[h] ELSE 0
      BY SumForOne
    <2>8. CASE HoldOwner[h] = u
      BY <1>1, <2>2, <2>3, <2>4, <2>5, <2>6, <2>7, <2>8 DEF Clamp
    <2>9. CASE HoldOwner[h] # u
      BY <1>1, <2>2, <2>3, <2>4, <2>5, <2>6, <2>7, <2>9
    <2> QED BY <2>8, <2>9
  <1>4. reserved' = [u \in Members |-> reserved'[u]]
    BY <1>2 DEF Covered
  <1> QED BY <1>3, <1>4

LEMMA CoveredKept ==
    ASSUME Covered, HoldMoves
    PROVE  Covered'
  <1>0. /\ balance \in [Members -> Int] /\ reserved \in [Members -> Int]
        /\ \A u \in Members : reserved[u] = Held(u) /\ reserved[u] <= balance[u]
    BY DEF Covered
  <1>1. CASE UNCHANGED <<balance, reserved, Holding, Captured, Released>>
    <2>1. \A u : Held(u)' = Held(u)
      BY <1>1 DEF Held, SumFor
    <2> QED BY <1>0, <1>1, <2>1 DEF Covered
  <1>2. ASSUME NEW h \in Withdrawals \cup Codes, Places(h) PROVE Covered'
    <2>1. /\ HoldOwner[h] \in Members /\ HoldAmount[h] \in Nat /\ h \notin Holding
          /\ HoldAmount[h] <= balance[HoldOwner[h]] - reserved[HoldOwner[h]]
          /\ reserved' = [reserved EXCEPT ![HoldOwner[h]] = @ + HoldAmount[h]]
          /\ Holding' = Holding \cup {h} /\ balance' = balance
      BY <1>2, HoldConstants DEF Places
    <2>2. ASSUME NEW u \in Members PROVE reserved'[u] = Held(u)' /\ reserved'[u] <= balance'[u]
      <3>1. Held(u)' = SumFor(HoldAmount, HoldOwner, Holding \cup {h}, u)
        BY <2>1 DEF Held, SumFor
      <3>2. IsFiniteSet(Holding) /\ \A i \in Holding \cup {h} : HoldAmount[i] \in Int
        BY HoldingKnown, HoldingFinite, HoldConstants
      <3>3. /\ HoldOwner[h] = u => SumFor(HoldAmount, HoldOwner, Holding \cup {h}, u)
                                      = SumFor(HoldAmount, HoldOwner, Holding, u)
                                        + HoldAmount[h]
            /\ HoldOwner[h] # u => SumFor(HoldAmount, HoldOwner, Holding \cup {h}, u)
                                      = SumFor(HoldAmount, HoldOwner, Holding, u)
        BY <2>1, <3>2, SumForGrows
      <3>4. Held(u) = SumFor(HoldAmount, HoldOwner, Holding, u)
        BY DEF Held
      <3>5. reserved'[u] = IF HoldOwner[h] = u THEN reserved[u] + HoldAmount[h] ELSE reserved[u]
        BY <1>0, <2>1
      <3> QED BY <1>0, <2>1, <3>1, <3>3, <3>4, <3>5
    <2>3. reserved' \in [Members -> Int]
      BY <1>0, <2>1
    <2> QED BY <1>0, <2>1, <2>2, <2>3 DEF Covered
  <1>3. ASSUME NEW h \in Withdrawals \cup Codes, Captures(h) \/ Frees(h) PROVE Covered'
    <2>1. /\ HoldOwner[h] \in Members /\ HoldAmount[h] \in Nat
          /\ balance' = balance \/ balance' = [balance EXCEPT ![HoldOwner[h]] = @ - HoldAmount[h]]
      BY <1>3, HoldConstants DEF Captures, Frees
    <2>2. /\ reserved' \in [Members -> Int]
          /\ \A u \in Members :
                 /\ reserved'[u] = Held(u)'
                 /\ reserved'[u] = reserved[u] - (IF HoldOwner[h] = u THEN HoldAmount[h] ELSE 0)
      BY <1>3, LetsExact DEF Captures, Frees
    <2>3. /\ balance' \in [Members -> Int]
          /\ \A u \in Members :
                balance'[u] >= balance[u] - (IF HoldOwner[h] = u THEN HoldAmount[h] ELSE 0)
      BY <1>0, <2>1
    <2>4. ASSUME NEW u \in Members PROVE reserved'[u] <= balance'[u]
      <3>1. /\ balance'[u] \in Int /\ balance[u] \in Int /\ reserved[u] \in Int
            /\ reserved[u] <= balance[u]
        BY <1>0, <2>3
      <3> QED BY <2>1, <2>2, <2>3, <3>1
    <2> QED BY <2>2, <2>3, <2>4 DEF Covered
  <1>4. ASSUME NEW S \in SUBSET (Withdrawals \cup Codes), FreesAll(S) PROVE Covered'
    <2>1. /\ S \subseteq Holding /\ Holding' = Holding \ S /\ balance' = balance
          /\ reserved' = [u \in Members |->
                            Clamp(reserved[u] - SumFor(HoldAmount, HoldOwner, S, u))]
      BY <1>4 DEF FreesAll
    <2>2. ASSUME NEW u \in Members
          PROVE  /\ reserved'[u] = Held(u)' /\ reserved'[u] \in Int
                 /\ reserved'[u] <= balance'[u]
      <3>1. Held(u)' = SumFor(HoldAmount, HoldOwner, Holding \ S, u)
        BY <2>1 DEF Held, SumFor
      <3>2. Held(u) = SumFor(HoldAmount, HoldOwner, Holding \ S, u)
                         + SumFor(HoldAmount, HoldOwner, S, u)
        BY <2>1, HoldingKnown, SumForLess DEF Held
      <3>3. /\ SumFor(HoldAmount, HoldOwner, Holding \ S, u) \in Nat
            /\ SumFor(HoldAmount, HoldOwner, S, u) \in Nat
        BY HoldingKnown, HoldingFinite
      <3>4. reserved'[u] = Clamp(reserved[u] - SumFor(HoldAmount, HoldOwner, S, u))
        BY <2>1
      <3> QED BY <1>0, <2>1, <3>1, <3>2, <3>3, <3>4 DEF Clamp
    <2>3. reserved' \in [Members -> Int]
      BY <2>1, <2>2
    <2> QED BY <1>0, <2>1, <2>2, <2>3 DEF Covered
  <1>5. ASSUME NEW u \in Members, NEW change \in Int, Shifts(u, change) PROVE Covered'
    <2>1. /\ balance' = [balance EXCEPT ![u] = @ + change] /\ reserved' = reserved
          /\ reserved[u] <= balance[u] + change /\ Holding' = Holding
      BY <1>5 DEF Shifts
    <2>2. \A v : Held(v)' = Held(v)
      BY <2>1 DEF Held, SumFor
    <2>3. /\ balance' \in [Members -> Int]
          /\ \A v \in Members : balance'[v] = IF v = u THEN balance[v] + change ELSE balance[v]
      BY <1>0, <2>1
    <2> QED BY <1>0, <2>1, <2>2, <2>3 DEF Covered
  <1> QED BY <1>1, <1>2, <1>3, <1>4, <1>5 DEF HoldMoves

-----------------------------------------------------------------------------
\* The same, as steps of Hold.  The sum of the instance is the one of the module.
LEMMA HoldSums ==
    ASSUME NEW f, NEW S
    PROVE  H!SumFunctionOnSet(f, S) = SumFunctionOnSet(f, S)
  <1>1. H!SumFunctionOnSet(f, S) = (CHOOSE g : Adds(f, g, S))[S]
    BY Zenon DEF H!SumFunctionOnSet, H!FoldFunctionOnSet, H!MapThenFoldSet, Adds, Pick
  <1> QED BY <1>1, SumUnfold

LEMMA CommerceSums ==
    ASSUME NEW f, NEW S
    PROVE  C!SumFunctionOnSet(f, S) = SumFunctionOnSet(f, S)
  <1>1. C!SumFunctionOnSet(f, S) = (CHOOSE g : Adds(f, g, S))[S]
    BY Zenon DEF C!SumFunctionOnSet, C!FoldFunctionOnSet, C!MapThenFoldSet, Adds, Pick
  <1> QED BY <1>1, SumUnfold

LEMMA SetAsideIs == \A u : H!SetAside(u) = Held(u)
  <1> SUFFICES ASSUME NEW u PROVE H!SetAside(u) = Held(u)
    OBVIOUS
  <1>1. H!SetAside(u) = H!SumFunctionOnSet(HoldAmount, {h \in Holding : HoldOwner[h] = u})
    BY DEF H!SetAside, Holding
  <1> QED BY <1>1, HoldSums DEF Held, SumFor

LEMMA MovesAreHold ==
    ASSUME Covered, HoldMoves
    PROVE  [H!HoldNext]_(H!holdVars)
  <1>0. /\ balance \in [Members -> Int] /\ reserved \in [Members -> Int]
        /\ \A u \in Members : reserved[u] = H!SetAside(u) /\ reserved[u] <= balance[u]
    BY SetAsideIs DEF Covered
  <1>1. CASE UNCHANGED <<balance, reserved, Holding, Captured, Released>>
    BY <1>1 DEF H!holdVars, Holding, Captured, Released
  <1>2. ASSUME NEW h \in Withdrawals \cup Codes, Places(h) PROVE H!HoldNext
    <2>1. HoldOwner[h] \in Members /\ HoldAmount[h] \in Nat
      BY HoldConstants
    <2>2. H!SetAside(HoldOwner[h]) + HoldAmount[h] <= balance[HoldOwner[h]]
      <3>1. HoldAmount[h] <= balance[HoldOwner[h]] - reserved[HoldOwner[h]]
        BY <1>2 DEF Places
      <3> QED BY <1>0, <2>1, <3>1
    <2>3. H!Place(h)
      BY <1>2, <2>2 DEF Places, H!Place, Holding, Captured, Released
    <2> QED BY <2>3 DEF H!HoldNext
  <1>3. ASSUME NEW h \in Withdrawals \cup Codes, Captures(h) PROVE H!HoldNext
    <2>1. H!Capture(h)
      BY <1>3 DEF Captures, Lets, H!Capture, Holding, Captured, Released
    <2> QED BY <2>1 DEF H!HoldNext
  <1>4. ASSUME NEW h \in Withdrawals \cup Codes, Frees(h) PROVE H!HoldNext
    <2>1. H!Release({h})
      BY <1>4 DEF Frees, Lets, H!Release, Holding, Captured, Released
    <2> QED BY <2>1 DEF H!HoldNext
  <1>5. ASSUME NEW S \in SUBSET (Withdrawals \cup Codes), FreesAll(S) PROVE H!HoldNext
    <2>1. H!Release(S)
      BY <1>5 DEF FreesAll, H!Release, Holding, Captured, Released
    <2> QED BY <2>1 DEF H!HoldNext
  <1>6. ASSUME NEW u \in Members, NEW change \in Int, Shifts(u, change) PROVE H!HoldNext
    <2>1. balance' = [balance EXCEPT ![u] = balance'[u]] /\ balance'[u] >= H!SetAside(u)
      BY <1>0, <1>6 DEF Shifts
    <2>2. H!Move(u)
      BY <1>6, <2>1 DEF Shifts, H!Move, Holding, Captured, Released
    <2> QED BY <2>2 DEF H!HoldNext
  <1> QED BY <1>1, <1>2, <1>3, <1>4, <1>5, <1>6 DEF HoldMoves

-----------------------------------------------------------------------------
\* The locks of withdrawal requests in progress.  Every other step of any flow
\* leaves a locked account as it is.
Frozen ==
    /\ UNCHANGED <<locked, request>>
    /\ \A u \in locked : balance'[u] = balance[u] /\ reserved'[u] = reserved[u]

LEMMA FrozenKeeps ==
    ASSUME W!LockProtectsFunds, Frozen
    PROVE  W!LockProtectsFunds'
  <1>1. \A s \in Withdrawals : request[s] = "picked" => Owner[s] \in locked
    BY DEF W!LockProtectsFunds
  <1>2. \A s \in Withdrawals : request'[s] = "picked"
           => Amount[s] <= balance'[Owner[s]] - reserved'[Owner[s]]
    BY <1>1 DEF Frozen, W!LockProtectsFunds, W!Available
  <1>3. request' = request /\ locked' = locked
    BY DEF Frozen
  <1> QED BY <1>2, <1>3 DEF W!LockProtectsFunds, W!Available

LEMMA LockedMembers == W!LockProtectsFunds => locked \subseteq Members
  BY FlowConstants DEF W!LockProtectsFunds

\* A member has one open withdrawal.
Alone == \A s, t \in W!Open : Owner[s] = Owner[t] => s = t
HoldInv == Shapes /\ Fresh /\ Covered /\ Alone /\ W!LockProtectsFunds

\* Flows A and B.
LEMMA CommerceHolds ==
    ASSUME HoldInv, CommerceStep
    PROVE  HoldMoves /\ Frozen /\ W!Open' = W!Open
  <1> DEFINE Goal == HoldMoves /\ Frozen
  <1>0. /\ cstatus \in [Codes -> C!CodeStatuses] /\ balance \in [Members -> Int]
        /\ reserved \in [Members -> Int]
        /\ \A u \in Members : reserved[u] <= balance[u]
        /\ \A c \in counted : cstatus[c] = "unused"
        /\ C!Next /\ UNCHANGED <<wstatus, request>>
    BY DEF HoldInv, Shapes, Fresh, Covered, CommerceStep, withdrawVars
  <1>1. /\ W!Open' = W!Open
        /\ \A status : W!Ended(status)' = W!Ended(status)
    BY <1>0 DEF W!Open, W!Ended
  <1>2. ASSUME UNCHANGED <<balance, reserved, locked, cstatus>> PROVE Goal
    <2>1. UNCHANGED <<Holding, Captured, Released>>
      BY <1>0, <1>1, <1>2 DEF Holding, Captured, Released, W!Ended, C!Active, C!Ended
    <2> QED BY <1>0, <1>2, <2>1 DEF HoldMoves, Frozen
  <1>3. ASSUME NEW c \in Codes, C!CountCodes(c) \/ C!AbortCode(c) \/ C!CodeDue(c)
        PROVE  Goal
    <2>1. UNCHANGED <<balance, reserved, locked, cstatus>>
      BY <1>3 DEF C!CountCodes, C!AbortCode, C!CodeDue, C!accountVars, C!codeVars
    <2> QED BY <1>2, <2>1
  <1>4. ASSUME NEW c \in Codes, NEW points \in PointChoices, C!CreateCode(c, points)
        PROVE  Goal
    <2>1. /\ cstatus[c] = "unused" /\ Holder[c] \notin locked
          /\ HoldAmount[c] <= balance[HoldOwner[c]] - reserved[HoldOwner[c]]
          /\ reserved' = [reserved EXCEPT ![HoldOwner[c]] = @ + HoldAmount[c]]
          /\ cstatus' = [cstatus EXCEPT ![c] = "active"]
          /\ UNCHANGED <<balance, locked>>
      BY <1>0, <1>4, HoldConstants DEF C!CreateCode, C!AccountFree, C!FundsCover, C!Available
    <2>2. /\ c \notin Holding \cup Captured \cup Released
          /\ Holding' = Holding \cup {c} /\ Captured' = Captured /\ Released' = Released
      BY <1>0, <1>1, <2>1, HoldConstants
         DEF Holding, Captured, Released, W!Open, W!Ended, C!Active, C!Ended
    <2>3. Places(c)
      BY <2>1, <2>2 DEF Places
    <2>4. Frozen
      BY <1>0, <2>1, HoldConstants DEF Frozen
    <2> QED BY <2>3, <2>4 DEF HoldMoves
  <1>5. ASSUME NEW c \in Codes, NEW status \in {"consumed", "cancelled"},
               cstatus[c] = "active", cstatus' = [cstatus EXCEPT ![c] = status]
        PROVE  /\ c \in Holding /\ Holding' = Holding \ {c}
               /\ status = "consumed" => Captured' = Captured \cup {c} /\ Released' = Released
               /\ status = "cancelled" => Captured' = Captured /\ Released' = Released \cup {c}
    BY <1>0, <1>1, <1>5, HoldConstants
       DEF Holding, Captured, Released, W!Open, W!Ended, C!Active, C!Ended
  <1>6. ASSUME NEW c \in Codes, C!CancelCode(c) PROVE Goal
    <2>1. /\ cstatus[c] = "active" /\ Holder[c] \notin locked
          /\ reserved' = [reserved EXCEPT ![HoldOwner[c]] = Clamp(@ - HoldAmount[c])]
          /\ cstatus' = [cstatus EXCEPT ![c] = "cancelled"]
          /\ UNCHANGED <<balance, locked>>
      BY <1>6, HoldConstants DEF C!CancelCode, C!StillActive, C!AccountFree,
                                 C!ReleaseReserved, C!Clamp, Clamp
    <2>2. Frees(c)
      BY <1>5, <2>1 DEF Frees, Lets
    <2>3. Frozen
      BY <1>0, <2>1, HoldConstants DEF Frozen
    <2> QED BY <2>2, <2>3 DEF HoldMoves
  <1>7. ASSUME NEW c \in Codes, NEW m \in Commerce, C!ConsumeCode(c, m) PROVE Goal
    <2>1. /\ cstatus[c] = "active" /\ Holder[c] \notin locked
          /\ balance' = [balance EXCEPT ![HoldOwner[c]] = @ - HoldAmount[c]]
          /\ reserved' = [reserved EXCEPT ![HoldOwner[c]] = Clamp(@ - HoldAmount[c])]
          /\ cstatus' = [cstatus EXCEPT ![c] = "consumed"]
          /\ locked' = locked
      BY <1>7, HoldConstants DEF C!ConsumeCode, C!StillActive, C!AccountFree,
                                 C!ReleaseReserved, C!Clamp, Clamp
    <2>2. Captures(c)
      BY <1>5, <2>1 DEF Captures, Lets
    <2>3. Frozen
      BY <1>0, <2>1, HoldConstants DEF Frozen
    <2> QED BY <2>2, <2>3 DEF HoldMoves
  <1>8. ASSUME C!ExpireCodes PROVE Goal
    <2> DEFINE due == C!DueCodes
    <2>1. /\ \A c \in due : Holder[c] \notin locked
          /\ cstatus' = [c \in Codes |-> IF c \in due THEN "expired" ELSE cstatus[c]]
          /\ reserved' = [u \in Members |-> C!Clamp(reserved[u] - C!Returned(u, due))]
          /\ UNCHANGED <<balance, locked>>
      BY <1>8 DEF C!ExpireCodes, C!AccountFree
    <2>2. due \subseteq C!Active /\ due \subseteq Codes
      BY DEF C!DueCodes, C!Active
    <2> HIDE DEF due
    <2>3. ASSUME NEW u
          PROVE  C!Returned(u, due) = SumFor(HoldAmount, HoldOwner, due, u)
      <3> DEFINE mine == {c \in due : Holder[c] = u}
      <3>1. /\ {h \in due : HoldOwner[h] = u} = mine /\ IsFiniteSet(mine)
            /\ \A c \in mine : CodeAmount[c] = HoldAmount[c]
        BY <2>2, FiniteConstants, HoldConstants, FS_Subset
      <3>2. C!Returned(u, due) = C!SumFunctionOnSet(CodeAmount, mine)
        BY DEF C!Returned
      <3> HIDE DEF mine
      <3>3. SumFunctionOnSet(CodeAmount, mine) = SumFunctionOnSet(HoldAmount, mine)
        BY <3>1, SumSame
      <3> QED BY <3>1, <3>2, <3>3, CommerceSums DEF SumFor
    <2>4. /\ due \subseteq Holding /\ Holding' = Holding \ due
          /\ Released' = Released \cup due /\ Captured' = Captured
      <3>1. C!Active' = C!Active \ due /\ due \cap W!Open = {}
        BY <2>1, <2>2, HoldConstants DEF C!Active, W!Open
      <3>2. /\ C!Ended({"consumed"})' = C!Ended({"consumed"})
            /\ C!Ended({"cancelled", "expired"})' = C!Ended({"cancelled", "expired"}) \cup due
        BY <2>1, <2>2 DEF C!Active, C!Ended
      <3> QED BY <1>1, <2>2, <3>1, <3>2 DEF Holding, Captured, Released
    <2>5. reserved' = [u \in Members |->
                         Clamp(reserved[u] - SumFor(HoldAmount, HoldOwner, due, u))]
      BY <2>1, <2>3 DEF C!Clamp, Clamp
    <2>6. FreesAll(due) /\ due \in SUBSET (Withdrawals \cup Codes)
      BY <2>1, <2>2, <2>4, <2>5 DEF FreesAll
    <2>7. ASSUME NEW u \in locked PROVE reserved'[u] = reserved[u]
      <3>1. {h \in due : HoldOwner[h] = u} = {}
        BY <2>1, <2>2, HoldConstants
      <3>2. SumFor(HoldAmount, HoldOwner, due, u) = 0
        BY <3>1, SumEmpty DEF SumFor
      <3>3. u \in Members /\ reserved[u] \in Int /\ reserved[u] >= 0
        <4>1. u \in Members
          BY FlowConstants DEF HoldInv, W!LockProtectsFunds
        <4>2. reserved[u] = Held(u) /\ Held(u) \in Nat
          BY <4>1, HoldingKnown, HoldingFinite DEF HoldInv, Covered, Held
        <4> QED BY <4>1, <4>2
      <3> QED BY <2>5, <3>2, <3>3 DEF Clamp
    <2>8. Frozen
      BY <1>0, <2>1, <2>7 DEF Frozen
    <2> QED BY <2>6, <2>8 DEF HoldMoves
  <1>9. ASSUME NEW k \in Credits, NEW m \in Commerce, C!CreditMember(k, m) PROVE Goal
    <2>1. /\ CreditTo[k] \notin locked
          /\ balance' = [balance EXCEPT ![CreditTo[k]] = @ + CreditAmount[k]]
          /\ UNCHANGED <<reserved, locked, cstatus>>
      BY <1>9 DEF C!CreditMember, C!AccountFree, C!codeVars
    <2>2. CreditTo[k] \in Members /\ CreditAmount[k] \in Nat
      BY FlowConstants
    <2>3. UNCHANGED <<Holding, Captured, Released>>
      BY <1>1, <2>1 DEF Holding, Captured, Released, W!Ended, C!Active, C!Ended
    <2>4. Shifts(CreditTo[k], CreditAmount[k])
      BY <1>0, <2>1, <2>2, <2>3 DEF Shifts
    <2>5. Frozen
      BY <1>0, <2>1 DEF Frozen
    <2> QED BY <2>2, <2>4, <2>5 DEF HoldMoves
  <1> HIDE DEF Goal
  <1>10. Goal
    BY <1>0, <1>3, <1>4, <1>6, <1>7, <1>8, <1>9 DEF C!Next
  <1> QED BY <1>1, <1>10 DEF Goal

-----------------------------------------------------------------------------
\* Flow D.  A request gives its lock back when it commits or rolls back.
LEMMA LockGivenBack ==
    ASSUME W!LockProtectsFunds, Fresh, NEW s \in Withdrawals,
           request' = [request EXCEPT ![s] = "idle"],
           locked' = IF request[s] = "picked" THEN locked \ {Owner[s]} ELSE locked,
           \A t \in Withdrawals \ {s} : request[t] = "picked" =>
              balance'[Owner[t]] = balance[Owner[t]] /\ reserved'[Owner[t]] = reserved[Owner[t]]
    PROVE  W!LockProtectsFunds'
  <1>0. /\ locked = {Owner[t] : t \in {x \in Withdrawals : request[x] = "picked"}}
        /\ \A t, v \in Withdrawals :
              request[t] = "picked" /\ request[v] = "picked" /\ Owner[t] = Owner[v] => t = v
        /\ \A t \in Withdrawals : request[t] = "picked" =>
              Amount[t] <= balance[Owner[t]] - reserved[Owner[t]]
    BY DEF W!LockProtectsFunds, W!Available
  <1>1. \A t \in Withdrawals : request'[t] = IF t = s THEN "idle" ELSE request[t]
    BY DEF Fresh
  <1>2. locked' = {Owner[t] : t \in {x \in Withdrawals : request'[x] = "picked"}}
    <2>1. CASE request[s] = "picked"
      <3>1. locked' = locked \ {Owner[s]}
        BY <2>1
      <3> QED BY <1>0, <1>1, <2>1, <3>1
    <2>2. CASE request[s] # "picked"
      <3>1. {x \in Withdrawals : request'[x] = "picked"}
               = {x \in Withdrawals : request[x] = "picked"} /\ locked' = locked
        BY <1>1, <2>2
      <3> QED BY <1>0, <3>1
    <2> QED BY <2>1, <2>2
  <1>3. \A t, v \in Withdrawals :
           request'[t] = "picked" /\ request'[v] = "picked" /\ Owner[t] = Owner[v] => t = v
    BY <1>0, <1>1
  <1>4. \A t \in Withdrawals : request'[t] = "picked" =>
           Amount[t] <= balance'[Owner[t]] - reserved'[Owner[t]]
    BY <1>0, <1>1
  <1> QED BY <1>2, <1>3, <1>4 DEF W!LockProtectsFunds, W!Available

\* A request takes the lock of its member's account, which nobody has, and has
\* seen that the amount is there.
LEMMA LockTaken ==
    ASSUME W!LockProtectsFunds, Fresh, NEW s \in Withdrawals,
           Owner[s] \notin locked, Amount[s] <= W!Available(Owner[s]),
           request' = [request EXCEPT ![s] = "picked"],
           locked' = locked \cup {Owner[s]}, UNCHANGED <<balance, reserved>>
    PROVE  W!LockProtectsFunds'
  <1>0. /\ locked = {Owner[t] : t \in {x \in Withdrawals : request[x] = "picked"}}
        /\ \A t, v \in Withdrawals :
              request[t] = "picked" /\ request[v] = "picked" /\ Owner[t] = Owner[v] => t = v
        /\ \A t \in Withdrawals : request[t] = "picked" =>
              Amount[t] <= balance[Owner[t]] - reserved[Owner[t]]
    BY DEF W!LockProtectsFunds, W!Available
  <1>1. \A t \in Withdrawals : request'[t] = IF t = s THEN "picked" ELSE request[t]
    BY DEF Fresh
  <1>2. locked' = {Owner[t] : t \in {x \in Withdrawals : request'[x] = "picked"}}
    BY <1>0, <1>1
  <1>3. \A t, v \in Withdrawals :
           request'[t] = "picked" /\ request'[v] = "picked" /\ Owner[t] = Owner[v] => t = v
    BY <1>0, <1>1
  <1>4. \A t \in Withdrawals : request'[t] = "picked" =>
           Amount[t] <= balance'[Owner[t]] - reserved'[Owner[t]]
    BY <1>0, <1>1 DEF W!Available
  <1> QED BY <1>2, <1>3, <1>4 DEF W!LockProtectsFunds, W!Available

\* What is held when one withdrawal moves on.
LEMMA MovedHolds ==
    ASSUME HoldInv, UNCHANGED cstatus, NEW s \in Withdrawals, NEW status,
           wstatus' = [wstatus EXCEPT ![s] = status]
    PROVE  /\ wstatus[s] = "unused" /\ status = "pending" =>
                 /\ s \notin Holding \cup Captured \cup Released
                 /\ Holding' = Holding \cup {s} /\ UNCHANGED <<Captured, Released>>
                 /\ W!Open' = W!Open \cup {s}
           /\ wstatus[s] = "pending" /\ status = "sent_to_merchant" =>
                 UNCHANGED <<Holding, Captured, Released>> /\ W!Open' = W!Open
           /\ s \in W!Open /\ status = "failed" =>
                 /\ s \in Holding /\ Holding' = Holding \ {s} /\ W!Open' \subseteq W!Open
                 /\ Released' = Released \cup {s} /\ Captured' = Captured
           /\ s \in W!Open /\ status = "success" =>
                 /\ s \in Holding /\ Holding' = Holding \ {s} /\ W!Open' \subseteq W!Open
                 /\ Captured' = Captured \cup {s} /\ Released' = Released
  <1>1. \A t \in Withdrawals : wstatus'[t] = IF t = s THEN status ELSE wstatus[t]
    BY DEF HoldInv, Shapes
  <1>2. s \notin Codes
    BY HoldConstants
  <1>3. C!Active' = C!Active /\ \A ended : C!Ended(ended)' = C!Ended(ended)
    BY DEF C!Active, C!Ended
  <1>4. C!Active \subseteq Codes /\ \A ended : C!Ended(ended) \subseteq Codes
    BY DEF C!Active, C!Ended
  <1>5. CASE wstatus[s] = "unused" /\ status = "pending"
    <2>1. W!Open' = W!Open \cup {s} /\ s \notin W!Open
      BY <1>1, <1>5 DEF W!Open
    <2>2. \A e \in {"success", "failed", "timeout"} :
             W!Ended(e)' = W!Ended(e) /\ s \notin W!Ended(e)
      BY <1>1, <1>5 DEF W!Ended
    <2> QED BY <1>2, <1>3, <1>4, <1>5, <2>1, <2>2 DEF Holding, Captured, Released
  <1>6. CASE wstatus[s] = "pending" /\ status = "sent_to_merchant"
    <2>1. W!Open' = W!Open
      BY <1>1, <1>6 DEF W!Open
    <2>2. \A e \in {"success", "failed", "timeout"} : W!Ended(e)' = W!Ended(e)
      BY <1>1, <1>6 DEF W!Ended
    <2> QED BY <1>3, <1>6, <2>1, <2>2 DEF Holding, Captured, Released, W!Open
  <1>7. CASE s \in W!Open /\ status = "failed"
    <2>1. W!Open' = W!Open \ {s}
      BY <1>1, <1>7 DEF W!Open
    <2>2. /\ W!Ended("failed")' = W!Ended("failed") \cup {s}
          /\ W!Ended("timeout")' = W!Ended("timeout")
          /\ W!Ended("success")' = W!Ended("success")
      BY <1>1, <1>7 DEF W!Ended, W!Open
    <2> QED BY <1>2, <1>3, <1>4, <1>7, <2>1, <2>2 DEF Holding, Captured, Released
  <1>8. CASE s \in W!Open /\ status = "success"
    <2>1. W!Open' = W!Open \ {s}
      BY <1>1, <1>8 DEF W!Open
    <2>2. /\ W!Ended("success")' = W!Ended("success") \cup {s}
          /\ W!Ended("timeout")' = W!Ended("timeout")
          /\ W!Ended("failed")' = W!Ended("failed")
      BY <1>1, <1>8 DEF W!Ended, W!Open
    <2> QED BY <1>2, <1>3, <1>4, <1>8, <2>1, <2>2 DEF Holding, Captured, Released
  <1> QED BY <1>5, <1>6, <1>7, <1>8

\* What a step of flow D keeps.
HoldsOn == HoldMoves /\ Alone' /\ W!LockProtectsFunds'

LEMMA SameHolds ==
    ASSUME UNCHANGED <<wstatus, cstatus>>
    PROVE  UNCHANGED <<Holding, Captured, Released>> /\ W!Open' = W!Open
  BY DEF Holding, Captured, Released, W!Open, W!Ended, C!Active, C!Ended

LEMMA RequestHolds ==
    ASSUME HoldInv, UNCHANGED cstatus, NEW s \in Withdrawals, W!Request(s)
    PROVE  HoldsOn
  <1>0. Fresh /\ W!LockProtectsFunds /\ Covered /\ Alone
    BY DEF HoldInv
  <1>1. ASSUME UNCHANGED <<balance, reserved, wstatus>> PROVE HoldMoves /\ Alone'
    BY <1>0, <1>1, SameHolds DEF HoldMoves, Alone
  <1>2. CASE W!CheckOpen(s)
    <2>1. /\ request[s] = "idle" /\ request' = [request EXCEPT ![s] = "checked"]
          /\ UNCHANGED <<balance, reserved, wstatus, locked>>
      BY <1>2 DEF W!CheckOpen, W!walletVars
    <2>2. \A t \in Withdrawals : request'[t] = "picked" <=> request[t] = "picked"
      BY <1>0, <2>1 DEF Fresh
    <2>3. W!LockProtectsFunds'
      BY <1>0, <2>1, <2>2 DEF W!LockProtectsFunds, W!Available
    <2> QED BY <1>1, <2>1, <2>3 DEF HoldsOn
  <1>3. ASSUME NEW m \in Finance, W!PickMerchant(s, m) PROVE HoldsOn
    <2>1. /\ Owner[s] \notin locked /\ Amount[s] <= W!Available(Owner[s])
          /\ request' = [request EXCEPT ![s] = "picked"]
          /\ locked' = locked \cup {Owner[s]}
          /\ UNCHANGED <<balance, reserved, wstatus>>
      BY <1>3 DEF W!PickMerchant, W!AccountFree, W!FundsCover, W!accountVars
    <2>2. W!LockProtectsFunds'
      BY <1>0, <2>1, LockTaken
    <2> QED BY <1>1, <2>1, <2>2 DEF HoldsOn
  <1>4. CASE W!AbortRequest(s)
    <2>1. /\ request' = [request EXCEPT ![s] = "idle"]
          /\ locked' = IF request[s] = "picked" THEN locked \ {Owner[s]} ELSE locked
          /\ UNCHANGED <<balance, reserved, wstatus>>
      BY <1>4 DEF W!AbortRequest, W!accountVars
    <2>2. W!LockProtectsFunds'
      BY <1>0, <2>1, LockGivenBack
    <2> QED BY <1>1, <2>1, <2>2 DEF HoldsOn
  <1>5. CASE W!ReserveWithdraw(s)
    <2>1. /\ request[s] = "picked" /\ wstatus[s] = "unused"
          /\ W!OpenOf(Owner[s]) = {}
          /\ reserved' = [reserved EXCEPT ![Owner[s]] = @ + Amount[s]]
          /\ wstatus' = [wstatus EXCEPT ![s] = "pending"]
          /\ request' = [request EXCEPT ![s] = "idle"]
          /\ locked' = locked \ {Owner[s]} /\ balance' = balance
      BY <1>0, <1>5 DEF W!ReserveWithdraw, W!UniqueOpen, Fresh
    <2>2. /\ HoldOwner[s] = Owner[s] /\ HoldAmount[s] = Amount[s]
          /\ s \in Withdrawals \cup Codes
      BY HoldConstants
    <2>3. Amount[s] <= balance[Owner[s]] - reserved[Owner[s]]
      BY <1>0, <2>1 DEF W!LockProtectsFunds, W!Available
    <2>4. /\ s \notin Holding \cup Captured \cup Released
          /\ Holding' = Holding \cup {s} /\ UNCHANGED <<Captured, Released>>
          /\ W!Open' = W!Open \cup {s}
      BY <2>1, MovedHolds
    <2>5. Places(s)
      BY <2>1, <2>2, <2>3, <2>4 DEF Places
    <2>6. Alone'
      BY <1>0, <2>1, <2>4 DEF Alone, W!OpenOf
    <2>7. \A t \in Withdrawals \ {s} : request[t] = "picked" => Owner[t] # Owner[s]
      BY <1>0, <2>1 DEF W!LockProtectsFunds
    <2>8. \A t \in Withdrawals \ {s} : request[t] = "picked" =>
             balance'[Owner[t]] = balance[Owner[t]] /\ reserved'[Owner[t]] = reserved[Owner[t]]
      BY <1>0, <2>1, <2>7, FlowConstants DEF Covered
    <2>9. W!LockProtectsFunds'
      BY <1>0, <2>1, <2>8, LockGivenBack
    <2> QED BY <2>2, <2>5, <2>6, <2>9 DEF HoldMoves, HoldsOn
  <1> QED BY <1>2, <1>3, <1>4, <1>5 DEF W!Request

LEMMA PushHolds ==
    ASSUME HoldInv, UNCHANGED cstatus, NEW s \in Withdrawals, W!Push(s)
    PROVE  HoldsOn
  <1>1. UNCHANGED <<balance, reserved, locked, request>>
    BY DEF W!Push, W!PushRead, W!PushClaim, W!walletVars, W!requestVars
  <1>2. W!LockProtectsFunds'
    BY <1>1 DEF HoldInv, W!LockProtectsFunds, W!Available
  <1>3. UNCHANGED <<Holding, Captured, Released>> /\ W!Open' = W!Open
    <2>1. \/ wstatus' = wstatus
          \/ wstatus[s] = "pending" /\ wstatus' = [wstatus EXCEPT ![s] = "sent_to_merchant"]
      BY DEF W!Push, W!PushRead, W!PushClaim, W!StillPending, W!requestVars
    <2> QED BY <2>1, SameHolds, MovedHolds
  <1>4. HoldMoves
    BY <1>1, <1>3 DEF HoldMoves
  <1>5. Alone'
    BY <1>3 DEF HoldInv, Alone
  <1> QED BY <1>2, <1>4, <1>5 DEF HoldsOn

LEMMA CallbackHolds ==
    ASSUME HoldInv, UNCHANGED cstatus, NEW s \in Withdrawals, W!Callback(s)
    PROVE  HoldsOn
  <1>0. W!LockProtectsFunds /\ Covered /\ Alone
    BY DEF HoldInv
  <1>1. /\ HoldOwner[s] = Owner[s] /\ HoldAmount[s] = Amount[s]
        /\ s \in Withdrawals \cup Codes /\ Owner[s] \in Members
    BY HoldConstants
  <1>2. /\ s \in W!Open /\ Owner[s] \notin locked
        /\ reserved' = [reserved EXCEPT ![HoldOwner[s]] = Clamp(@ - HoldAmount[s])]
        /\ UNCHANGED <<locked, request>>
    BY <1>1 DEF W!Callback, W!FinalizeFailed, W!FinalizeSuccess, W!NotFinalized,
                W!AccountFree, W!ReleaseReserved, W!Clamp, Clamp, W!Open
  <1>3. \/ wstatus' = [wstatus EXCEPT ![s] = "failed"] /\ balance' = balance
        \/ /\ wstatus' = [wstatus EXCEPT ![s] = "success"]
           /\ balance' = [balance EXCEPT ![HoldOwner[s]] = @ - HoldAmount[s]]
    BY <1>1 DEF W!Callback, W!FinalizeFailed, W!FinalizeSuccess
  <1>4. (Captures(s) \/ Frees(s)) /\ W!Open' \subseteq W!Open
    BY <1>2, <1>3, MovedHolds DEF Captures, Frees, Lets
  <1>5. Alone'
    BY <1>0, <1>4 DEF Alone
  <1>6. Frozen
    <2>1. locked \subseteq Members /\ Owner[s] \notin locked
      BY <1>0, <1>2, LockedMembers
    <2>2. ASSUME NEW u \in locked
          PROVE  balance'[u] = balance[u] /\ reserved'[u] = reserved[u]
      <3>1. u \in Members /\ u # HoldOwner[s]
        BY <1>1, <2>1
      <3> QED BY <1>0, <1>2, <1>3, <3>1 DEF Covered
    <2> QED BY <1>2, <2>2 DEF Frozen
  <1>7. W!LockProtectsFunds'
    BY <1>0, <1>6, FrozenKeeps
  <1>8. HoldMoves
    BY <1>1, <1>4 DEF HoldMoves
  <1> QED BY <1>5, <1>7, <1>8 DEF HoldsOn

\* The scan releases each member's one due session, whichever rows it applies.
LEMMA ScanHolds ==
    ASSUME HoldInv, UNCHANGED cstatus, W!ScanWithdrawTimeouts
    PROVE  HoldsOn
  <1> DEFINE OwnerOf(s) == Owner[s]
             due == W!DueSessions
  <1>0. W!LockProtectsFunds /\ Covered /\ Alone /\ wstatus \in [Withdrawals -> W!Statuses]
    BY DEF HoldInv, Shapes
  <1>1. /\ wstatus' = [s \in Withdrawals |-> IF s \in due THEN "timeout" ELSE wstatus[s]]
        /\ \A s \in due : Owner[s] \notin locked
        /\ UNCHANGED <<balance, locked, request>>
    BY DEF W!ScanWithdrawTimeouts, W!AccountFree
  <1>2. PICK released \in W!OnePerKey(due, OwnerOf) :
           reserved' = [u \in Members |->
              IF \E s \in released : Owner[s] = u
              THEN W!Clamp(reserved[u] - Amount[CHOOSE s \in released : Owner[s] = u])
              ELSE reserved[u]]
    BY DEF W!ScanWithdrawTimeouts
  <1>3. /\ released \subseteq due
        /\ \A s \in due : \E t \in released : Owner[t] = Owner[s]
    BY DEF W!OnePerKey
  <1>4. due \subseteq W!Open /\ W!Open \subseteq Withdrawals
    BY DEF W!DueSessions, W!Open
  <1> HIDE DEF due
  <1>5. released = due
    BY <1>0, <1>3, <1>4 DEF Alone
  <1>6. ASSUME NEW u \in Members
        PROVE  /\ reserved'[u] = Clamp(reserved[u] - SumFor(HoldAmount, HoldOwner, due, u))
               /\ u \in locked => reserved'[u] = reserved[u]
    <2>1. CASE \E s \in due : Owner[s] = u
      <3> DEFINE t == CHOOSE s \in released : Owner[s] = u
      <3>1. t \in due /\ Owner[t] = u
        BY <1>5, <2>1
      <3>2. reserved'[u] = Clamp(reserved[u] - Amount[t])
        BY <1>2, <1>5, <2>1 DEF W!Clamp, Clamp
      <3> HIDE DEF t
      <3>3. /\ t \in Withdrawals \cup Codes /\ HoldOwner[t] = u /\ HoldAmount[t] = Amount[t]
        BY <1>4, <3>1, HoldConstants
      <3>4. {h \in due : HoldOwner[h] = u} = {t} /\ {h \in {t} : HoldOwner[h] = u} = {t}
        BY <1>0, <1>4, <3>1, <3>3, HoldConstants DEF Alone
      <3>5. SumFor(HoldAmount, HoldOwner, due, u) = SumFor(HoldAmount, HoldOwner, {t}, u)
        BY <3>4 DEF SumFor
      <3>6. SumFor(HoldAmount, HoldOwner, {t}, u) = Amount[t]
        BY <3>3, SumForOne
      <3> QED BY <1>1, <3>1, <3>2, <3>5, <3>6
    <2>2. CASE ~\E s \in due : Owner[s] = u
      <3>1. {h \in due : HoldOwner[h] = u} = {}
        BY <1>4, <2>2, HoldConstants
      <3>2. SumFor(HoldAmount, HoldOwner, due, u) = 0
        BY <3>1, SumEmpty DEF SumFor
      <3>3. reserved'[u] = reserved[u]
        BY <1>2, <1>5, <2>2
      <3>4. reserved[u] = Held(u) /\ Held(u) \in Nat
        BY <1>0, HoldingKnown, HoldingFinite DEF Covered, Held
      <3> QED BY <3>2, <3>3, <3>4 DEF Clamp
    <2> QED BY <2>1, <2>2
  <1>7. reserved' = [u \in Members |->
                       Clamp(reserved[u] - SumFor(HoldAmount, HoldOwner, due, u))]
    <2>1. reserved' = [u \in Members |-> reserved'[u]]
      BY <1>2
    <2> QED BY <1>6, <2>1
  <1>8. /\ due \subseteq Holding /\ Holding' = Holding \ due
        /\ Released' = Released \cup due /\ Captured' = Captured
        /\ W!Open' \subseteq W!Open
    <2>1. C!Active' = C!Active /\ \A ended : C!Ended(ended)' = C!Ended(ended)
      BY DEF C!Active, C!Ended
    <2>2. due \cap C!Active = {}
      BY <1>4, HoldConstants DEF C!Active
    <2>3. W!Open' = W!Open \ due
      BY <1>0, <1>1, <1>4 DEF W!Open
    <2>4. /\ W!Ended("timeout")' = W!Ended("timeout") \cup due
          /\ W!Ended("failed")' = W!Ended("failed") /\ W!Ended("success")' = W!Ended("success")
      BY <1>0, <1>1, <1>4 DEF W!Ended, W!Open
    <2> QED BY <1>4, <2>1, <2>2, <2>3, <2>4 DEF Holding, Captured, Released
  <1>9. FreesAll(due) /\ due \in SUBSET (Withdrawals \cup Codes)
    BY <1>1, <1>4, <1>7, <1>8 DEF FreesAll
  <1>10. Frozen
    BY <1>0, <1>1, <1>6, LockedMembers DEF Frozen
  <1>11. W!LockProtectsFunds'
    BY <1>0, <1>10, FrozenKeeps
  <1>12. Alone'
    BY <1>0, <1>8 DEF Alone
  <1> QED BY <1>9, <1>11, <1>12 DEF HoldMoves, HoldsOn

LEMMA WithdrawHolds ==
    ASSUME HoldInv, WithdrawStep
    PROVE  HoldsOn
  <1>1. W!Next /\ UNCHANGED cstatus
    BY DEF WithdrawStep, commerceVars
  <1>2. ASSUME NEW s \in Withdrawals, NEW d \in {"paid", "refused"},
               W!MerchantDecides(s, d) \/ W!Expire(s)
        PROVE  HoldsOn
    <2>1. UNCHANGED <<balance, reserved, locked, request, wstatus>>
      BY <1>2 DEF W!MerchantDecides, W!Expire, W!walletVars, W!requestVars
    <2>2. W!LockProtectsFunds'
      BY <2>1 DEF HoldInv, W!LockProtectsFunds, W!Available
    <2> QED BY <1>1, <2>1, <2>2, SameHolds DEF HoldInv, HoldMoves, Alone, HoldsOn
  <1> QED BY <1>1, <1>2, RequestHolds, PushHolds, CallbackHolds, ScanHolds DEF W!Next

-----------------------------------------------------------------------------
\* Flow C and the back office leave sessions and codes alone, and what they do
\* to an account leaves its reservation covered.
LEMMA ShiftHolds ==
    ASSUME HoldInv, UNCHANGED <<wstatus, cstatus, request, locked, reserved>>,
           \/ balance' = balance
           \/ \E u \in Members \ locked, change \in Int :
                 /\ balance' = [balance EXCEPT ![u] = @ + change]
                 /\ reserved[u] <= balance[u] + change
    PROVE  HoldsOn
  <1>0. W!LockProtectsFunds /\ Covered /\ Alone
    BY DEF HoldInv
  <1>1. UNCHANGED <<Holding, Captured, Released>> /\ W!Open' = W!Open
    BY SameHolds
  <1>2. HoldMoves
    <2>1. CASE balance' = balance
      BY <1>1, <2>1 DEF HoldMoves
    <2>2. ASSUME NEW u \in Members \ locked, NEW change \in Int,
                 balance' = [balance EXCEPT ![u] = @ + change],
                 reserved[u] <= balance[u] + change
          PROVE  HoldMoves
      <3>1. Shifts(u, change)
        BY <1>1, <2>2 DEF Shifts
      <3> QED BY <3>1 DEF HoldMoves
    <2> QED BY <2>1, <2>2
  <1>3. Frozen
    BY <1>0, LockedMembers DEF Frozen, Covered
  <1>4. W!LockProtectsFunds'
    BY <1>0, <1>3, FrozenKeeps
  <1>5. Alone'
    BY <1>0, <1>1 DEF Alone
  <1> QED BY <1>2, <1>4, <1>5 DEF HoldsOn

LEMMA TopupHolds ==
    ASSUME HoldInv, TopupStep
    PROVE  HoldsOn
  <1>1. T!Next /\ UNCHANGED <<wstatus, cstatus, request>>
    BY DEF TopupStep, withdrawVars, commerceVars
  <1>2. ASSUME UNCHANGED <<balance, reserved, locked>> PROVE HoldsOn
    BY <1>1, <1>2, ShiftHolds
  <1>3. ASSUME NEW t \in Topups, T!Create(t) \/ T!Write(t) \/ T!CallbackFailed(t)
                                 \/ T!TopupDue(t)
        PROVE  HoldsOn
    <2>1. UNCHANGED <<balance, reserved, locked>>
      BY <1>3 DEF T!Create, T!BeginCreate, T!FinishCreate, T!AbortCreate, T!Write,
                  T!BeginWrite, T!FinishWrite, T!AbandonWrite, T!CallbackFailed,
                  T!TopupDue, T!walletVars
    <2> QED BY <1>2, <2>1
  <1>4. ASSUME NEW t \in Topups, NEW a \in ProviderAmounts, T!CallbackSuccess(t, a)
        PROVE  HoldsOn
    <2>1. /\ balance' = [balance EXCEPT ![Depositor[t]] = @ + a]
          /\ Depositor[t] \notin locked /\ UNCHANGED <<reserved, locked>>
      BY <1>4 DEF T!CallbackSuccess, T!AccountFree
    <2>2. Depositor[t] \in Members /\ a \in Nat
      BY FlowConstants
    <2>3. reserved[Depositor[t]] <= balance[Depositor[t]] + a
      BY <2>2 DEF HoldInv, Covered
    <2>4. \E u \in Members \ locked, change \in Int :
             /\ balance' = [balance EXCEPT ![u] = @ + change]
             /\ reserved[u] <= balance[u] + change
      <3>1. Depositor[t] \in Members \ locked /\ a \in Int
        BY <2>1, <2>2
      <3> QED BY Zenon, <2>1, <2>3, <3>1
    <2> QED BY <1>1, <2>1, <2>4, ShiftHolds
  <1>5. ASSUME T!ExpireStaleTopups PROVE HoldsOn
    BY <1>2, <1>5 DEF T!ExpireStaleTopups, T!walletVars
  <1> QED BY <1>1, <1>3, <1>4, <1>5 DEF T!Next, T!Callback

LEMMA AdminHolds ==
    ASSUME HoldInv, AdminStep
    PROVE  HoldsOn
  <1>1. AdminNext /\ UNCHANGED <<wstatus, cstatus, request>>
    BY DEF AdminStep, withdrawVars, commerceVars
  <1>2. ASSUME UNCHANGED <<balance, reserved, locked>> PROVE HoldsOn
    BY <1>1, <1>2, ShiftHolds
  <1>3. ASSUME NEW c \in Calls, AdjustBalance(c) PROVE HoldsOn
    <2>1. /\ balance' = [balance EXCEPT ![Task[c].on] = @ + Task[c].amount]
          /\ Task[c].on \notin locked /\ UNCHANGED <<reserved, locked>>
          /\ reserved[Task[c].on] <= balance[Task[c].on] + Task[c].amount
          /\ Task[c].op = "adjustBalance"
      BY <1>3 DEF AdjustBalance, AccountFree, ChecksHold
    <2>2. Task[c].on \in Members /\ Task[c].amount \in Int
      BY <2>1, TaskConstants
    <2> QED BY <1>1, <2>1, <2>2, ShiftHolds
  <1>4. ASSUME NEW c \in Calls, Serve(c), ~AdjustBalance(c) PROVE HoldsOn
    <2>1. UNCHANGED <<balance, reserved, locked>>
      BY <1>4 DEF Serve, ProbeKey, ReadMerchant, WritePool, WriteSettlement, WriteLimit,
                  Refuse, accountVars, walletVars
    <2> QED BY <1>2, <2>1
  <1> QED BY <1>1, <1>3, <1>4 DEF AdminNext

-----------------------------------------------------------------------------
LEMMA HoldsKept ==
    ASSUME ExplainInv, HoldInv, [Next]_vars
    PROVE  HoldInv' /\ [H!HoldNext]_(H!holdVars)
  <1>1. Shapes' /\ Fresh'
    BY ExplainKept DEF ExplainInv
  <1>2. HoldsOn
    <2>1. CASE CommerceStep
      <3>1. HoldMoves /\ Frozen /\ W!Open' = W!Open
        BY <2>1, CommerceHolds
      <3>2. W!LockProtectsFunds'
        BY <3>1, FrozenKeeps DEF HoldInv
      <3>3. Alone'
        BY <3>1 DEF HoldInv, Alone
      <3> QED BY <3>1, <3>2, <3>3 DEF HoldsOn
    <2>2. CASE UNCHANGED vars
      <3>1. UNCHANGED <<wstatus, cstatus, request, locked, reserved, balance>>
        BY <2>2 DEF vars, walletVars, withdrawVars, commerceVars
      <3> QED BY <3>1, ShiftHolds
    <2> QED BY <2>1, <2>2, WithdrawHolds, TopupHolds, AdminHolds DEF Next
  <1>3. Covered'
    BY <1>2, CoveredKept DEF HoldInv, HoldsOn
  <1>4. [H!HoldNext]_(H!holdVars)
    BY <1>2, MovesAreHold DEF HoldInv, HoldsOn
  <1> QED BY <1>1, <1>2, <1>3, <1>4 DEF HoldInv, HoldsOn

LEMMA HoldsOpen == Init => HoldInv /\ H!HoldInit
  <1> SUFFICES ASSUME Init PROVE HoldInv /\ H!HoldInit
    OBVIOUS
  <1>1. Shapes /\ Fresh
    BY ExplainOpens DEF ExplainInv
  <1>2. /\ balance = OpeningBalance /\ reserved = [u \in Members |-> 0] /\ locked = {}
        /\ wstatus = [s \in Withdrawals |-> "unused"]
        /\ request = [s \in Withdrawals |-> "idle"]
        /\ cstatus = [c \in Codes |-> "unused"]
    BY DEF Init, WalletInit, AccountsInit, W!WithdrawInit, C!CommerceInit
  <1>3. W!Open = {} /\ C!Active = {}
    BY <1>2 DEF W!Open, C!Active
  <1>4. \A e \in {"success", "failed", "timeout"} : W!Ended(e) = {}
    BY <1>2 DEF W!Ended
  <1>5. C!Ended({"consumed"}) = {} /\ C!Ended({"cancelled", "expired"}) = {}
    BY <1>2 DEF C!Ended
  <1>6. H!HoldInit
    BY <1>2, <1>3, <1>4, <1>5 DEF H!HoldInit
  <1>7. Covered
    <2>1. ASSUME NEW u \in Members PROVE reserved[u] = Held(u) /\ reserved[u] <= balance[u]
      <3>1. Holding = {} /\ {h \in {} : HoldOwner[h] = u} = {}
        BY <1>3 DEF Holding
      <3>2. Held(u) = 0
        BY <3>1, SumEmpty DEF Held, SumFor
      <3> QED BY <1>2, <3>2, FlowConstants
    <2> QED BY <1>1, <1>2, <2>1 DEF Covered, Shapes
  <1>8. Alone /\ W!LockProtectsFunds
    BY <1>2, <1>3 DEF Alone, W!LockProtectsFunds
  <1> QED BY <1>1, <1>6, <1>7, <1>8 DEF HoldInv

\* The withdrawals and the codes of a member are holds on one account, each
\* placed on money no other has set aside, whatever the other flows and the
\* back office do in between: the platform implements the abstract hold.
THEOREM HoldsTogether == Spec => ImplementsHold
  <1>1. Init => ExplainInv /\ HoldInv /\ H!HoldInit
    BY ExplainOpens, HoldsOpen
  <1>2. ExplainInv /\ HoldInv /\ [Next]_vars
           => ExplainInv' /\ HoldInv' /\ [H!HoldNext]_(H!holdVars)
    BY ExplainKept, HoldsKept
  <1> QED BY <1>1, <1>2, PTL DEF Spec, ImplementsHold, H!HoldSpec

\* What an account has reserved is the amount of its open withdrawal and of its
\* active codes, and is there; a member has one open withdrawal; and what a
\* request found available stays so while it has the lock, although the other
\* flows and the back office write the same account (withdraw.service,
\* payment-code.service).
THEOREM ReservedIsThere == Spec => [](Covered /\ Alone /\ W!LockProtectsFunds)
  <1>1. Init => ExplainInv /\ HoldInv
    BY ExplainOpens, HoldsOpen
  <1>2. ExplainInv /\ HoldInv /\ [Next]_vars => ExplainInv' /\ HoldInv'
    BY ExplainKept, HoldsKept
  <1>3. HoldInv => Covered /\ Alone /\ W!LockProtectsFunds
    BY DEF HoldInv
  <1> QED BY <1>1, <1>2, <1>3, PTL DEF Spec

\* A withdrawal or a code that holds money gives it back or pays it, in one
\* step, and what was paid or given back stays so.
HoldsEnd ==
    /\ Captured \subseteq Captured' /\ Released \subseteq Released'
    /\ Holding \subseteq Holding' \cup Captured' \cup Released'

\* A step of the abstract hold ends holds so.
LEMMA HoldsEndSo ==
    ASSUME [H!HoldNext]_(H!holdVars)
    PROVE  HoldsEnd
  <1>1. CASE UNCHANGED H!holdVars
    BY <1>1 DEF H!holdVars, HoldsEnd, Holding, Captured, Released
  <1>2. ASSUME NEW h \in Withdrawals \cup Codes, H!Place(h) \/ H!Capture(h)
        PROVE  HoldsEnd
    BY <1>2 DEF H!Place, H!Capture, HoldsEnd, Holding, Captured, Released
  <1>3. ASSUME NEW S \in SUBSET (Withdrawals \cup Codes), H!Release(S) PROVE HoldsEnd
    BY <1>3 DEF H!Release, HoldsEnd, Holding, Captured, Released
  <1>4. ASSUME NEW u \in Members, H!Move(u) PROVE HoldsEnd
    BY <1>4 DEF H!Move, HoldsEnd, Holding, Captured, Released
  <1> QED BY <1>1, <1>2, <1>3, <1>4 DEF H!HoldNext

\* Neither flow loses a hold or ends it twice, whatever the others and the back
\* office do to the account in between.
THEOREM HoldsEndOnce == Spec => [][HoldsEnd]_vars
  <1>1. Init => ExplainInv /\ HoldInv
    BY ExplainOpens, HoldsOpen
  <1>2. ExplainInv /\ HoldInv /\ [Next]_vars => ExplainInv' /\ HoldInv'
    BY ExplainKept, HoldsKept
  <1>3. ExplainInv /\ HoldInv /\ [Next]_vars => [HoldsEnd]_vars
    BY HoldsKept, HoldsEndSo
  <1> QED BY <1>1, <1>2, <1>3, PTL DEF Spec
=============================================================================
