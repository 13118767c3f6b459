--------------------------- MODULE ServicesProofs ---------------------------
(***************************************************************************)
(* The theorems of what runs beside the money flows.  Of a process of the   *)
(* API, for any number of requests, processes, mails and transactions, any  *)
(* crashes and failed records: what the slots of merchant idempotency       *)
(* promise although claim, handler and answer are separate transactions;    *)
(* how often a mail can go out; what an exhausted pool of connections is.   *)
(* Of sign-in and sessions, for any number of tokens, tabs, calls, logins   *)
(* under way, losses and retries: what a sweep found is dead after it, a    *)
(* login leaves one token that can be rotated, no tab that refreshes is     *)
(* signed out for nothing; how far the stale reads of sign-in can be taken. *)
(* Last, Services implements each of its parts, those of PayoutsProofs too, *)
(* so that what is proved of a part alone holds of it among the others.     *)
(***************************************************************************)
EXTENDS Services, PayoutsProofs

USE MerchantApiAssumption

\* A request between its claim and its answer owns the row of its reference.
ClaimsHeld ==
    \A r \in Claimed :
        /\ slot[RefOf[r]] \in Rows
        /\ slot[RefOf[r]].kind = "pending" /\ slot[RefOf[r]].from = r
        /\ slot[RefOf[r]].due = FALSE

\* A row past its time is one of a lapsed reference.
DueLapsed == \A k \in MerchantRefs : slot[k] \in Rows /\ slot[k].due => k \in lapsed

\* A handler that has committed is over, and its request has an answer of its own.
RunsAnswered ==
    \A r \in executed :
        /\ step[r] \in {"responding", "sent", "dead"}
        /\ reply[r] \in Answers
        /\ reply[r].kind \in {"ok", "error"} /\ reply[r].from = r

\* As long as its row lives, a run that was not answered 5xx keeps
\* the reference.
RunsKeepSlot ==
    \A r \in executed :
        ~ Failed(r) /\ RefOf[r] \notin lapsed =>
            slot[RefOf[r]] \in Rows /\ slot[RefOf[r]].from = r

\* A stored "done" and a "done" that is told are those of a run that committed
\* for the same reference and body.
Vouched(a, k, b) ==
    /\ a.from \in executed
    /\ RefOf[a.from] = k /\ PayloadOf[a.from] = b
    /\ reply[a.from].kind = "ok"

StoredTrue ==
    \A k \in MerchantRefs :
        slot[k] \in Rows /\ slot[k].kind = "ok" => Vouched(slot[k], k, slot[k].payload)
ToldTrue ==
    \A r \in Requests :
        reply[r] \in Answers /\ reply[r].kind = "ok" =>
            Vouched(reply[r], RefOf[r], PayloadOf[r])

\* A request that is about to send has something to send.
Answered ==
    \A r \in Requests : step[r] \in {"responding", "replying"} => reply[r] \in Answers

SlotInv == MerchantTypeOK /\ ClaimsHeld /\ DueLapsed /\ RunsAnswered /\ RunsKeepSlot
MerchantInv == SlotInv /\ Answered /\ StoredTrue /\ ToldTrue

-----------------------------------------------------------------------------
\* No row is not a row.
LEMMA NoRowIsNone == NoRow \notin Rows
  <1>1. \A x \in Rows : x.kind # "absent"
    BY DEF Rows, Kinds
  <1>2. NoRow.kind = "absent"
    BY DEF NoRow
  <1> QED BY <1>1, <1>2

\* No answer is not an answer.
LEMMA NoReplyIsNone == NoReply \notin Answers
  <1>1. \A x \in Answers : x.kind # "none"
    BY DEF Answers, Kinds
  <1>2. NoReply.kind = "none"
    BY DEF NoReply
  <1> QED BY <1>1, <1>2

\* The row an answer is stored as.
LEMMA StoredRow ==
    ASSUME NEW r \in Requests, NEW a \in Answers
    PROVE  /\ Row(r, a) \in Rows /\ Row(r, a).kind = a.kind
           /\ Row(r, a).from = a.from
           /\ Row(r, a).payload = PayloadOf[r] /\ Row(r, a).due = FALSE
  BY DEF Row, Rows, Answers

\* What a loser makes of the row it reads is an answer; it is "done" only for
\* a row that says so of the same body.
LEMMA ReadAnswer ==
    ASSUME NEW r \in Requests, NEW row \in Rows \cup {NoRow}
    PROVE  /\ FromRow(r, row) \in Answers
           /\ FromRow(r, row).kind = "ok" =>
                 /\ row \in Rows /\ row.kind = "ok" /\ row.payload = PayloadOf[r]
                 /\ FromRow(r, row).from = row.from
  <1>1. CASE row.kind \in {"absent", "pending"}
    BY <1>1 DEF FromRow, Answers, Kinds
  <1>2. CASE row.kind \notin {"absent", "pending"}
    <2>1. row \in Rows /\ row.kind \in Kinds
      BY <1>2 DEF NoRow, Rows
    <2>2. CASE row.payload # PayloadOf[r]
      BY <1>2, <2>1, <2>2 DEF FromRow, Answers, Kinds
    <2>3. CASE row.payload = PayloadOf[r]
      <3>1. FromRow(r, row) = [kind |-> row.kind, from |-> row.from]
        BY <1>2, <2>1, <2>3 DEF FromRow
      <3> QED BY <3>1, <2>1, <2>3 DEF Answers, Rows
    <2> QED BY <2>2, <2>3
  <1> QED BY <1>1, <1>2

-----------------------------------------------------------------------------
\* Whoever has claimed a reference and whoever still keeps it by a run that
\* was not answered 5xx are the same request.
LEMMA ClaimIsRun ==
    ASSUME SlotInv, NEW r \in Claimed, NEW q \in executed,
           RefOf[q] = RefOf[r], ~ Failed(q), RefOf[q] \notin lapsed
    PROVE  q = r
  BY DEF SlotInv, ClaimsHeld, RunsKeepSlot, MerchantTypeOK

\* Claiming a free slot.
LEMMA ClaimKeepsInv ==
    ASSUME MerchantInv, NEW r \in Requests, Claim(r)
    PROVE  MerchantInv'
  <1> DEFINE k == RefOf[r]
             row == Row(r, [kind |-> "pending", from |-> r])
  <1>1. /\ row \in Rows /\ row.kind = "pending" /\ row.from = r
        /\ row.due = FALSE
    BY DEF Row, Rows
  <1> HIDE DEF row
  <1>2. k \in MerchantRefs
    OBVIOUS
  <1>3. /\ step[r] = "new" /\ slot[k] = NoRow /\ slot[k] \notin Rows
        /\ slot' = [slot EXCEPT ![k] = row]
        /\ step' = [step EXCEPT ![r] = "running"]
        /\ reply' = reply /\ executed' = executed /\ lapsed' = lapsed
    BY NoRowIsNone DEF Claim, SlotFree, row
  <1> HIDE DEF k
  <1>4. MerchantTypeOK'
    BY <1>1, <1>2, <1>3 DEF MerchantInv, SlotInv, MerchantTypeOK
  <1>5. ClaimsHeld'
    <2> SUFFICES ASSUME NEW q \in Claimed'
                 PROVE  /\ slot'[RefOf[q]] \in Rows
                        /\ slot'[RefOf[q]].kind = "pending" /\ slot'[RefOf[q]].from = q
                        /\ slot'[RefOf[q]].due = FALSE
      BY DEF ClaimsHeld
    <2>1. CASE q = r
      BY <2>1, <1>1, <1>2, <1>3 DEF MerchantInv, SlotInv, MerchantTypeOK, k
    <2>2. CASE q # r
      <3>1. q \in Claimed
        BY <2>2, <1>3 DEF Claimed, MerchantInv, SlotInv, MerchantTypeOK
      <3>2. slot[RefOf[q]] \in Rows
        BY <3>1 DEF MerchantInv, SlotInv, ClaimsHeld
      <3>3. RefOf[q] # k
        BY <3>2, <1>3
      <3> QED BY <3>1, <3>3, <1>3 DEF MerchantInv, SlotInv, ClaimsHeld, MerchantTypeOK, Claimed
    <2> QED BY <2>1, <2>2
  <1>6. DueLapsed'
    BY <1>1, <1>2, <1>3 DEF MerchantInv, SlotInv, MerchantTypeOK, DueLapsed
  <1>7. RunsAnswered'
    BY <1>3 DEF MerchantInv, SlotInv, MerchantTypeOK, RunsAnswered
  <1>8. RunsKeepSlot'
    BY <1>1, <1>2, <1>3 DEF MerchantInv, SlotInv, MerchantTypeOK, RunsKeepSlot, Failed
  <1>9. StoredTrue' /\ ToldTrue'
    BY <1>1, <1>2, <1>3
       DEF MerchantInv, SlotInv, MerchantTypeOK, StoredTrue, ToldTrue, Vouched
  <1>10. Answered'
    BY <1>3 DEF MerchantInv, SlotInv, MerchantTypeOK, Answered
  <1> QED BY <1>4, <1>5, <1>6, <1>7, <1>8, <1>9, <1>10 DEF MerchantInv, SlotInv

\* Losing a claim, and reading the row that won.
LEMMA LoserKeepsInv ==
    ASSUME MerchantInv, NEW r \in Requests, Collide(r) \/ ReadSlot(r)
    PROVE  MerchantInv'
  <1> DEFINE told == FromRow(r, slot[RefOf[r]])
  <1>1. slot[RefOf[r]] \in Rows \cup {NoRow}
    BY DEF MerchantInv, SlotInv, MerchantTypeOK
  <1>2. /\ told \in Answers
        /\ told.kind = "ok" =>
              /\ slot[RefOf[r]] \in Rows /\ slot[RefOf[r]].kind = "ok"
              /\ slot[RefOf[r]].payload = PayloadOf[r]
              /\ told.from = slot[RefOf[r]].from
    BY <1>1, ReadAnswer
  <1> HIDE DEF told
  <1>3. /\ slot' = slot /\ executed' = executed /\ lapsed' = lapsed
        /\ r \notin executed
        /\ Claimed' = Claimed
        /\ \A q \in executed : step'[q] = step[q] /\ reply'[q] = reply[q]
        /\ reply' = reply \/ reply' = [reply EXCEPT ![r] = told]
    BY DEF Collide, ReadSlot, Claimed, MerchantInv, SlotInv, MerchantTypeOK, RunsAnswered, told
  <1>4. MerchantTypeOK'
    BY <1>2, <1>3 DEF Collide, ReadSlot, MerchantInv, SlotInv, MerchantTypeOK
  <1>5. ClaimsHeld' /\ DueLapsed'
    BY <1>3 DEF MerchantInv, SlotInv, ClaimsHeld, DueLapsed
  <1>6. RunsAnswered' /\ RunsKeepSlot'
    BY <1>3 DEF MerchantInv, SlotInv, RunsAnswered, RunsKeepSlot, Failed
  <1>7. StoredTrue'
    BY <1>3 DEF MerchantInv, StoredTrue, Vouched
  <1>8. ToldTrue'
    <2>1. CASE reply' = reply
      BY <1>3, <2>1 DEF MerchantInv, ToldTrue, Vouched
    <2>2. CASE reply' = [reply EXCEPT ![r] = told]
      <3>1. told.kind = "ok" => Vouched(told, RefOf[r], PayloadOf[r])
        BY <1>2 DEF MerchantInv, StoredTrue, Vouched
      <3> QED BY <1>3, <2>2, <3>1
              DEF MerchantInv, SlotInv, MerchantTypeOK, ToldTrue, Vouched
    <2> QED BY <1>3, <2>1, <2>2
  <1>9. Answered'
    BY <1>2 DEF Collide, ReadSlot, MerchantInv, SlotInv, MerchantTypeOK, Answered, told
  <1> QED BY <1>4, <1>5, <1>6, <1>7, <1>8, <1>9 DEF MerchantInv, SlotInv

\* The handler commits or throws.
LEMMA HandlerKeepsInv ==
    ASSUME MerchantInv, NEW r \in Requests, NEW kind \in {"ok", "refused", "error"},
           HandlerCommits(r, kind) \/ HandlerThrows(r, kind)
    PROVE  MerchantInv'
  <1> DEFINE answer == [kind |-> kind, from |-> r]
  <1>1. answer \in Answers /\ answer.kind = kind /\ answer.from = r
    BY DEF Answers, Kinds
  <1>2. /\ slot' = slot /\ lapsed' = lapsed
        /\ step[r] = "running" /\ r \notin executed
        /\ step' = [step EXCEPT ![r] = "responding"]
        /\ reply' = [reply EXCEPT ![r] = answer]
        /\ \/ executed' = executed \cup {r} /\ kind \in {"ok", "error"}
           \/ executed' = executed /\ kind # "ok"
        /\ Claimed' = Claimed
    BY DEF HandlerCommits, HandlerThrows, MerchantInv, SlotInv, RunsAnswered,
           MerchantTypeOK, Claimed
  <1> HIDE DEF answer
  <1>3. r \in Claimed
    BY <1>2 DEF Claimed
  <1>4. MerchantTypeOK'
    BY <1>1, <1>2 DEF MerchantInv, SlotInv, MerchantTypeOK
  <1>5. ClaimsHeld' /\ DueLapsed'
    BY <1>2 DEF MerchantInv, SlotInv, ClaimsHeld, DueLapsed
  <1>6. RunsAnswered'
    BY <1>1, <1>2 DEF MerchantInv, SlotInv, MerchantTypeOK, RunsAnswered
  <1>7. RunsKeepSlot'
    BY <1>1, <1>2, <1>3
       DEF MerchantInv, SlotInv, MerchantTypeOK, RunsKeepSlot, Failed, ClaimsHeld
  <1>8. StoredTrue'
    BY <1>1, <1>2 DEF MerchantInv, SlotInv, MerchantTypeOK, StoredTrue, Vouched
  <1>9. ToldTrue'
    BY <1>1, <1>2 DEF MerchantInv, SlotInv, MerchantTypeOK, ToldTrue, Vouched
  <1>10. Answered'
    BY <1>1, <1>2 DEF MerchantInv, SlotInv, MerchantTypeOK, Answered
  <1> QED BY <1>4, <1>5, <1>6, <1>7, <1>8, <1>9, <1>10 DEF MerchantInv, SlotInv

\* The owner of the claim stores its answer, or deletes its placeholder.
LEMMA RespondKeepsInv ==
    ASSUME MerchantInv, NEW r \in Requests, Respond(r)
    PROVE  MerchantInv'
  <1> DEFINE k == RefOf[r]
             row == Row(r, reply[r])
  <1>0. reply[r] \in Answers
    BY DEF Respond, MerchantInv, Answered
  <1>1. /\ row \in Rows /\ row.kind = reply[r].kind /\ row.from = reply[r].from
        /\ row.payload = PayloadOf[r] /\ row.due = FALSE
    BY <1>0, StoredRow
  <1> HIDE DEF row
  <1>2. r \in Claimed /\ k \in MerchantRefs
    BY DEF Respond, Claimed
  <1>3. /\ slot[k] \in Rows /\ slot[k].from = r /\ slot[k] # NoRow
        /\ slot[k].due = FALSE
    BY <1>2, NoRowIsNone DEF MerchantInv, SlotInv, ClaimsHeld
  <1>4. /\ slot' = [slot EXCEPT ![k] =
                       IF reply[r].kind = "error" THEN NoRow ELSE row]
        /\ step[r] = "responding"
        /\ step' = [step EXCEPT ![r] = "sent"]
        /\ reply' = reply /\ executed' = executed /\ lapsed' = lapsed
    BY <1>3 DEF Respond, Finalised, MerchantInv, SlotInv, MerchantTypeOK, row
  <1> HIDE DEF k
  <1>5. MerchantTypeOK'
    BY <1>1, <1>2, <1>4 DEF MerchantInv, SlotInv, MerchantTypeOK
  <1>6. ClaimsHeld'
    <2> SUFFICES ASSUME NEW q \in Claimed'
                 PROVE  /\ slot'[RefOf[q]] \in Rows
                        /\ slot'[RefOf[q]].kind = "pending" /\ slot'[RefOf[q]].from = q
                        /\ slot'[RefOf[q]].due = FALSE
      BY DEF ClaimsHeld
    <2>1. q \in Claimed /\ q # r
      BY <1>4 DEF Claimed, MerchantInv, SlotInv, MerchantTypeOK
    <2>2. RefOf[q] # k
      BY <2>1, <1>3 DEF MerchantInv, SlotInv, ClaimsHeld
    <2> QED BY <2>1, <2>2, <1>4
            DEF MerchantInv, SlotInv, ClaimsHeld, MerchantTypeOK, Claimed
  <1>7. DueLapsed'
    BY <1>1, <1>2, <1>4, NoRowIsNone DEF MerchantInv, SlotInv, MerchantTypeOK, DueLapsed
  <1>8. RunsAnswered'
    BY <1>4 DEF MerchantInv, SlotInv, MerchantTypeOK, RunsAnswered
  <1>9. RunsKeepSlot'
    <2> SUFFICES ASSUME NEW q \in executed, ~ Failed(q), RefOf[q] \notin lapsed
                 PROVE  slot'[RefOf[q]] \in Rows /\ slot'[RefOf[q]].from = q
      BY <1>4 DEF RunsKeepSlot, Failed
    <2>0. q \in Requests /\ slot[RefOf[q]] \in Rows /\ slot[RefOf[q]].from = q
      BY DEF MerchantInv, SlotInv, MerchantTypeOK, RunsKeepSlot
    <2>1. CASE RefOf[q] = k
      <3>1. q = r
        BY <2>0, <2>1, <1>3
      <3> QED BY <3>1, <2>1, <1>1, <1>2, <1>4
              DEF Failed, MerchantInv, SlotInv, RunsAnswered, MerchantTypeOK
    <2>2. CASE RefOf[q] # k
      BY <2>0, <2>2, <1>4 DEF MerchantInv, SlotInv, MerchantTypeOK
    <2> QED BY <2>1, <2>2
  <1>10. StoredTrue'
    <2>1. reply[r].kind = "ok" => Vouched(reply[r], RefOf[r], PayloadOf[r])
      BY <1>0 DEF MerchantInv, ToldTrue
    <2> QED BY <2>1, <1>1, <1>2, <1>4, NoRowIsNone
            DEF MerchantInv, SlotInv, MerchantTypeOK, StoredTrue, Vouched, k
  <1>11. ToldTrue'
    BY <1>4 DEF MerchantInv, ToldTrue, Vouched
  <1>12. Answered'
    BY <1>4 DEF MerchantInv, SlotInv, MerchantTypeOK, Answered
  <1> QED BY <1>5, <1>6, <1>7, <1>8, <1>9, <1>10, <1>11, <1>12 DEF MerchantInv, SlotInv

\* A loser sends its answer, and leaves a row only where none is.
LEMMA ReplyKeepsInv ==
    ASSUME MerchantInv, NEW r \in Requests, ReplyFromSlot(r)
    PROVE  MerchantInv'
  <1> DEFINE k == RefOf[r]
             row == Row(r, reply[r])
  <1>0. reply[r] \in Answers
    BY DEF ReplyFromSlot, MerchantInv, Answered
  <1>1. /\ row \in Rows /\ row.kind = reply[r].kind /\ row.from = reply[r].from
        /\ row.payload = PayloadOf[r] /\ row.due = FALSE
    BY <1>0, StoredRow
  <1> HIDE DEF row
  <1>2. k \in MerchantRefs
    OBVIOUS
  <1>3. /\ \/ slot' = slot
           \/ /\ slot[k] \notin Rows /\ row.kind # "ok"
              /\ slot' = [slot EXCEPT ![k] = row]
        /\ step[r] = "replying" /\ step' = [step EXCEPT ![r] = "sent"]
        /\ reply' = reply /\ executed' = executed /\ lapsed' = lapsed
        /\ Claimed' = Claimed
    BY <1>1, NoRowIsNone DEF ReplyFromSlot, ClientErrors, MerchantInv, SlotInv,
                             MerchantTypeOK, Claimed, row
  <1> HIDE DEF k
  <1>4. MerchantTypeOK'
    BY <1>1, <1>2, <1>3 DEF MerchantInv, SlotInv, MerchantTypeOK
  <1>5. ClaimsHeld'
    BY <1>2, <1>3 DEF MerchantInv, SlotInv, MerchantTypeOK, ClaimsHeld, Claimed
  <1>6. DueLapsed' /\ RunsKeepSlot'
    BY <1>1, <1>2, <1>3
       DEF MerchantInv, SlotInv, MerchantTypeOK, DueLapsed, RunsKeepSlot, Failed
  <1>7. RunsAnswered' /\ ToldTrue' /\ Answered'
    BY <1>3 DEF MerchantInv, SlotInv, MerchantTypeOK, RunsAnswered, ToldTrue,
                Vouched, Answered
  <1>8. StoredTrue'
    BY <1>1, <1>2, <1>3
       DEF MerchantInv, SlotInv, MerchantTypeOK, StoredTrue, Vouched
  <1> QED BY <1>4, <1>5, <1>6, <1>7, <1>8 DEF MerchantInv, SlotInv

\* An answer that is not persisted, and the death of the process.
LEMMA FaultKeepsInv ==
    ASSUME MerchantInv, NEW r \in Requests, PersistFails(r) \/ Die(r)
    PROVE  MerchantInv'
  <1>1. /\ slot' = slot /\ reply' = reply /\ executed' = executed /\ lapsed' = lapsed
        /\ step' = [step EXCEPT ![r] = "sent"] \/ step' = [step EXCEPT ![r] = "dead"]
    BY DEF PersistFails, Die
  <1>2. Claimed' \subseteq Claimed
    BY <1>1 DEF MerchantInv, SlotInv, MerchantTypeOK, Claimed
  <1>3. MerchantTypeOK' /\ ClaimsHeld' /\ DueLapsed'
    BY <1>1, <1>2 DEF MerchantInv, SlotInv, MerchantTypeOK, ClaimsHeld, DueLapsed
  <1>4. RunsAnswered' /\ RunsKeepSlot'
    BY <1>1 DEF MerchantInv, SlotInv, MerchantTypeOK, RunsAnswered, RunsKeepSlot, Failed
  <1>5. Answered' /\ StoredTrue' /\ ToldTrue'
    BY <1>1 DEF MerchantInv, SlotInv, MerchantTypeOK, Answered, StoredTrue,
                ToldTrue, Vouched
  <1> QED BY <1>3, <1>4, <1>5 DEF MerchantInv, SlotInv

\* Time passes for a row nobody is working on.
LEMMA LapseKeepsInv ==
    ASSUME MerchantInv, NEW k \in MerchantRefs, Lapse(k)
    PROVE  MerchantInv'
  <1>1. /\ slot[k] \in Rows
        /\ slot' = [slot EXCEPT ![k] = [slot[k] EXCEPT !.due = TRUE]]
        /\ lapsed' = lapsed \cup {k}
        /\ step' = step /\ reply' = reply /\ executed' = executed
    BY DEF Lapse, MerchantInv, SlotInv, MerchantTypeOK
  <1>2. /\ slot'[k] \in Rows /\ slot'[k].kind = slot[k].kind
        /\ slot'[k].from = slot[k].from /\ slot'[k].payload = slot[k].payload
    BY <1>1 DEF Rows, MerchantInv, SlotInv, MerchantTypeOK
  <1>3. \A j \in MerchantRefs : j # k => slot'[j] = slot[j]
    BY <1>1 DEF MerchantInv, SlotInv, MerchantTypeOK
  <1>4. MerchantTypeOK'
    <2>1. slot' \in [MerchantRefs -> Rows \cup {NoRow}]
      BY <1>1, <1>2, <1>3 DEF MerchantInv, SlotInv, MerchantTypeOK
    <2> QED BY <2>1, <1>1 DEF MerchantInv, SlotInv, MerchantTypeOK
  <1>5. ClaimsHeld'
    <2>1. \A r \in Claimed : RefOf[r] # k
      BY DEF Lapse, Live, Claimed
    <2> QED BY <2>1, <1>1, <1>3 DEF MerchantInv, SlotInv, ClaimsHeld, Claimed
  <1>6. DueLapsed' /\ StoredTrue'
    BY <1>1, <1>2, <1>3 DEF MerchantInv, SlotInv, DueLapsed, StoredTrue, Vouched
  <1>7. RunsAnswered' /\ Answered' /\ ToldTrue'
    BY <1>1 DEF MerchantInv, SlotInv, RunsAnswered, Answered, ToldTrue, Vouched
  <1>8. RunsKeepSlot'
    BY <1>1, <1>3 DEF MerchantInv, SlotInv, MerchantTypeOK, RunsKeepSlot, Failed
  <1> QED BY <1>4, <1>5, <1>6, <1>7, <1>8 DEF MerchantInv, SlotInv

\* The purge takes rows past their time, none of which a request has claimed.
LEMMA PurgeKeepsInv ==
    ASSUME MerchantInv, PurgeSlots
    PROVE  MerchantInv'
  <1>1. /\ step' = step /\ reply' = reply /\ executed' = executed /\ lapsed' = lapsed
        /\ slot' \in [MerchantRefs -> Rows \cup {NoRow}]
    BY DEF PurgeSlots, MerchantInv, SlotInv, MerchantTypeOK
  <1>2. ASSUME NEW k \in MerchantRefs
        PROVE  \/ slot'[k] = slot[k]
               \/ slot'[k] \notin Rows /\ slot[k] \in Rows /\ slot[k].due
    BY NoRowIsNone DEF PurgeSlots, Purgeable, MerchantInv, SlotInv, MerchantTypeOK
  <1>3. MerchantTypeOK'
    BY <1>1 DEF MerchantInv, SlotInv, MerchantTypeOK
  <1>4. ClaimsHeld'
    BY <1>1, <1>2 DEF MerchantInv, SlotInv, ClaimsHeld, Claimed
  <1>5. DueLapsed' /\ StoredTrue'
    BY <1>1, <1>2 DEF MerchantInv, SlotInv, DueLapsed, StoredTrue, Vouched
  <1>6. RunsAnswered' /\ Answered' /\ ToldTrue'
    BY <1>1 DEF MerchantInv, SlotInv, RunsAnswered, Answered, ToldTrue, Vouched
  <1>7. RunsKeepSlot'
    BY <1>1, <1>2 DEF MerchantInv, SlotInv, MerchantTypeOK, DueLapsed, RunsKeepSlot, Failed
  <1> QED BY <1>3, <1>4, <1>5, <1>6, <1>7 DEF MerchantInv, SlotInv

-----------------------------------------------------------------------------
\* Nothing is stored, told or claimed at the start.
LEMMA InitMerchantInv == MerchantInit => MerchantInv
  <1> SUFFICES ASSUME MerchantInit PROVE MerchantInv
    OBVIOUS
  <1>1. MerchantTypeOK
    BY DEF MerchantInit, MerchantTypeOK
  <1>2. \A k \in MerchantRefs : slot[k] \notin Rows
    BY NoRowIsNone DEF MerchantInit
  <1>3. \A r \in Requests : reply[r] \notin Answers /\ step[r] = "new"
    BY NoReplyIsNone DEF MerchantInit
  <1>4. executed = {}
    BY DEF MerchantInit
  <1> QED BY <1>1, <1>2, <1>3, <1>4
          DEF MerchantInv, SlotInv, ClaimsHeld, DueLapsed, RunsAnswered,
              RunsKeepSlot, Answered, StoredTrue, ToldTrue, Claimed

\* Every step keeps the invariant.
LEMMA NextMerchantInv == MerchantInv /\ [MerchantNext]_merchantVars => MerchantInv'
  <1> SUFFICES ASSUME MerchantInv, [MerchantNext]_merchantVars
               PROVE  MerchantInv'
    OBVIOUS
  <1>1. ASSUME NEW r \in Requests, Serve(r) PROVE MerchantInv'
    BY <1>1, ClaimKeepsInv, LoserKeepsInv, HandlerKeepsInv, RespondKeepsInv,
       ReplyKeepsInv DEF Serve
  <1>2. ASSUME NEW r \in Requests, PersistFails(r) \/ Die(r) PROVE MerchantInv'
    BY <1>2, FaultKeepsInv
  <1>3. ASSUME NEW k \in MerchantRefs, Lapse(k) PROVE MerchantInv'
    BY <1>3, LapseKeepsInv
  <1>4. CASE PurgeSlots
    BY <1>4, PurgeKeepsInv
  <1>5. CASE UNCHANGED merchantVars
    BY <1>5 DEF merchantVars, MerchantInv, SlotInv, MerchantTypeOK, ClaimsHeld,
                DueLapsed, RunsAnswered, RunsKeepSlot, Answered, StoredTrue,
                ToldTrue, Vouched, Claimed, Failed
  <1> QED BY <1>1, <1>2, <1>3, <1>4, <1>5 DEF MerchantNext

\* The invariant holds throughout.
LEMMA MerchantInvHolds == MerchantSpec => []MerchantInv
  BY InitMerchantInv, NextMerchantInv, PTL DEF MerchantSpec

\* A reference moves money twice only where the middleware gave it up.
THEOREM RepeatsAreExplained == MerchantSpec => []RepeatsExplained
  <1>1. MerchantInv => RepeatsExplained
    BY DEF MerchantInv, SlotInv, RunsKeepSlot, RepeatsExplained
  <1> QED BY <1>1, MerchantInvHolds, PTL

\* Every "done" is true, and all of a reference tell of one run.
THEOREM AnswersTellOneRun == MerchantSpec => []AnswersAgree
  <1>1. MerchantInv => AnswersAgree
    <2> SUFFICES ASSUME MerchantInv, NEW r \in Requests, reply[r].kind = "ok"
                 PROVE  /\ reply[r].from \in executed
                        /\ PayloadOf[reply[r].from] = PayloadOf[r]
                        /\ \A q \in Requests :
                              reply[q].kind = "ok" /\ RefOf[q] = RefOf[r] =>
                                  reply[q].from = reply[r].from \/ RefOf[r] \in lapsed
      BY DEF AnswersAgree
    <2>1. \A q \in Requests :
             reply[q].kind = "ok" => Vouched(reply[q], RefOf[q], PayloadOf[q])
      BY DEF MerchantInv, SlotInv, MerchantTypeOK, ToldTrue, NoReply
    <2>2. \A f, g \in executed :
             /\ reply[f].kind = "ok" /\ reply[g].kind = "ok" /\ RefOf[f] = RefOf[g]
             => f = g \/ RefOf[f] \in lapsed
      BY DEF MerchantInv, SlotInv, RunsKeepSlot, Failed
    <2> QED BY <2>1, <2>2 DEF Vouched
  <1> QED BY <1>1, MerchantInvHolds, PTL

HIDE MerchantApiAssumption

-----------------------------------------------------------------------------
\* The outbox and its dispatcher.
USE WorkersAssumption

WorkersTypeOK ==
    /\ openRow \in Slots \cup {NoSlot} /\ overdue \in BOOLEAN
    /\ at \in [Slots -> {"idle", "reclaim", "claim", "loop"}]
    /\ batch \in [Slots -> SUBSET Mails]
    /\ sending \in [Slots -> Mails \cup {NoMail}]
    /\ accepted \in [Slots -> BOOLEAN]
    /\ mail \in [Mails -> {"pending", "sending"} \cup Terminal]
    /\ delivered \in [Mails -> Nat]
    /\ unmarked \in [Mails -> Nat]
    /\ overruns \in Nat

\* A run has rows of the outbox in hand only in its loop, and sends one of them.
InHand ==
    \A x \in Slots :
        /\ at[x] # "loop" => batch[x] = {} /\ sending[x] = NoMail
        /\ sending[x] # NoMail => sending[x] \in batch[x]

\* The open row is that of the run in slot x, and within its thirty minutes.
InTime(x) == openRow = x /\ ~ overdue

\* Run x may yet send m: it has m in hand and has not been told that it was
\* taken, or it has outlived its time and is still to claim what is due.
MaySend(x, m) ==
    \/ m \in batch[x] /\ ~ Unrecorded(x, m)
    \/ at[x] \in {"reclaim", "claim"} /\ ~ InTime(x)
Senders(m) == {x \in Slots : MaySend(x, m)}

\* The row may be claimed by a run to come: the run in time has it not in hand.
Covered(m) == openRow \in Slots /\ ~ overdue /\ m \in batch[openRow]
ToClaim(m) == mail[m] \in {"pending", "sending"} /\ ~ Covered(m)

\* Each of these is a delivery that may still come.
Count(cond) == IF cond THEN 1 ELSE 0
ToCome(m) ==
    delivered[m] + Cardinality(Senders(m)) + Count(ToClaim(m))
        <= 1 + unmarked[m] + overruns

WorkInv == WorkersTypeOK /\ InHand /\ \A m \in Mails : ToCome(m)

-----------------------------------------------------------------------------
\* A set of runs with one of them counted apart.
LEMMA CountApart ==
    ASSUME NEW S \in SUBSET Slots, NEW x \in Slots
    PROVE  /\ Cardinality(S \ {x}) \in Nat
           /\ Cardinality(S) = Cardinality(S \ {x}) + Count(x \in S)
  <1>1. IsFiniteSet(S) /\ IsFiniteSet(S \ {x})
    BY FS_Subset
  <1>2. Cardinality(S) \in Nat /\ Cardinality(S \ {x}) \in Nat
    BY <1>1, FS_CardinalityType
  <1>3. CASE x \in S
    <2>1. Cardinality(S \ {x}) = Cardinality(S) - 1
      BY <1>1, <1>3, FS_RemoveElement
    <2> QED BY <1>2, <1>3, <2>1 DEF Count
  <1>4. CASE x \notin S
    <2>1. S \ {x} = S
      BY <1>4
    <2> QED BY <1>2, <1>4, <2>1 DEF Count
  <1> QED BY <1>3, <1>4

\* A step of one run keeps the invariant if what it brings nearer for a row it
\* takes from what may still come, or it is one of the faults that are counted.
Others(x) ==
    \A y \in Slots \ {x} :
        /\ at'[y] = at[y] /\ batch'[y] = batch[y]
        /\ sending'[y] = sending[y] /\ accepted'[y] = accepted[y]
        /\ InTime(y)' <=> InTime(y)
Risk(x, m) == Count(MaySend(x, m)) + Count(ToClaim(m))
NoNearer(x, m) ==
    delivered'[m] + Risk(x, m)' + unmarked[m] + overruns
        <= delivered[m] + Risk(x, m) + unmarked'[m] + overruns'

LEMMA StepKeeps ==
    ASSUME WorkInv, NEW x \in Slots, WorkersTypeOK', InHand', Others(x),
           \A m \in Mails : NoNearer(x, m)
    PROVE  WorkInv'
  <1> SUFFICES ASSUME NEW m \in Mails PROVE ToCome(m)'
    BY DEF WorkInv
  <1> DEFINE S == Senders(m)
             T == Senders(m)'
  <1>1. S \subseteq Slots /\ T \subseteq Slots
    BY DEF Senders
  <1>2. \A y \in Slots \ {x} : MaySend(y, m)' <=> MaySend(y, m)
    BY DEF Others, MaySend, Unrecorded
  <1>3. T \ {x} = S \ {x}
    BY <1>2 DEF Senders
  <1>4. /\ (x \in S) <=> MaySend(x, m)
        /\ (x \in T) <=> MaySend(x, m)'
    BY DEF Senders
  <1>5. /\ Cardinality(S \ {x}) \in Nat
        /\ Cardinality(S) = Cardinality(S \ {x}) + Count(MaySend(x, m))
    BY <1>1, <1>4, CountApart DEF Count
  <1>6. Cardinality(T) = Cardinality(S \ {x}) + Count(MaySend(x, m)')
    BY <1>1, <1>3, <1>4, CountApart DEF Count
  <1>7. /\ delivered[m] \in Nat /\ delivered'[m] \in Nat
        /\ unmarked[m] \in Nat /\ unmarked'[m] \in Nat
        /\ overruns \in Nat /\ overruns' \in Nat
    BY DEF WorkInv, WorkersTypeOK
  <1>8. \A c : Count(c) \in Nat
    BY DEF Count
  <1>9. delivered[m] + Cardinality(S) + Count(ToClaim(m)) <= 1 + unmarked[m] + overruns
    BY DEF WorkInv, ToCome
  <1>10. delivered'[m] + (Count(MaySend(x, m)') + Count(ToClaim(m)')) + unmarked[m] + overruns
           <= delivered[m] + (Count(MaySend(x, m)) + Count(ToClaim(m)))
                + unmarked'[m] + overruns'
    BY DEF NoNearer, Risk, Count
  <1> HIDE DEF S, T
  <1>11. delivered'[m] + Cardinality(T) + Count(ToClaim(m)') <= 1 + unmarked'[m] + overruns'
    BY <1>5, <1>6, <1>7, <1>8, <1>9, <1>10
  <1> QED BY <1>11 DEF ToCome, Count, T

\* A run that ends, whether it closes its row or dies, has nothing in hand; what
\* it was to record as taken is counted.
LEMMA RunEnds ==
    ASSUME WorkInv, NEW x \in Slots, at[x] # "idle",
           at' = [at EXCEPT ![x] = "idle"],
           batch' = [batch EXCEPT ![x] = {}],
           sending' = [sending EXCEPT ![x] = NoMail],
           \/ UNCHANGED <<openRow, overdue>>
           \/ /\ openRow' = (IF openRow = x THEN NoSlot ELSE openRow)
              /\ overdue' = (overdue /\ openRow # x),
           UNCHANGED <<accepted, mail, delivered, overruns>>,
           unmarked' = [m \in Mails |-> unmarked[m] + (IF Unrecorded(x, m) THEN 1 ELSE 0)]
    PROVE  WorkInv'
  <1>1. \A m \in Mails : unmarked'[m] = unmarked[m] + Count(Unrecorded(x, m))
    BY DEF Count
  <1>2. unmarked' \in [Mails -> Nat]
    BY DEF WorkInv, WorkersTypeOK
  <1>3. openRow' \in Slots \cup {NoSlot} /\ overdue' \in BOOLEAN
    BY DEF WorkInv, WorkersTypeOK
  <1>4. WorkersTypeOK'
    BY <1>2, <1>3 DEF WorkInv, WorkersTypeOK
  <1>5. ASSUME NEW y \in Slots \ {x} PROVE InTime(y)' <=> InTime(y)
    <2>1. CASE openRow = x
      BY <2>1 DEF InTime
    <2>2. CASE openRow # x
      <3>1. openRow' = openRow
        BY <2>2
      <3>2. overdue' <=> overdue
        <4>1. (overdue /\ openRow # x) = overdue
          BY <2>2 DEF WorkInv, WorkersTypeOK
        <4> QED BY <4>1
      <3> QED BY <3>1, <3>2 DEF InTime
    <2> QED BY <2>1, <2>2
  <1>6. /\ at'[x] = "idle" /\ batch'[x] = {} /\ sending'[x] = NoMail
        /\ \A y \in Slots \ {x} :
              at'[y] = at[y] /\ batch'[y] = batch[y] /\ sending'[y] = sending[y]
    BY DEF WorkInv, WorkersTypeOK
  <1>7. Others(x) /\ at'[x] = "idle" /\ batch'[x] = {} /\ sending'[x] = NoMail
    BY <1>5, <1>6 DEF Others
  <1>8. InHand'
    BY <1>7 DEF WorkInv, InHand, Others
  <1>9. ASSUME NEW m \in Mails PROVE NoNearer(x, m)
    <2>1. ~ MaySend(x, m)'
      BY <1>7 DEF MaySend
    <2>2. Covered(m) => Covered(m)' \/ m \in batch[x]
      BY <1>7 DEF Covered, Others
    <2>3. m \in batch[x] => MaySend(x, m) \/ Unrecorded(x, m)
      BY DEF MaySend
    <2>4. ToClaim(m)' => ToClaim(m) \/ MaySend(x, m) \/ Unrecorded(x, m)
      BY <2>2, <2>3 DEF ToClaim
    <2>5. delivered'[m] = delivered[m] /\ delivered[m] \in Nat /\ unmarked[m] \in Nat
          /\ overruns \in Nat /\ overruns' = overruns
      BY DEF WorkInv, WorkersTypeOK
    <2> QED BY <1>1, <2>1, <2>4, <2>5 DEF NoNearer, Risk, Count
  <1> QED BY <1>4, <1>7, <1>8, <1>9, StepKeeps

\* Writing the status of the row in hand: it goes back to the queue only if the
\* run was not told that it was taken, or that is counted.
LEMMA RecordKeeps ==
    ASSUME WorkInv, NEW x \in Slots, NEW m \in batch[x],
           sending[x] \in {NoMail, m},
           NEW st \in {"pending", "sending"} \cup Terminal, Record(x, m, st),
           UNCHANGED overruns,
           unmarked' \in [Mails -> Nat],
           \A q \in Mails : unmarked'[q] >= unmarked[q],
           st \notin Terminal /\ Unrecorded(x, m) => unmarked'[m] > unmarked[m]
    PROVE  WorkInv'
  <1>1. m \in Mails /\ at[x] = "loop"
    BY DEF WorkInv, WorkersTypeOK, InHand
  <1>2. /\ mail' = [mail EXCEPT ![m] = st]
        /\ batch' = [batch EXCEPT ![x] = batch[x] \ {m}]
        /\ sending' = [sending EXCEPT ![x] = NoMail]
        /\ UNCHANGED <<openRow, overdue, at, accepted, delivered>>
    BY DEF Record, runVars
  <1>3. WorkersTypeOK'
    BY <1>1, <1>2 DEF WorkInv, WorkersTypeOK
  <1>4. /\ Others(x)
        /\ batch'[x] = batch[x] \ {m} /\ sending'[x] = NoMail /\ at'[x] = "loop"
    BY <1>1, <1>2 DEF WorkInv, WorkersTypeOK, Others, InTime
  <1>5. InHand'
    BY <1>4 DEF WorkInv, InHand, Others
  <1>6. ASSUME NEW q \in Mails PROVE NoNearer(x, q)
    <2>1. /\ delivered'[q] = delivered[q] /\ delivered[q] \in Nat
          /\ unmarked[q] \in Nat /\ unmarked'[q] \in Nat /\ unmarked'[q] >= unmarked[q]
          /\ overruns \in Nat /\ overruns' = overruns
      BY <1>2 DEF WorkInv, WorkersTypeOK
    <2>2. CASE q = m
      <3>1. ~ MaySend(x, m)'
        BY <1>4 DEF MaySend
      <3>2. mail'[m] = st
        BY <1>1, <1>2 DEF WorkInv, WorkersTypeOK
      <3>3. ToClaim(m)' => st \notin Terminal
        BY <3>2 DEF ToClaim, Terminal
      <3>4. MaySend(x, m) \/ Unrecorded(x, m)
        BY DEF MaySend
      <3> QED BY <2>1, <2>2, <3>1, <3>3, <3>4 DEF NoNearer, Risk, Count
    <2>3. CASE q # m
      <3>1. MaySend(x, q)' <=> MaySend(x, q)
        <4>1. ~ Unrecorded(x, q) /\ ~ Unrecorded(x, q)'
          BY <1>4, <2>3 DEF Unrecorded
        <4> QED BY <1>1, <1>4, <2>3, <4>1 DEF MaySend
      <3>2. Covered(q)' <=> Covered(q)
        BY <1>2, <1>4, <2>3 DEF Covered, Others
      <3>3. mail'[q] = mail[q]
        BY <1>2, <2>3 DEF WorkInv, WorkersTypeOK
      <3>4. ToClaim(q)' <=> ToClaim(q)
        BY <3>2, <3>3 DEF ToClaim
      <3> QED BY <2>1, <3>1, <3>4 DEF NoNearer, Risk, Count
    <2> QED BY <2>2, <2>3
  <1> QED BY <1>3, <1>4, <1>5, <1>6, StepKeeps

-----------------------------------------------------------------------------
\* The partial unique index admits a run only when no row is open.
LEMMA StartKeeps ==
    ASSUME WorkInv, NEW x \in Slots, StartRun(x)
    PROVE  WorkInv'
  <1>1. /\ at[x] = "idle" /\ openRow = NoSlot /\ openRow' = x /\ overdue' = FALSE
        /\ at' = [at EXCEPT ![x] = "reclaim"]
        /\ UNCHANGED <<batch, sending, accepted, mail, delivered, unmarked, overruns>>
    BY DEF StartRun, Running, JobFree, roundVars, outboxVars, faultVars
  <1>2. WorkersTypeOK'
    BY <1>1 DEF WorkInv, WorkersTypeOK
  <1>3. batch[x] = {} /\ sending[x] = NoMail
    BY <1>1 DEF WorkInv, InHand
  <1>4. Others(x) /\ at'[x] = "reclaim" /\ InTime(x)'
    BY <1>1 DEF WorkInv, WorkersTypeOK, Others, InTime
  <1>5. InHand'
    BY <1>1, <1>3, <1>4 DEF WorkInv, InHand, Others
  <1>6. ASSUME NEW m \in Mails PROVE NoNearer(x, m)
    <2>1. ~ MaySend(x, m)'
      BY <1>1, <1>3, <1>4 DEF MaySend
    <2>2. ~ Covered(m) /\ ~ Covered(m)'
      BY <1>1, <1>3 DEF Covered
    <2>3. ToClaim(m)' <=> ToClaim(m)
      BY <1>1, <2>2 DEF ToClaim
    <2> QED BY <1>1, <2>1, <2>3 DEF NoNearer, Risk, Count, WorkInv, WorkersTypeOK
  <1> QED BY <1>2, <1>4, <1>5, <1>6, StepKeeps

\* A reclaim puts back what may be claimed as it is.
LEMMA ReclaimKeeps ==
    ASSUME WorkInv, NEW x \in Slots, ReclaimStalled(x)
    PROVE  WorkInv'
  <1>1. /\ at[x] = "reclaim" /\ at' = [at EXCEPT ![x] = "claim"]
        /\ mail' = [m \in Mails |-> IF m \in Reclaimed THEN "pending" ELSE mail[m]]
        /\ UNCHANGED <<openRow, overdue, batch, sending, accepted, delivered,
                       unmarked, overruns>>
    BY DEF ReclaimStalled, roundVars, faultVars
  <1>2. WorkersTypeOK'
    BY <1>1 DEF WorkInv, WorkersTypeOK
  <1>3. Others(x) /\ at'[x] = "claim"
    BY <1>1 DEF WorkInv, WorkersTypeOK, Others, InTime
  <1>4. InHand'
    BY <1>1, <1>3 DEF WorkInv, InHand, Others
  <1>5. ASSUME NEW m \in Mails PROVE NoNearer(x, m)
    <2>1. MaySend(x, m)' <=> MaySend(x, m)
      BY <1>1, <1>3 DEF MaySend, Unrecorded, InTime
    <2>2. mail'[m] \in {"pending", "sending"} <=> mail[m] \in {"pending", "sending"}
      BY <1>1 DEF Reclaimed
    <2>3. Covered(m)' <=> Covered(m)
      BY <1>1 DEF Covered
    <2> QED BY <1>1, <2>1, <2>2, <2>3
            DEF NoNearer, Risk, Count, ToClaim, WorkInv, WorkersTypeOK
  <1> QED BY <1>2, <1>3, <1>4, <1>5, StepKeeps

\* What is claimed was pending, and is in the hands of one run in time, or of
\* one that was known to be still to claim.
LEMMA ClaimKeeps ==
    ASSUME WorkInv, NEW x \in Slots, ClaimDue(x)
    PROVE  WorkInv'
  <1>1. /\ at[x] = "claim" /\ at' = [at EXCEPT ![x] = "loop"]
        /\ batch' = [batch EXCEPT ![x] = Due]
        /\ mail' = [m \in Mails |-> IF m \in Due THEN "sending" ELSE mail[m]]
        /\ UNCHANGED <<openRow, overdue, sending, accepted, delivered, unmarked, overruns>>
    BY DEF ClaimDue, faultVars
  <1>2. Due \subseteq Mails /\ \A m \in Due : mail[m] = "pending"
    BY DEF Due
  <1>3. WorkersTypeOK'
    BY <1>1, <1>2 DEF WorkInv, WorkersTypeOK
  <1>4. batch[x] = {} /\ sending[x] = NoMail
    BY <1>1 DEF WorkInv, InHand
  <1>5. Others(x) /\ at'[x] = "loop" /\ batch'[x] = Due
    BY <1>1 DEF WorkInv, WorkersTypeOK, Others, InTime
  <1>6. InHand'
    BY <1>1, <1>4, <1>5 DEF WorkInv, InHand, Others
  <1>7. ASSUME NEW m \in Mails PROVE NoNearer(x, m)
    <2>1. ~ Unrecorded(x, m) /\ ~ Unrecorded(x, m)'
      BY <1>1, <1>4 DEF Unrecorded
    <2>2. MaySend(x, m)' <=> m \in Due
      BY <1>5, <2>1 DEF MaySend
    <2>3. MaySend(x, m) <=> ~ InTime(x)
      BY <1>1, <1>4 DEF MaySend
    <2>4. /\ m \in Due => mail[m] = "pending" /\ mail'[m] = "sending"
          /\ m \notin Due => mail'[m] = mail[m]
      BY <1>1, <1>2
    <2>5. CASE InTime(x)
      <3>1. ~ Covered(m) /\ (Covered(m)' <=> m \in Due)
        BY <1>1, <1>4, <1>5, <2>5 DEF Covered, InTime
      <3>2. m \in Due => ToClaim(m) /\ ~ ToClaim(m)'
        BY <2>4, <3>1 DEF ToClaim
      <3>3. m \notin Due => (ToClaim(m)' <=> ToClaim(m))
        BY <2>4, <3>1 DEF ToClaim
      <3> QED BY <1>1, <2>2, <2>3, <2>5, <3>2, <3>3
              DEF NoNearer, Risk, Count, WorkInv, WorkersTypeOK
    <2>6. CASE ~ InTime(x)
      <3>1. Covered(m)' <=> Covered(m)
        BY <1>1, <1>5, <2>6 DEF Covered, InTime, Others
      <3>2. ToClaim(m)' <=> ToClaim(m)
        BY <2>4, <3>1 DEF ToClaim
      <3> QED BY <1>1, <2>2, <2>3, <2>6, <3>2
              DEF NoNearer, Risk, Count, WorkInv, WorkersTypeOK
    <2> QED BY <2>5, <2>6
  <1> QED BY <1>3, <1>5, <1>6, <1>7, StepKeeps

\* A row is sent by the run that has it in hand, which may send it again only
\* if it was told of a failure: then no server took it, or that is counted.
LEMMA SendKeeps ==
    ASSUME WorkInv, NEW x \in Slots, NEW m \in Mails,
           NEW took \in BOOLEAN, NEW told \in BOOLEAN, Send(x, m, told),
           delivered' = [delivered EXCEPT ![m] = @ + (IF took THEN 1 ELSE 0)],
           UNCHANGED overruns,
           unmarked' = IF took /\ ~ told THEN [unmarked EXCEPT ![m] = @ + 1] ELSE unmarked,
           told => took
    PROVE  WorkInv'
  <1>1. /\ at[x] = "loop" /\ sending[x] = NoMail /\ m \in batch[x]
        /\ sending' = [sending EXCEPT ![x] = m]
        /\ accepted' = [accepted EXCEPT ![x] = told]
        /\ UNCHANGED <<openRow, overdue, at, batch, mail>>
    BY DEF Send, runVars, outboxVars
  <1>2. delivered' \in [Mails -> Nat] /\ unmarked' \in [Mails -> Nat]
    BY DEF WorkInv, WorkersTypeOK
  <1>3. WorkersTypeOK'
    BY <1>1, <1>2 DEF WorkInv, WorkersTypeOK
  <1>4. /\ Others(x) /\ sending'[x] = m /\ accepted'[x] = told
        /\ at'[x] = "loop" /\ batch'[x] = batch[x]
    BY <1>1 DEF WorkInv, WorkersTypeOK, Others, InTime
  <1>5. InHand'
    BY <1>1, <1>4 DEF WorkInv, InHand, Others
  <1>6. ASSUME NEW q \in Mails PROVE NoNearer(x, q)
    <2>1. /\ delivered[q] \in Nat /\ unmarked[q] \in Nat
          /\ overruns \in Nat /\ overruns' = overruns
      BY DEF WorkInv, WorkersTypeOK
    <2>2. ToClaim(q)' <=> ToClaim(q)
      BY <1>1 DEF ToClaim, Covered
    <2>3. ~ Unrecorded(x, q) /\ (Unrecorded(x, q)' <=> q = m /\ told)
      BY <1>1, <1>4 DEF Unrecorded
    <2>4. /\ MaySend(x, q) <=> q \in batch[x]
          /\ MaySend(x, q)' <=> q \in batch[x] /\ ~ (q = m /\ told)
      BY <1>1, <1>4, <2>3 DEF MaySend
    <2>5. CASE q = m
      <3>1. /\ delivered'[q] = delivered[q] + Count(took)
            /\ unmarked'[q] = unmarked[q] + Count(took /\ ~ told)
        BY <2>5 DEF WorkInv, WorkersTypeOK, Count
      <3> QED BY <1>1, <2>1, <2>2, <2>4, <2>5, <3>1 DEF NoNearer, Risk, Count
    <2>6. CASE q # m
      <3>1. delivered'[q] = delivered[q] /\ unmarked'[q] = unmarked[q]
        BY <2>6 DEF WorkInv, WorkersTypeOK
      <3> QED BY <2>1, <2>2, <2>4, <2>6, <3>1 DEF NoNearer, Risk, Count
    <2> QED BY <2>5, <2>6
  <1> QED BY <1>3, <1>4, <1>5, <1>6, StepKeeps

-----------------------------------------------------------------------------
\* The steps of a run that is not disturbed.
LEMMA AdvanceKeeps ==
    ASSUME WorkInv, NEW x \in Slots, Advance(x)
    PROVE  WorkInv'
  <1>t. unmarked \in [Mails -> Nat] /\ \A q \in Mails : unmarked[q] >= unmarked[q]
    BY DEF WorkInv, WorkersTypeOK
  <1>1. CASE ReclaimStalled(x)
    BY <1>1, ReclaimKeeps
  <1>2. CASE ClaimDue(x)
    BY <1>2, ClaimKeeps
  <1>3. ASSUME NEW m \in Mails, NEW ok \in BOOLEAN, SendMail(x, m, ok)
        PROVE  WorkInv'
    <2>1. Send(x, m, ok) /\ UNCHANGED overruns /\ unmarked' = unmarked
          /\ delivered' = [delivered EXCEPT ![m] = @ + (IF ok THEN 1 ELSE 0)]
      BY <1>3 DEF SendMail, faultVars
    <2> QED BY <2>1, SendKeeps
  <1>4. ASSUME NEW m \in Mails, SkipMail(x, m) PROVE WorkInv'
    <2>1. m \in batch[x] /\ sending[x] = NoMail /\ Record(x, m, "skipped")
          /\ overruns' = overruns /\ unmarked' = unmarked
      BY <1>4 DEF SkipMail, faultVars
    <2> QED BY <1>t, <2>1, RecordKeeps DEF Terminal
  <1>5. CASE RecordSent(x)
    <2> DEFINE m == sending[x]
    <2>1. m # NoMail /\ Record(x, m, "sent") /\ overruns' = overruns /\ unmarked' = unmarked
      BY <1>5 DEF RecordSent, faultVars
    <2>2. m \in batch[x]
      BY <2>1 DEF WorkInv, InHand
    <2> QED BY <1>t, <2>1, <2>2, RecordKeeps DEF Terminal
  <1>6. CASE RecordFailure(x)
    <2> DEFINE m == sending[x]
    <2>1. m # NoMail /\ ~ accepted[x] /\ RetryOrFail(x, m)
          /\ overruns' = overruns /\ unmarked' = unmarked
      BY <1>6 DEF RecordFailure, faultVars
    <2>2. m \in batch[x]
      BY <2>1 DEF WorkInv, InHand
    <2>3. Record(x, m, "failed") \/ Record(x, m, "pending")
      BY <2>1 DEF RetryOrFail
    <2>4. ~ Unrecorded(x, m)
      BY <2>1 DEF Unrecorded
    <2> QED BY <1>t, <2>1, <2>2, <2>3, <2>4, RecordKeeps DEF Terminal
  <1>7. CASE FinishRun(x)
    <2>1. at[x] = "loop" /\ batch[x] = {} /\ sending[x] = NoMail /\ CloseRow(x)
          /\ UNCHANGED <<mail, delivered, overruns>> /\ unmarked' = unmarked
      BY <1>7 DEF FinishRun, outboxVars, faultVars
    <2>2. \A m \in Mails : ~ Unrecorded(x, m)
      BY <2>1 DEF Unrecorded
    <2>3. unmarked' = [m \in Mails |-> unmarked[m] + (IF Unrecorded(x, m) THEN 1 ELSE 0)]
      BY <2>1, <2>2 DEF WorkInv, WorkersTypeOK
    <2> QED BY <2>1, <2>3, RunEnds DEF CloseRow
  <1> QED BY <1>1, <1>2, <1>3, <1>4, <1>5, <1>6, <1>7 DEF Advance

\* The steps that go wrong.
LEMMA FaultsKeep ==
    ASSUME WorkInv, NEW x \in Slots, RecordThrows(x) \/ JobThrows(x) \/ CrashRun(x)
    PROVE  WorkInv'
  <1>1. /\ UNCHANGED overruns
        /\ unmarked' = [m \in Mails |-> unmarked[m] + (IF Unrecorded(x, m) THEN 1 ELSE 0)]
    BY DEF RecordThrows, JobThrows, CrashRun, RunFails
  <1>2. ASSUME NEW m \in InWriting(x), RetryOrFail(x, m)
        PROVE  WorkInv'
    <2>1. m \in batch[x] /\ sending[x] \in {NoMail, m}
      BY <1>2 DEF InWriting, WorkInv, InHand
    <2>2. m \in Mails
      BY <2>1 DEF WorkInv, WorkersTypeOK
    <2>3. /\ unmarked' \in [Mails -> Nat]
          /\ \A q \in Mails : unmarked'[q] >= unmarked[q]
          /\ Unrecorded(x, m) => unmarked'[m] > unmarked[m]
      BY <1>1, <2>2 DEF WorkInv, WorkersTypeOK
    <2>4. Record(x, m, "failed") \/ Record(x, m, "pending")
      BY <1>2 DEF RetryOrFail
    <2> QED BY <1>1, <2>1, <2>3, <2>4, RecordKeeps DEF Terminal
  <1>3. CASE JobThrows(x)
    <2>1. CloseRow(x) /\ UNCHANGED <<mail, delivered>>
      BY <1>3 DEF JobThrows, outboxVars
    <2>2. at[x] # "idle"
      BY <1>3 DEF JobThrows, InWriting, WorkInv, InHand
    <2> QED BY <1>1, <2>1, <2>2, RunEnds DEF CloseRow
  <1>4. CASE CrashRun(x)
    BY <1>1, <1>4, RunEnds DEF CrashRun, Running, outboxVars
  <1> QED BY <1>2, <1>3, <1>4 DEF RecordThrows

\* An answer that is lost.
LEMMA LostAnswerKeeps ==
    ASSUME WorkInv, NEW x \in Slots, NEW m \in Mails, LoseAnswer(x, m)
    PROVE  WorkInv'
  <1>1. /\ Send(x, m, FALSE) /\ UNCHANGED overruns
        /\ delivered' = [delivered EXCEPT ![m] = @ + 1]
        /\ unmarked' = [unmarked EXCEPT ![m] = @ + 1]
    BY DEF LoseAnswer
  <1>2. /\ delivered' = [delivered EXCEPT ![m] = @ + (IF TRUE THEN 1 ELSE 0)]
        /\ unmarked' = IF TRUE /\ ~ FALSE THEN [unmarked EXCEPT ![m] = @ + 1] ELSE unmarked
    BY <1>1
  <1> QED BY <1>1, <1>2, SendKeeps

\* Time passes for the open row, or the sweep closes it: a run that outlives its
\* time gives each row it has in hand to the next, and is counted.
LEMMA SweepKeeps ==
    ASSUME WorkInv, AgeOfDead \/ Overrun \/ Sweep
    PROVE  WorkInv'
  <1>0. openRow \in Slots
    BY DEF AgeOfDead, Overrun, Sweep, WorkInv, WorkersTypeOK
  <1>1. PICK x \in Slots : x = openRow
    BY <1>0
  <1>2. UNCHANGED <<at, batch, sending, accepted, mail, delivered, unmarked>>
    BY DEF AgeOfDead, Overrun, Sweep, runVars, roundVars, outboxVars, faultVars
  <1>3. openRow' \in Slots \cup {NoSlot} /\ overdue' \in BOOLEAN /\ overruns' \in Nat
    <2>1. openRow' \in {openRow, NoSlot} /\ overdue' \in BOOLEAN
      BY DEF AgeOfDead, Overrun, Sweep
    <2>2. overruns' \in {overruns, overruns + 1}
      BY DEF AgeOfDead, Overrun, Sweep, faultVars
    <2> QED BY <1>1, <2>1, <2>2 DEF WorkInv, WorkersTypeOK
  <1>4. WorkersTypeOK' /\ InHand'
    BY <1>2, <1>3 DEF WorkInv, WorkersTypeOK, InHand
  <1>5. \A y \in Slots \ {x} : ~ InTime(y) /\ ~ InTime(y)'
    BY <1>1 DEF InTime, AgeOfDead, Overrun, Sweep
  <1>6. Others(x)
    BY <1>2, <1>5 DEF Others
  <1>7. ASSUME NEW m \in Mails PROVE NoNearer(x, m)
    <2>1. ~ Covered(m)' /\ ~ InTime(x)'
      BY <1>1 DEF Covered, InTime, AgeOfDead, Overrun, Sweep
    <2>2. /\ delivered[m] \in Nat /\ unmarked[m] \in Nat /\ overruns \in Nat
          /\ delivered'[m] = delivered[m] /\ unmarked'[m] = unmarked[m]
      BY <1>2 DEF WorkInv, WorkersTypeOK
    <2>3. CASE Overrun
      <3>1. overruns' = overruns + 1
        BY <2>3 DEF Overrun
      <3>2. CASE m \in batch[x]
        <4>1. at[x] = "loop"
          BY <1>1, <3>2 DEF WorkInv, InHand
        <4>2. MaySend(x, m)' <=> MaySend(x, m)
          BY <1>2, <4>1 DEF MaySend, Unrecorded
        <4> QED BY <2>2, <3>1, <4>2 DEF NoNearer, Risk, Count
      <3>3. CASE m \notin batch[x]
        <4>1. ToClaim(m)' <=> ToClaim(m)
          BY <1>1, <1>2, <2>1, <3>3 DEF ToClaim, Covered
        <4> QED BY <2>2, <3>1, <4>1 DEF NoNearer, Risk, Count
      <3> QED BY <3>2, <3>3
    <2>4. CASE AgeOfDead \/ Sweep
      <3>1. overruns' = overruns
        BY <2>4 DEF AgeOfDead, Sweep, faultVars
      <3>2. overdue \/ at[x] = "idle"
        BY <1>1, <2>4 DEF AgeOfDead, Sweep, Running
      <3>3. MaySend(x, m)' <=> MaySend(x, m)
        <4>1. Unrecorded(x, m)' <=> Unrecorded(x, m)
          BY <1>2 DEF Unrecorded
        <4> QED BY <1>2, <2>1, <3>2, <4>1 DEF MaySend, InTime
      <3>4. ~ Covered(m)
        BY <1>1, <3>2 DEF Covered, WorkInv, InHand
      <3>5. ToClaim(m)' <=> ToClaim(m)
        BY <1>2, <2>1, <3>4 DEF ToClaim
      <3> QED BY <2>2, <3>1, <3>3, <3>5 DEF NoNearer, Risk, Count
    <2> QED BY <2>3, <2>4
  <1> QED BY <1>1, <1>4, <1>6, <1>7, StepKeeps

\* Time passes for the rows of the outbox.
LEMMA TimeKeeps ==
    ASSUME WorkInv, (\E m \in Mails : Stall(m) \/ Ripen(m)) \/ UNCHANGED workerVars
    PROVE  WorkInv'
  <1>1. UNCHANGED <<openRow, overdue, at, batch, sending, accepted, mail, delivered,
                    unmarked, overruns>>
    BY DEF Stall, Ripen, workerVars, runVars, roundVars, outboxVars, faultVars
  <1> QED BY <1>1 DEF WorkInv, WorkersTypeOK, InHand, ToCome, Senders, MaySend, Unrecorded,
                      InTime, ToClaim, Covered, Count

\* No run, and nothing sent.
LEMMA OutboxOpens == WorkersInit => WorkInv
  <1> SUFFICES ASSUME WorkersInit PROVE WorkInv
    OBVIOUS
  <1>1. WorkersTypeOK /\ InHand
    BY DEF WorkersInit, WorkersTypeOK, InHand
  <1>2. ASSUME NEW m \in Mails PROVE ToCome(m)
    <2>1. Senders(m) = {}
      BY DEF WorkersInit, Senders, MaySend
    <2>2. Cardinality(Senders(m)) = 0
      BY <2>1, FS_EmptySet
    <2> QED BY <2>2 DEF WorkersInit, ToCome, Count
  <1> QED BY <1>1, <1>2 DEF WorkInv

\* A mail goes out once, and once more at most for each time a server took it
\* and no record of that was made, and for each run that outlived its thirty
\* minutes: the partial unique index of job_runs keeps runs apart, and a claim
\* takes nothing that is "sent".
THEOREM MailsLeaveOnce == WorkersSpec => []DeliveredOnce
  <1>1. ASSUME WorkInv, [WorkersNext]_workerVars
        PROVE  WorkInv'
    <2>1. ASSUME NEW x \in Slots, StartRun(x) PROVE WorkInv'
      BY <1>1, <2>1, StartKeeps
    <2>2. ASSUME NEW x \in Slots, Advance(x) PROVE WorkInv'
      BY <1>1, <2>2, AdvanceKeeps
    <2>3. ASSUME NEW x \in Slots, RecordThrows(x) \/ JobThrows(x) \/ CrashRun(x)
          PROVE  WorkInv'
      BY <1>1, <2>3, FaultsKeep
    <2>4. ASSUME NEW x \in Slots, NEW m \in Mails, LoseAnswer(x, m) PROVE WorkInv'
      BY <1>1, <2>4, LostAnswerKeeps
    <2>5. CASE AgeOfDead \/ Overrun \/ Sweep
      BY <1>1, <2>5, SweepKeeps
    <2>6. CASE (\E m \in Mails : Stall(m) \/ Ripen(m)) \/ UNCHANGED workerVars
      BY <1>1, <2>6, TimeKeeps
    <2> QED BY <1>1, <2>1, <2>2, <2>3, <2>4, <2>5, <2>6 DEF WorkersNext
  <1>2. WorkInv => DeliveredOnce
    <2> SUFFICES ASSUME WorkInv, NEW m \in Mails
                 PROVE  delivered[m] <= 1 + unmarked[m] + overruns
      BY DEF DeliveredOnce
    <2>1. IsFiniteSet(Senders(m))
      <3>1. Senders(m) \subseteq Slots
        BY DEF Senders
      <3> QED BY <3>1, FS_Subset
    <2>2. Cardinality(Senders(m)) \in Nat
      BY <2>1, FS_CardinalityType
    <2> QED BY <2>2 DEF WorkInv, WorkersTypeOK, ToCome, Count
  <1> QED BY <1>1, <1>2, OutboxOpens, PTL DEF WorkersSpec

HIDE WorkersAssumption

-----------------------------------------------------------------------------
\* The pool of connections.
USE ConnectionsAssumption

\* A transaction waits for a second connection, or has one, only if its code
\* asks for one.
SecondsAsked ==
    \A t \in Transactions : stage[t] \in {"second", "inner"} => t \in Doubles

\* Only those wait in the queue that its head may be handed a connection for.
QueueWaits ==
    \A i \in 1 .. Len(queue) : stage[queue[i]] \in {"queued", "second"}
QueueOnce ==
    \A i, j \in 1 .. Len(queue) : queue[i] = queue[j] => i = j

PoolInv == ConnectionsTypeOK /\ SecondsAsked /\ QueueWaits /\ QueueOnce

\* A transaction that acquires a connection, or joins the queue for one.
LEMMA AcquireInv ==
    ASSUME PoolInv, NEW t \in Transactions,
           NEW served \in {"begun", "inner"}, NEW waits \in {"queued", "second"},
           stage[t] \notin {"queued", "second"},
           served = "inner" \/ waits = "second" => t \in Doubles,
           Acquire(t, served, waits)
    PROVE  PoolInv'
  <1>1. ConnectionsTypeOK'
    BY DEF PoolInv, ConnectionsTypeOK, Stages, Acquire
  <1>2. SecondsAsked'
    BY DEF PoolInv, ConnectionsTypeOK, SecondsAsked, Acquire
  <1>3. \A i \in 1 .. Len(queue) : queue[i] # t
    BY DEF PoolInv, QueueWaits
  <1>4. CASE UNCHANGED queue
    <2>1. QueueWaits'
      BY <1>3, <1>4 DEF PoolInv, ConnectionsTypeOK, QueueWaits, Acquire
    <2>2. QueueOnce'
      BY <1>4 DEF PoolInv, QueueOnce
    <2> QED BY <1>1, <1>2, <2>1, <2>2 DEF PoolInv
  <1>5. CASE queue' = Append(queue, t) /\ stage' = [stage EXCEPT ![t] = waits]
    <2>1. /\ Len(queue') = Len(queue) + 1
          /\ queue'[Len(queue) + 1] = t
          /\ \A i \in 1 .. Len(queue) : queue'[i] = queue[i]
          /\ Len(queue) \in Nat
          /\ \A i \in 1 .. Len(queue) : queue[i] \in Transactions
      BY <1>5 DEF PoolInv, ConnectionsTypeOK
    <2>2. QueueWaits'
      BY <1>3, <1>5, <2>1 DEF PoolInv, ConnectionsTypeOK, QueueWaits
    <2>3. QueueOnce'
      BY <1>3, <2>1 DEF PoolInv, QueueOnce
    <2> QED BY <1>1, <1>2, <2>2, <2>3 DEF PoolInv
  <1> QED BY <1>4, <1>5 DEF Acquire

\* A transaction that gives one back, perhaps to the head of the queue.
LEMMA GiveBackInv ==
    ASSUME PoolInv, NEW t \in Transactions, NEW next \in {"after", "over"},
           stage[t] \notin {"queued", "second"}, GiveBack(t, next)
    PROVE  PoolInv'
  <1>1. CASE queue = << >> /\ stage' = [stage EXCEPT ![t] = next] /\ UNCHANGED queue
    BY <1>1 DEF PoolInv, ConnectionsTypeOK, Stages, SecondsAsked, QueueWaits, QueueOnce
  <1>2. CASE queue # << >> /\ queue' = Tail(queue)
    <2> DEFINE h == Head(queue)
               given == IF stage[h] = "queued" THEN "begun" ELSE "inner"
    <2>1. /\ Len(queue) \in Nat \ {0} /\ h = queue[1]
          /\ Len(queue') = Len(queue) - 1
          /\ \A i \in 1 .. Len(queue') : queue'[i] = queue[i + 1]
          /\ \A i \in 1 .. Len(queue) : queue[i] \in Transactions
          /\ queue' \in Seq(Transactions)
      BY <1>2 DEF PoolInv, ConnectionsTypeOK
    <2>2. stage' = [stage EXCEPT ![t] = next, ![h] = given]
      BY <1>2 DEF GiveBack
    <2>3. h \in Transactions /\ stage[h] \in {"queued", "second"} /\ h # t
      BY <2>1 DEF PoolInv, QueueWaits
    <2> HIDE DEF h
    <2>4. ConnectionsTypeOK'
      BY <2>1, <2>2, <2>3 DEF PoolInv, ConnectionsTypeOK, Stages
    <2>5. SecondsAsked'
      BY <2>2, <2>3 DEF PoolInv, ConnectionsTypeOK, SecondsAsked
    <2>6. \A i \in 1 .. Len(queue') : queue'[i] # h /\ queue'[i] # t
      BY <2>1 DEF PoolInv, QueueWaits, QueueOnce
    <2>7. QueueWaits'
      BY <2>1, <2>2, <2>6 DEF PoolInv, ConnectionsTypeOK, QueueWaits
    <2>8. QueueOnce'
      BY <2>1 DEF PoolInv, QueueOnce
    <2> QED BY <2>4, <2>5, <2>7, <2>8 DEF PoolInv
  <1> QED BY <1>1, <1>2 DEF GiveBack

LEMMA NextPoolInv == PoolInv /\ [ConnectionsNext]_connectionVars => PoolInv'
  <1> SUFFICES ASSUME PoolInv, [ConnectionsNext]_connectionVars PROVE PoolInv'
    OBVIOUS
  <1>1. ASSUME NEW t \in Transactions, Begin(t) PROVE PoolInv'
    BY <1>1, AcquireInv DEF Begin
  <1>2. ASSUME NEW t \in Transactions, AskRow(t) \/ GetRow(t) PROVE PoolInv'
    <2>1. \A i \in 1 .. Len(queue) : queue[i] # t /\ queue[i] \in Transactions
      BY <1>2 DEF PoolInv, ConnectionsTypeOK, QueueWaits, AskRow, GetRow
    <2>2. QueueWaits'
      BY <1>2, <2>1 DEF PoolInv, ConnectionsTypeOK, QueueWaits, AskRow, GetRow
    <2> QED
      BY <1>2, <2>2 DEF PoolInv, ConnectionsTypeOK, Stages, SecondsAsked, QueueOnce,
                        AskRow, GetRow
  <1>3. ASSUME NEW t \in Transactions, AskSecond(t) PROVE PoolInv'
    <2>1. t \in Doubles /\ stage[t] \notin {"queued", "second"}
          /\ Acquire(t, "inner", "second")
      BY <1>3 DEF AskSecond
    <2> QED BY <2>1, AcquireInv
  <1>4. ASSUME NEW t \in Transactions, EndInner(t) \/ EndTransaction(t) PROVE PoolInv'
    BY <1>4, GiveBackInv DEF EndInner, EndTransaction
  <1>5. CASE UNCHANGED connectionVars
    BY <1>5 DEF connectionVars, PoolInv, ConnectionsTypeOK, SecondsAsked, QueueWaits,
                QueueOnce
  <1> QED
    BY <1>1, <1>2, <1>3, <1>4, <1>5 DEF ConnectionsNext, GoOn

LEMMA PoolInvariant == ConnectionsSpec => []PoolInv
  <1>1. ConnectionsInit => PoolInv
    BY DEF ConnectionsInit, PoolInv, ConnectionsTypeOK, Stages, SecondsAsked,
           QueueWaits, QueueOnce
  <1> QED BY <1>1, NextPoolInv, PTL DEF ConnectionsSpec

\* An exhausted pool takes as many transactions in flight as there are
\* connections, and one of a kind that takes a second connection: tx of
\* db/client.ts is safe for requests that use the handle they are given, and
\* for any requests while fewer than twenty are at work.
THEOREM ExhaustionNeeds ==
    ConnectionsSpec => [](Exhausted => /\ Cardinality(InFlight) >= MaxConnections
                                       /\ InFlight \cap Doubles # {})
  <1>1. PoolInv /\ Exhausted => /\ Cardinality(InFlight) >= MaxConnections
                                /\ InFlight \cap Doubles # {}
    <2> SUFFICES ASSUME PoolInv, Exhausted
                 PROVE  /\ Cardinality(InFlight) >= MaxConnections
                        /\ InFlight \cap Doubles # {}
      OBVIOUS
    <2> DEFINE Inner == {t \in Open : stage[t] = "inner"}
    <2>1. Inner = {}
      BY DEF Exhausted, Starved
    <2>2. Cardinality(Inner) = 0
      BY <2>1, FS_EmptySet
    <2>3. IsFiniteSet(InFlight) /\ IsFiniteSet(Open)
      BY FS_Subset DEF InFlight, Open
    <2>4. Open \subseteq InFlight
      BY DEF Open, InFlight
    <2>5. /\ Cardinality(Open) <= Cardinality(InFlight)
          /\ Cardinality(Open) \in Nat /\ Cardinality(InFlight) \in Nat
      BY <2>3, <2>4, FS_Subset, FS_CardinalityType
    <2>6. Cardinality(Open) = MaxConnections
      BY <2>2, <2>5 DEF Exhausted, Free
    <2>7. PICK t \in Open : TRUE
      BY <2>6, FS_EmptySet
    <2>8. PICK s \in Transactions : stage[s] = "second"
      BY <2>7 DEF Exhausted, Starved, Open
    <2>9. s \in InFlight \cap Doubles
      BY <2>8 DEF PoolInv, SecondsAsked, InFlight
    <2> QED BY <2>5, <2>6, <2>9
  <1> QED BY <1>1, PoolInvariant, PTL

\* And nothing ends it: no statement has a timeout, so the only step left is
\* one more request that joins the queue.
THEOREM ExhaustedForGood ==
    ConnectionsSpec => [][Exhausted => Exhausted']_connectionVars
  <1>1. PoolInv /\ [ConnectionsNext]_connectionVars /\ Exhausted => Exhausted'
    <2> SUFFICES ASSUME PoolInv, [ConnectionsNext]_connectionVars, Exhausted
                 PROVE  Exhausted'
      OBVIOUS
    <2>1. ASSUME NEW t \in Transactions, Begin(t) PROVE Exhausted'
      <3>1. Free = 0 /\ stage[t] = "new" /\ stage' = [stage EXCEPT ![t] = "queued"]
        BY <2>1 DEF Exhausted, Begin, Acquire
      <3>2. Open' = Open /\ \A s \in Transactions : s # t => stage'[s] = stage[s]
        BY <3>1 DEF PoolInv, ConnectionsTypeOK, Open
      <3>3. {s \in Open : stage[s] = "inner"}' = {s \in Open : stage[s] = "inner"}
        BY <3>1, <3>2 DEF PoolInv, ConnectionsTypeOK, Open
      <3>4. Free' = Free
        BY <3>2, <3>3 DEF Free
      <3>5. ASSUME NEW s \in Open PROVE Starved(s)'
        <4>1. Starved(s) /\ s # t /\ s \in Transactions
          BY <3>1, <3>5 DEF Exhausted, Open
        <4>2. stage'[s] = stage[s]
          BY <3>2, <4>1
        <4>3. CASE stage[s] = "second"
          BY <4>2, <4>3 DEF Starved
        <4>4. CASE stage[s] = "blocked"
          <5>1. PICK u \in Transactions : stage[u] = "second" /\ HoldsRow(u, RowWanted[s])
            BY <4>1, <4>4 DEF Starved
          <5>2. stage'[u] = stage[u]
            BY <3>1, <3>2, <5>1
          <5> QED BY <4>2, <4>4, <5>1, <5>2 DEF Starved, HoldsRow
        <4> QED BY <4>1, <4>3, <4>4 DEF Starved
      <3> QED BY <3>1, <3>2, <3>4, <3>5 DEF Exhausted
    <2>2. ASSUME NEW t \in Transactions, GetRow(t) PROVE FALSE
      <3>1. stage[t] = "blocked" /\ RowAvailable(RowWanted[t]) /\ t \in Open
        BY <2>2 DEF GetRow, Open
      <3>2. PICK u \in Transactions : HoldsRow(u, RowWanted[t])
        BY <3>1 DEF Exhausted, Starved
      <3> QED BY <3>1, <3>2 DEF RowAvailable
    <2>3. ASSUME NEW t \in Transactions, GoOn(t) PROVE FALSE
      <3>1. t \in Open /\ stage[t] \notin {"second", "blocked"}
        BY <2>3 DEF GoOn, AskRow, AskSecond, EndInner, EndTransaction, Open
      <3> QED BY <3>1 DEF Exhausted, Starved
    <2>4. CASE UNCHANGED connectionVars
      BY <2>4 DEF connectionVars, Exhausted, Free, Open, Starved, HoldsRow
    <2> QED BY <2>1, <2>2, <2>3, <2>4 DEF ConnectionsNext
  <1> QED BY <1>1, PoolInvariant, PTL DEF ConnectionsSpec

HIDE ConnectionsAssumption

-----------------------------------------------------------------------------
USE SessionsAssumption

SessionsTypeOK ==
    /\ token \in [Tokens -> {"unused", "active", "revoked"}]
    /\ rowLock \in [Tokens -> Calls \cup {NoCall}]
    /\ call \in [Calls -> {"free", "sent", "rotating", "issued", "done", "refused"}]
    /\ old \in [Calls -> Tokens \cup {NoToken}]
    /\ new \in [Calls -> Tokens \cup {NoToken}]
    /\ client \in [Calls -> Tabs \cup {NoTab}]
    /\ cookie \in Tokens \cup {NoToken}
    /\ tab \in [Tabs -> {"idle", "waiting", "posting", "cleared"}]
    /\ sweep \in BOOLEAN /\ ended \in BOOLEAN
    /\ todo \subseteq Tokens /\ taken \subseteq Tokens /\ older \subseteq Tokens
    /\ logins \in Nat /\ lost \in Nat /\ aborted \in Nat

\* A rotation holds the lock of the row it presents, which is active and not in
\* the hands of a sweep; and nobody else holds a lock.
Rotating == {"rotating", "issued"}
LocksHeld ==
    /\ \A c \in Calls :
          call[c] \in Rotating =>
              /\ old[c] \in Tokens /\ rowLock[old[c]] = c
              /\ token[old[c]] = "active" /\ old[c] \notin taken
    /\ \A t \in Tokens :
          rowLock[t] # NoCall =>
              call[rowLock[t]] \in Rotating /\ old[rowLock[t]] = t
    /\ \A c \in Calls : call[c] = "sent" => old[c] \in Tokens

\* A sweep still has to come to what it has not taken.
SweepCovers ==
    /\ \A t \in older : token[t] # "unused"
    /\ sweep => \A t \in older : token[t] = "active" => t \in todo \cup taken
    /\ ~ sweep => /\ todo = {} /\ taken = {}
                  /\ \A t \in older : token[t] # "active"

\* Tokens that can be rotated, or are being rotated with nothing issued yet.
Rotatable == {t \in Active : rowLock[t] = NoCall \/ call[rowLock[t]] # "issued"}
LiveBound == Cardinality(Rotatable) <= logins + aborted

RowInv == SessionsTypeOK /\ LocksHeld /\ SweepCovers /\ LiveBound

\* While nothing is lost, rolled back or ended, the one tab that posts waits for
\* the one call there is, and the cookie is good or about to be replaced.
Quiet == Locking /\ lost + aborted = 0 /\ ~ ended
Refreshing ==
    /\ ~ sweep /\ cookie \in Tokens
    /\ \A b \in Tabs : tab[b] # "cleared"
    /\ \A b \in Tabs : tab[b] = "posting" => \E c \in Calls : client[c] = b
    /\ \A b, o \in Tabs : tab[b] = "posting" /\ tab[o] = "posting" => b = o
    /\ \A c \in Calls : call[c] # "free" <=> client[c] # NoTab
    /\ \A c \in Calls : client[c] # NoTab => tab[client[c]] = "posting"
    /\ \A c, d \in Calls : call[c] # "free" /\ call[d] # "free" => c = d
    /\ \A c \in Calls : call[c] # "refused"
    /\ \A c \in Calls : call[c] = "sent" => old[c] \in Tokens /\ token[old[c]] = "active"
    /\ \A c \in Calls : call[c] \in {"issued", "done"} =>
                            new[c] \in Tokens /\ token[new[c]] = "active"
    /\ \A c \in Calls : call[c] = "issued" => new[c] # old[c]
    /\ (\A c \in Calls : call[c] # "done") => token[cookie] = "active"
QuietRefresh == Quiet => Refreshing

-----------------------------------------------------------------------------
\* The rows are finitely many.
LEMMA LiveIsFinite ==
    ASSUME NEW S, S \subseteq Tokens
    PROVE  IsFiniteSet(S) /\ Cardinality(S) \in Nat
  <1>1. IsFiniteSet(1 .. MaxTokens)
    BY FS_Interval
  <1>2. IsFiniteSet(S)
    BY <1>1, FS_Subset DEF Tokens
  <1> QED BY <1>2, FS_CardinalityType

\* Fewer rows live is no more.
LEMMA FewerLive ==
    ASSUME NEW S, NEW T, S \subseteq T, T \subseteq Tokens
    PROVE  Cardinality(S) <= Cardinality(T)
  BY LiveIsFinite, FS_Subset

\* One more row live counts one more at most.
LEMMA OneMoreLive ==
    ASSUME NEW S, NEW T, NEW t \in Tokens, T \subseteq Tokens, S \subseteq T \cup {t}
    PROVE  Cardinality(S) <= Cardinality(T) + 1
  <1>1. IsFiniteSet(T) /\ Cardinality(T) \in Nat
    BY LiveIsFinite
  <1>2. Cardinality(T \cup {t}) <= Cardinality(T) + 1
    <2>1. CASE t \in T
      <3>1. T \cup {t} = T
        BY <2>1
      <3>2. Cardinality(T \cup {t}) = Cardinality(T)
        BY <3>1
      <3> HIDE <3>1
      <3> QED BY <1>1, <3>2
    <2>2. CASE t \notin T
      <3>1. Cardinality(T \cup {t}) = Cardinality(T) + 1
        BY <1>1, <2>2, FS_AddElement
      <3> QED BY <1>1, <3>1
    <2> QED BY <2>1, <2>2
  <1>3. Cardinality(S) <= Cardinality(T \cup {t})
    BY FewerLive
  <1>4. Cardinality(S) \in Nat /\ Cardinality(T \cup {t}) \in Nat
    BY LiveIsFinite
  <1> QED BY <1>1, <1>2, <1>3, <1>4

\* A row that is replaced counts as one.
LEMMA ReplacedLive ==
    ASSUME NEW S, NEW T, NEW t \in Tokens, NEW o \in T, T \subseteq Tokens,
           S \subseteq (T \ {o}) \cup {t}
    PROVE  Cardinality(S) <= Cardinality(T)
  <1>1. IsFiniteSet(T) /\ Cardinality(T) \in Nat
    BY LiveIsFinite
  <1>2. Cardinality(T \ {o}) = Cardinality(T) - 1
    BY <1>1, FS_RemoveElement
  <1>3. Cardinality(S) <= Cardinality(T \ {o}) + 1
    BY OneMoreLive
  <1> QED BY <1>1, <1>2, <1>3

\* A step that leaves the rows and the rotations alone keeps the row invariant.
LEMMA RowsFrame ==
    ASSUME RowInv, SessionsTypeOK', UNCHANGED <<token, rowLock, sweepVars, aborted>>,
           logins' = logins,
           \A c \in Calls :
              call[c] \in Rotating \/ call'[c] \in Rotating =>
                  call'[c] = call[c] /\ old'[c] = old[c],
           \A c \in Calls : call'[c] = "sent" => old'[c] \in Tokens
    PROVE  RowInv'
  <1>1. LocksHeld'
    BY DEF RowInv, SessionsTypeOK, LocksHeld, sweepVars
  <1>2. SweepCovers'
    BY DEF RowInv, SweepCovers, sweepVars
  <1>3. Rotatable' \subseteq Rotatable /\ Rotatable \subseteq Tokens
    BY DEF RowInv, SessionsTypeOK, LocksHeld, Rotatable, Active, Rotating
  <1>4. Cardinality(Rotatable') <= Cardinality(Rotatable)
    BY <1>3, FewerLive
  <1>5. Cardinality(Rotatable) \in Nat /\ Cardinality(Rotatable') \in Nat
    BY <1>3, LiveIsFinite
  <1>6. LiveBound'
    BY <1>4, <1>5 DEF RowInv, SessionsTypeOK, LiveBound
  <1> QED BY <1>1, <1>2, <1>6 DEF RowInv

\* Of the tokens a step leaves, only one may be new.
LEMMA LiveGrows ==
    ASSUME RowInv, SessionsTypeOK', NEW t \in Tokens, Rotatable' \subseteq Rotatable \cup {t},
           logins' + aborted' = logins + aborted + 1
    PROVE  LiveBound'
  <1>1. Rotatable \subseteq Tokens /\ Rotatable' \subseteq Tokens
    BY DEF Rotatable, Active
  <1>2. Cardinality(Rotatable') <= Cardinality(Rotatable) + 1
    BY <1>1, OneMoreLive
  <1>3. Cardinality(Rotatable) \in Nat /\ Cardinality(Rotatable') \in Nat
    BY <1>1, LiveIsFinite
  <1>4. Cardinality(Rotatable) <= logins + aborted
    BY DEF RowInv, LiveBound
  <1>5. logins \in Nat /\ aborted \in Nat
    BY DEF RowInv, SessionsTypeOK
  <1>6. Cardinality(Rotatable') <= logins' + aborted'
    BY <1>2, <1>3, <1>4, <1>5
  <1> QED BY <1>6 DEF LiveBound

\* A step after which no other token is live.
LEMMA LiveShrinks ==
    ASSUME RowInv, Rotatable' \subseteq Rotatable, UNCHANGED <<logins, aborted>>
    PROVE  LiveBound'
  <1>1. Rotatable \subseteq Tokens /\ Rotatable' \subseteq Tokens
    BY DEF Rotatable, Active
  <1>2. Cardinality(Rotatable') <= Cardinality(Rotatable)
    BY <1>1, FewerLive
  <1>3. Cardinality(Rotatable) \in Nat /\ Cardinality(Rotatable') \in Nat
    BY <1>1, LiveIsFinite
  <1>4. Cardinality(Rotatable) <= logins + aborted /\ logins \in Nat /\ aborted \in Nat
    BY DEF RowInv, LiveBound, SessionsTypeOK
  <1>5. Cardinality(Rotatable') <= logins' + aborted'
    BY <1>2, <1>3, <1>4
  <1> QED BY <1>5 DEF LiveBound

-----------------------------------------------------------------------------
\* A login adds a row that nobody has seen.
LEMMA LoginRows ==
    ASSUME RowInv, NEW b \in Tabs, NEW t \in Tokens, Login(b, t)
    PROVE  RowInv'
  <1>1. /\ token[t] = "unused" /\ token' = [token EXCEPT ![t] = "active"]
        /\ cookie' = t /\ tab' = [tab EXCEPT ![b] = "idle"] /\ logins' = logins + 1
        /\ UNCHANGED <<rowLock, call, old, new, client, sweep, todo, taken, older,
                       lost, aborted, ended>>
    BY DEF Login, Fresh, sweepVars
  <1>2. SessionsTypeOK'
    BY <1>1 DEF RowInv, SessionsTypeOK
  <1>3. \A q \in Tokens : q # t => token'[q] = token[q]
    BY <1>1 DEF RowInv, SessionsTypeOK
  <1>4. LocksHeld'
    BY <1>1, <1>3 DEF RowInv, LocksHeld
  <1>5. SweepCovers'
    BY <1>1, <1>3, <1>2 DEF RowInv, SessionsTypeOK, SweepCovers
  <1>6. Rotatable' \subseteq Rotatable \cup {t}
    BY <1>1, <1>3 DEF Rotatable, Active
  <1>7. logins' + aborted' = logins + aborted + 1
    BY <1>1 DEF RowInv, SessionsTypeOK
  <1>8. LiveBound'
    BY <1>2, <1>6, <1>7, LiveGrows
  <1> QED BY <1>2, <1>4, <1>5, <1>8 DEF RowInv

\* The lock of an active row.
LEMMA LockRows ==
    ASSUME RowInv, NEW c \in Calls, LockRow(c)
    PROVE  RowInv'
  <1>1. /\ call[c] = "sent" /\ rowLock[old[c]] = NoCall /\ old[c] \notin taken
        /\ token[old[c]] = "active"
        /\ rowLock' = [rowLock EXCEPT ![old[c]] = c]
        /\ call' = [call EXCEPT ![c] = "rotating"]
        /\ UNCHANGED <<token, old, new, client, cookie, tab, sweep, todo, taken, older,
                       logins, lost, aborted, ended>>
    BY DEF LockRow, CanRotate, Unlocked, browserVars, sweepVars, tallyVars
  <1>2. SessionsTypeOK'
    BY <1>1 DEF RowInv, SessionsTypeOK
  <1>3. old[c] \in Tokens
    BY <1>1 DEF RowInv, LocksHeld
  <1>4. /\ \A d \in Calls : d # c => call'[d] = call[d]
        /\ call'[c] = "rotating" /\ rowLock'[old[c]] = c
        /\ \A q \in Tokens : q # old[c] => rowLock'[q] = rowLock[q]
    BY <1>1, <1>3 DEF RowInv, SessionsTypeOK
  <1>5. \A q \in Tokens : rowLock[q] # NoCall => rowLock[q] \in Calls /\ rowLock[q] # c
    BY <1>1 DEF RowInv, SessionsTypeOK, LocksHeld, Rotating
  <1>6. LocksHeld'
    <2>1. ASSUME NEW d \in Calls, call'[d] \in Rotating
          PROVE  /\ old'[d] \in Tokens /\ rowLock'[old'[d]] = d
                 /\ token'[old'[d]] = "active" /\ old'[d] \notin taken'
      <3>1. CASE d = c
        BY <1>1, <1>3, <1>4, <3>1
      <3>2. CASE d # c
        BY <1>1, <1>4, <2>1, <3>2 DEF RowInv, LocksHeld
      <3> QED BY <3>1, <3>2
    <2>2. ASSUME NEW q \in Tokens, rowLock'[q] # NoCall
          PROVE  call'[rowLock'[q]] \in Rotating /\ old'[rowLock'[q]] = q
      <3>1. CASE q = old[c]
        BY <1>1, <1>4, <3>1 DEF Rotating
      <3>2. CASE q # old[c]
        BY <1>1, <1>4, <1>5, <2>2, <3>2 DEF RowInv, LocksHeld
      <3> QED BY <3>1, <3>2
    <2>3. ASSUME NEW d \in Calls, call'[d] = "sent" PROVE old'[d] \in Tokens
      BY <1>1, <1>4, <2>3 DEF RowInv, LocksHeld
    <2> QED BY <2>1, <2>2, <2>3 DEF LocksHeld
  <1>7. SweepCovers'
    BY <1>1 DEF RowInv, SweepCovers
  <1>8. Rotatable' \subseteq Rotatable
    BY <1>1, <1>4, <1>5 DEF Rotatable, Active
  <1>9. LiveBound'
    BY <1>1, <1>8, LiveShrinks
  <1> QED BY <1>2, <1>6, <1>7, <1>9 DEF RowInv

\* The row a rotation issues takes the place of the one it holds.
LEMMA IssueRows ==
    ASSUME RowInv, NEW c \in Calls, NEW t \in Tokens, Issue(c, t)
    PROVE  RowInv'
  <1>1. /\ call[c] = "rotating" /\ token[t] = "unused"
        /\ token' = [token EXCEPT ![t] = "active"]
        /\ new' = [new EXCEPT ![c] = t]
        /\ call' = [call EXCEPT ![c] = "issued"]
        /\ UNCHANGED <<rowLock, old, client, cookie, tab, sweep, todo, taken, older,
                       logins, lost, aborted, ended>>
    BY DEF Issue, Fresh, browserVars, sweepVars, tallyVars
  <1>2. SessionsTypeOK'
    BY <1>1 DEF RowInv, SessionsTypeOK
  <1>3. /\ old[c] \in Tokens /\ rowLock[old[c]] = c /\ token[old[c]] = "active"
    BY <1>1 DEF RowInv, LocksHeld, Rotating
  <1>4. /\ \A d \in Calls : d # c => call'[d] = call[d]
        /\ call'[c] = "issued"
        /\ \A q \in Tokens : q # t => token'[q] = token[q]
    BY <1>1 DEF RowInv, SessionsTypeOK
  <1>5. \A q \in Tokens : rowLock[q] # NoCall => rowLock[q] \in Calls
    BY DEF RowInv, SessionsTypeOK
  <1>6. LocksHeld'
    <2>1. ASSUME NEW d \in Calls, call'[d] \in Rotating
          PROVE  /\ old'[d] \in Tokens /\ rowLock'[old'[d]] = d
                 /\ token'[old'[d]] = "active" /\ old'[d] \notin taken'
      <3>1. call[d] \in Rotating
        BY <1>1, <1>4, <2>1 DEF Rotating
      <3> QED BY <1>1, <1>4, <3>1 DEF RowInv, LocksHeld
    <2>2. ASSUME NEW q \in Tokens, rowLock'[q] # NoCall
          PROVE  call'[rowLock'[q]] \in Rotating /\ old'[rowLock'[q]] = q
      <3>1. call[rowLock[q]] \in Rotating /\ old[rowLock[q]] = q /\ rowLock[q] \in Calls
        BY <1>1, <1>5, <2>2 DEF RowInv, LocksHeld
      <3> QED BY <1>1, <1>4, <3>1 DEF Rotating
    <2>3. ASSUME NEW d \in Calls, call'[d] = "sent" PROVE old'[d] \in Tokens
      BY <1>1, <1>4, <2>3 DEF RowInv, LocksHeld
    <2> QED BY <2>1, <2>2, <2>3 DEF LocksHeld
  <1>7. SweepCovers'
    BY <1>1, <1>4 DEF RowInv, SessionsTypeOK, SweepCovers
  <1>8. old[c] \in Rotatable
    BY <1>1, <1>3 DEF Rotatable, Active
  <1>9. Rotatable' \subseteq (Rotatable \ {old[c]}) \cup {t}
    <2> SUFFICES ASSUME NEW q \in Rotatable', q # t PROVE q \in Rotatable /\ q # old[c]
      OBVIOUS
    <2>1. q \in Tokens /\ token[q] = "active" /\ (rowLock[q] = NoCall \/ call'[rowLock[q]] # "issued")
      BY <1>1, <1>4 DEF Rotatable, Active
    <2>2. q # old[c]
      BY <1>3, <1>4, <2>1
    <2>3. rowLock[q] = NoCall \/ call[rowLock[q]] # "issued"
      BY <1>4, <1>5, <2>1
    <2> QED BY <2>1, <2>2, <2>3 DEF Rotatable, Active
  <1>10. LiveBound'
    <2>1. Rotatable \subseteq Tokens /\ Rotatable' \subseteq Tokens
      BY DEF Rotatable, Active
    <2>2. Cardinality(Rotatable') <= Cardinality(Rotatable)
      BY <1>8, <1>9, <2>1, ReplacedLive
    <2>3. Cardinality(Rotatable) \in Nat /\ Cardinality(Rotatable') \in Nat
      BY <2>1, LiveIsFinite
    <2>4. Cardinality(Rotatable) <= logins + aborted /\ logins \in Nat /\ aborted \in Nat
      BY DEF RowInv, LiveBound, SessionsTypeOK
    <2>5. Cardinality(Rotatable') <= logins' + aborted'
      BY <1>1, <2>2, <2>3, <2>4
    <2> QED BY <2>5 DEF LiveBound
  <1> QED BY <1>2, <1>6, <1>7, <1>10 DEF RowInv

\* The end of a rotation frees its row, which is revoked or lives on.
LEMMA RotationEnds ==
    ASSUME RowInv, SessionsTypeOK', NEW c \in Calls, call[c] \in Rotating,
           rowLock' = [rowLock EXCEPT ![old[c]] = NoCall],
           call'[c] \notin Rotating, call'[c] # "sent",
           \A d \in Calls : d # c => call'[d] = call[d],
           \A q \in Tokens : q # old[c] => token'[q] = token[q],
           token'[old[c]] # "unused",
           UNCHANGED <<old, todo, taken, sweep, older>>,
           token'[old[c]] = "active" => token[old[c]] = "active"
    PROVE  LocksHeld' /\ SweepCovers' /\ Rotatable' \subseteq Rotatable \cup {old[c]}
  <1>1. old[c] \in Tokens /\ rowLock[old[c]] = c
    BY DEF RowInv, LocksHeld
  <1>2. /\ rowLock'[old[c]] = NoCall
        /\ \A q \in Tokens : q # old[c] => rowLock'[q] = rowLock[q]
    BY <1>1 DEF RowInv, SessionsTypeOK
  <1>3. \A q \in Tokens : rowLock[q] # NoCall /\ q # old[c] =>
                              rowLock[q] \in Calls /\ rowLock[q] # c
    BY DEF RowInv, SessionsTypeOK, LocksHeld
  <1>4. LocksHeld'
    <2>1. ASSUME NEW d \in Calls, call'[d] \in Rotating
          PROVE  /\ old'[d] \in Tokens /\ rowLock'[old'[d]] = d
                 /\ token'[old'[d]] = "active" /\ old'[d] \notin taken'
      <3>1. d # c /\ call[d] \in Rotating
        BY <2>1
      <3>2. /\ old[d] \in Tokens /\ rowLock[old[d]] = d
            /\ token[old[d]] = "active" /\ old[d] \notin taken
        BY <3>1 DEF RowInv, LocksHeld
      <3>3. old[d] # old[c]
        BY <1>1, <3>1, <3>2
      <3> QED BY <1>2, <3>2, <3>3
    <2>2. ASSUME NEW q \in Tokens, rowLock'[q] # NoCall
          PROVE  call'[rowLock'[q]] \in Rotating /\ old'[rowLock'[q]] = q
      <3>1. q # old[c] /\ rowLock'[q] = rowLock[q]
        BY <1>2, <2>2
      <3>2. rowLock[q] \in Calls /\ rowLock[q] # c
        BY <1>3, <2>2, <3>1
      <3> QED BY <2>2, <3>1, <3>2 DEF RowInv, LocksHeld
    <2>3. ASSUME NEW d \in Calls, call'[d] = "sent" PROVE old'[d] \in Tokens
      BY <2>3 DEF RowInv, LocksHeld
    <2> QED BY <2>1, <2>2, <2>3 DEF LocksHeld
  <1>5. SweepCovers'
    BY DEF RowInv, SessionsTypeOK, SweepCovers
  <1>6. Rotatable' \subseteq Rotatable \cup {old[c]}
    BY <1>2, <1>3 DEF Rotatable, Active
  <1> QED BY <1>4, <1>5, <1>6

\* COMMIT revokes the row the rotation held.
LEMMA CommitRows ==
    ASSUME RowInv, NEW c \in Calls, CommitRotation(c)
    PROVE  RowInv'
  <1>1. /\ call[c] = "issued"
        /\ token' = [token EXCEPT ![old[c]] = "revoked"]
        /\ rowLock' = [rowLock EXCEPT ![old[c]] = NoCall]
        /\ call' = [call EXCEPT ![c] = "done"]
        /\ UNCHANGED <<old, new, client, cookie, tab, sweep, todo, taken, older,
                       logins, lost, aborted, ended>>
    BY DEF CommitRotation, browserVars, sweepVars, tallyVars
  <1>2. SessionsTypeOK'
    BY <1>1 DEF RowInv, SessionsTypeOK
  <1>3. call[c] \in Rotating /\ old[c] \in Tokens
    BY <1>1 DEF RowInv, LocksHeld, Rotating
  <1>4. /\ call'[c] = "done" /\ \A d \in Calls : d # c => call'[d] = call[d]
        /\ token'[old[c]] = "revoked"
        /\ \A q \in Tokens : q # old[c] => token'[q] = token[q]
    BY <1>1, <1>3 DEF RowInv, SessionsTypeOK
  <1>5. call'[c] \notin Rotating /\ call'[c] # "sent"
    BY <1>4 DEF Rotating
  <1>6. LocksHeld' /\ SweepCovers' /\ Rotatable' \subseteq Rotatable \cup {old[c]}
    BY <1>1, <1>2, <1>3, <1>4, <1>5, RotationEnds
  <1>7. Rotatable' \subseteq Rotatable
    BY <1>4, <1>6 DEF Rotatable, Active
  <1>8. LiveBound'
    BY <1>1, <1>7, LiveShrinks
  <1> QED BY <1>2, <1>6, <1>8 DEF RowInv

\* A rollback leaves it alive, and the row that was issued too.
LEMMA AbortRows ==
    ASSUME RowInv, NEW c \in Calls, AbortRotation(c)
    PROVE  RowInv'
  <1>1. /\ call[c] \in Rotating /\ aborted' = aborted + 1
        /\ rowLock' = [rowLock EXCEPT ![old[c]] = NoCall]
        /\ call' = [call EXCEPT ![c] = "refused"]
        /\ UNCHANGED <<token, old, new, client, cookie, tab, sweep, todo, taken, older,
                       logins, lost, ended>>
    BY DEF AbortRotation, browserVars, sweepVars, Rotating
  <1>2. SessionsTypeOK'
    <2>1. aborted' \in Nat
      BY <1>1 DEF RowInv, SessionsTypeOK
    <2>2. call' \in [Calls -> {"free", "sent", "rotating", "issued", "done", "refused"}]
      BY <1>1 DEF RowInv, SessionsTypeOK
    <2>3. rowLock' \in [Tokens -> Calls \cup {NoCall}]
      BY <1>1 DEF RowInv, SessionsTypeOK
    <2> QED BY <1>1, <2>1, <2>2, <2>3 DEF RowInv, SessionsTypeOK
  <1>3. old[c] \in Tokens /\ token[old[c]] = "active"
    BY <1>1 DEF RowInv, LocksHeld
  <1>4. call'[c] = "refused" /\ \A d \in Calls : d # c => call'[d] = call[d]
    BY <1>1 DEF RowInv, SessionsTypeOK
  <1>5. call'[c] \notin Rotating /\ call'[c] # "sent"
    BY <1>4 DEF Rotating
  <1>6. LocksHeld' /\ SweepCovers' /\ Rotatable' \subseteq Rotatable \cup {old[c]}
    BY <1>1, <1>2, <1>3, <1>4, <1>5, RotationEnds
  <1>7. logins' + aborted' = logins + aborted + 1
    BY <1>1 DEF RowInv, SessionsTypeOK
  <1>8. LiveBound'
    BY <1>2, <1>3, <1>6, <1>7, LiveGrows
  <1> QED BY <1>2, <1>6, <1>8 DEF RowInv

\* A logout revokes one row that no rotation holds.
LEMMA LogoutRows ==
    ASSUME RowInv, NEW b \in Tabs, Logout(b)
    PROVE  RowInv'
  <1>1. /\ cookie # NoToken /\ rowLock[cookie] = NoCall
        /\ token' = [token EXCEPT ![cookie] = "revoked"]
        /\ cookie' = NoToken /\ ended' = TRUE
        /\ tab' = [tab EXCEPT ![b] = "cleared"]
        /\ UNCHANGED <<rowLock, call, old, new, client, sweep, todo, taken, older,
                       logins, lost, aborted>>
    BY DEF Logout, Unlocked, sweepVars
  <1>2. cookie \in Tokens
    BY <1>1 DEF RowInv, SessionsTypeOK
  <1>3. SessionsTypeOK'
    BY <1>1 DEF RowInv, SessionsTypeOK
  <1>4. /\ token'[cookie] = "revoked"
        /\ \A q \in Tokens : q # cookie => token'[q] = token[q]
    BY <1>1, <1>2 DEF RowInv, SessionsTypeOK
  <1>5. LocksHeld'
    BY <1>1, <1>4 DEF RowInv, LocksHeld
  <1>6. SweepCovers'
    BY <1>1, <1>4 DEF RowInv, SessionsTypeOK, SweepCovers
  <1>7. Rotatable' \subseteq Rotatable
    BY <1>1, <1>4 DEF Rotatable, Active
  <1>8. LiveBound'
    BY <1>1, <1>7, LiveShrinks
  <1> QED BY <1>3, <1>5, <1>6, <1>8 DEF RowInv

\* A sweep starts with everything that is active.
LEMMA BeginRows ==
    ASSUME RowInv, BeginSweep
    PROVE  RowInv'
  <1>1. /\ ~ sweep /\ sweep' = TRUE /\ todo' = Active /\ taken' = {}
        /\ older' = older \cup Active /\ ended' = TRUE
        /\ UNCHANGED <<token, rowLock, call, old, new, client, cookie, tab,
                       logins, lost, aborted>>
    BY DEF BeginSweep, apiVars, browserVars
  <1>2. Active \subseteq Tokens /\ \A t \in Active : token[t] = "active"
    BY DEF Active
  <1>3. SessionsTypeOK'
    BY <1>1, <1>2 DEF RowInv, SessionsTypeOK
  <1>4. LocksHeld'
    BY <1>1 DEF RowInv, LocksHeld
  <1>5. SweepCovers'
    BY <1>1, <1>2 DEF RowInv, SweepCovers
  <1>6. Rotatable' \subseteq Rotatable
    BY <1>1 DEF Rotatable, Active
  <1>7. LiveBound'
    BY <1>1, <1>6, LiveShrinks
  <1> QED BY <1>3, <1>4, <1>5, <1>7 DEF RowInv

\* It waits for the lock of a row, and takes it when it is still active.
LEMMA SweepRows ==
    ASSUME RowInv, NEW t \in Tokens, SweepRow(t)
    PROVE  RowInv'
  <1>1. /\ t \in todo /\ rowLock[t] = NoCall /\ todo' = todo \ {t}
        /\ taken' = IF token[t] = "active" /\ rowLock[t] = NoCall
                    THEN taken \cup {t} ELSE taken
        /\ UNCHANGED <<token, rowLock, call, old, new, client, cookie, tab, sweep, older,
                       logins, lost, aborted, ended>>
    BY DEF SweepRow, RowFree, apiVars, browserVars, tallyVars
  <1>2. taken \subseteq taken' /\ taken' \subseteq taken \cup {t}
        /\ (token[t] = "active" => t \in taken')
    BY <1>1
  <1>3. SessionsTypeOK'
    BY <1>1, <1>2 DEF RowInv, SessionsTypeOK
  <1>4. \A c \in Calls : call[c] \in Rotating => old[c] # t
    BY <1>1 DEF RowInv, LocksHeld
  <1>5. LocksHeld'
    BY <1>1, <1>2, <1>4 DEF RowInv, LocksHeld
  <1>6. SweepCovers'
    BY <1>1, <1>2 DEF RowInv, SweepCovers
  <1>7. Rotatable' \subseteq Rotatable
    BY <1>1 DEF Rotatable, Active
  <1>8. LiveBound'
    BY <1>1, <1>7, LiveShrinks
  <1> QED BY <1>3, <1>5, <1>6, <1>8 DEF RowInv

\* Its commit revokes what it took.
LEMMA EndRows ==
    ASSUME RowInv, EndSweep
    PROVE  RowInv'
  <1>1. /\ sweep /\ todo = {} /\ sweep' = FALSE /\ taken' = {}
        /\ token' = [t \in Tokens |-> IF t \in taken THEN "revoked" ELSE token[t]]
        /\ UNCHANGED <<rowLock, call, old, new, client, cookie, tab, todo, older,
                       logins, lost, aborted, ended>>
    BY DEF EndSweep, browserVars, tallyVars
  <1>2. SessionsTypeOK'
    BY <1>1 DEF RowInv, SessionsTypeOK
  <1>3. LocksHeld'
    BY <1>1 DEF RowInv, LocksHeld
  <1>4. SweepCovers'
    BY <1>1 DEF RowInv, SessionsTypeOK, SweepCovers
  <1>5. Rotatable' \subseteq Rotatable
    BY <1>1 DEF Rotatable, Active
  <1>6. LiveBound'
    BY <1>1, <1>5, LiveShrinks
  <1> QED BY <1>2, <1>3, <1>4, <1>6 DEF RowInv

-----------------------------------------------------------------------------
\* A request is posted with the cookie of the jar.
LEMMA PostRows ==
    ASSUME RowInv, NEW b \in Tabs, NEW c \in Calls, Post(b, c)
    PROVE  RowInv'
  <1>1. /\ call[c] = "free" /\ cookie # NoToken
        /\ call' = [call EXCEPT ![c] = "sent"]
        /\ old' = [old EXCEPT ![c] = cookie]
        /\ client' = [client EXCEPT ![c] = b]
        /\ tab' = [tab EXCEPT ![b] = "posting"]
        /\ UNCHANGED <<token, rowLock, new, cookie, sweepVars, logins, lost, aborted, ended>>
    BY DEF Post, tallyVars
  <1>2. SessionsTypeOK'
    BY <1>1 DEF RowInv, SessionsTypeOK, sweepVars
  <1>3. /\ call'[c] = "sent" /\ old'[c] = cookie /\ cookie \in Tokens
        /\ \A d \in Calls : d # c => call'[d] = call[d] /\ old'[d] = old[d]
    BY <1>1 DEF RowInv, SessionsTypeOK
  <1>4. \A d \in Calls : call[d] \in Rotating \/ call'[d] \in Rotating =>
                             call'[d] = call[d] /\ old'[d] = old[d]
    BY <1>1, <1>3 DEF Rotating
  <1>5. \A d \in Calls : call'[d] = "sent" => old'[d] \in Tokens
    BY <1>3 DEF RowInv, LocksHeld
  <1> QED BY <1>1, <1>2, <1>4, <1>5, RowsFrame

\* Nor does the end of a request touch a row.
LEMMA ReleaseRows ==
    ASSUME RowInv, NEW c \in Calls, call[c] \in {"done", "refused"}, Release(c),
           client' \in [Calls -> Tabs \cup {NoTab}],
           cookie' \in Tokens \cup {NoToken},
           tab' \in [Tabs -> {"idle", "waiting", "posting", "cleared"}],
           UNCHANGED <<sweepVars, tallyVars>>
    PROVE  RowInv'
  <1>1. /\ call' = [call EXCEPT ![c] = "free"]
        /\ old' = [old EXCEPT ![c] = NoToken]
        /\ new' = [new EXCEPT ![c] = NoToken]
        /\ UNCHANGED <<token, rowLock, logins, lost, aborted, ended>>
    BY DEF Release, tallyVars
  <1>2. SessionsTypeOK'
    BY <1>1 DEF RowInv, SessionsTypeOK, sweepVars
  <1>3. /\ call'[c] = "free"
        /\ \A d \in Calls : d # c => call'[d] = call[d] /\ old'[d] = old[d]
    BY <1>1 DEF RowInv, SessionsTypeOK
  <1>4. \A d \in Calls : call[d] \in Rotating \/ call'[d] \in Rotating =>
                             call'[d] = call[d] /\ old'[d] = old[d]
    BY <1>3 DEF Rotating
  <1>5. \A d \in Calls : call'[d] = "sent" => old'[d] \in Tokens
    BY <1>3 DEF RowInv, LocksHeld
  <1> QED BY <1>1, <1>2, <1>4, <1>5, RowsFrame

\* What only the browser does, and a refusal.
LEMMA OtherRows ==
    ASSUME RowInv, SessionsTypeOK',
           UNCHANGED <<token, rowLock, old, sweepVars, logins, aborted>>,
           \A c \in Calls : call'[c] = call[c]
                            \/ (call[c] = "sent" /\ call'[c] = "refused")
    PROVE  RowInv'
  <1>1. \A c \in Calls : call[c] \in Rotating \/ call'[c] \in Rotating =>
                             call'[c] = call[c] /\ old'[c] = old[c]
    BY DEF Rotating
  <1>2. \A c \in Calls : call'[c] = "sent" => old'[c] \in Tokens
    BY DEF RowInv, LocksHeld
  <1> QED BY <1>1, <1>2, RowsFrame

\* Every step of a tab.
LEMMA TabRows ==
    ASSUME RowInv, NEW b \in Tabs,
           \/ \E t \in Tokens : Login(b, t)
           \/ Expired(b) \/ GiveUp(b) \/ Logout(b)
           \/ \E c \in Calls : PostRefresh(b, c) \/ PostAgain(b, c)
    PROVE  RowInv'
  <1>1. ASSUME NEW t \in Tokens, Login(b, t) PROVE RowInv'
    BY <1>1, LoginRows
  <1>2. CASE Expired(b)
    <2>1. /\ tab' = [tab EXCEPT ![b] = "waiting"]
          /\ UNCHANGED <<token, rowLock, call, old, new, client, cookie, sweepVars,
                         logins, lost, aborted, ended>>
      BY <1>2 DEF Expired, apiVars, tallyVars
    <2>2. SessionsTypeOK'
      BY <2>1 DEF RowInv, SessionsTypeOK, sweepVars
    <2> QED BY <2>1, <2>2, OtherRows
  <1>3. CASE GiveUp(b)
    <2>1. /\ tab' = [tab EXCEPT ![b] = "cleared"]
          /\ UNCHANGED <<token, rowLock, call, old, new, client, cookie, sweepVars,
                         logins, lost, aborted, ended>>
      BY <1>3 DEF GiveUp, apiVars, tallyVars
    <2>2. SessionsTypeOK'
      BY <2>1 DEF RowInv, SessionsTypeOK, sweepVars
    <2> QED BY <2>1, <2>2, OtherRows
  <1>4. CASE Logout(b)
    BY <1>4, LogoutRows
  <1>5. ASSUME NEW c \in Calls, PostRefresh(b, c) \/ PostAgain(b, c) PROVE RowInv'
    BY <1>5, PostRows DEF PostRefresh, PostAgain
  <1> QED BY <1>1, <1>2, <1>3, <1>4, <1>5

\* Every step of a request.
LEMMA CallRows ==
    ASSUME RowInv, NEW c \in Calls,
           \/ LockRow(c) \/ RefuseReuse(c) \/ CommitRotation(c) \/ AbortRotation(c)
           \/ \E t \in Tokens : Issue(c, t)
           \/ Deliver(c) \/ Lose(c) \/ Discard(c)
    PROVE  RowInv'
  <1>1. CASE RefuseReuse(c)
    <2>1. /\ call[c] = "sent" /\ call' = [call EXCEPT ![c] = "refused"]
          /\ UNCHANGED <<token, rowLock, old, new, client, cookie, tab, sweepVars,
                         logins, lost, aborted, ended>>
      BY <1>1 DEF RefuseReuse, browserVars, tallyVars
    <2>2. SessionsTypeOK'
      BY <2>1 DEF RowInv, SessionsTypeOK, sweepVars
    <2>3. \A d \in Calls : call'[d] = call[d] \/ (call[d] = "sent" /\ call'[d] = "refused")
      BY <2>1 DEF RowInv, SessionsTypeOK
    <2> QED BY <2>1, <2>2, <2>3, OtherRows
  <1>2. ASSUME NEW t \in Tokens, Issue(c, t) PROVE RowInv'
    BY <1>2, IssueRows
  <1>3. CASE Deliver(c)
    <2>1. client[c] \in Tabs /\ new[c] \in Tokens \cup {NoToken}
      BY <1>3 DEF Deliver, RowInv, SessionsTypeOK
    <2>2. client' \in [Calls -> Tabs \cup {NoTab}]
      BY <1>3 DEF Deliver, RowInv, SessionsTypeOK
    <2>3. cookie' \in Tokens \cup {NoToken}
      BY <1>3, <2>1 DEF Deliver, RowInv, SessionsTypeOK
    <2>4. tab' \in [Tabs -> {"idle", "waiting", "posting", "cleared"}]
      BY <1>3, <2>1 DEF Deliver, RowInv, SessionsTypeOK
    <2>5. call[c] \in {"done", "refused"} /\ Release(c) /\ UNCHANGED <<sweepVars, tallyVars>>
      BY <1>3 DEF Deliver
    <2> QED BY <2>2, <2>3, <2>4, <2>5, ReleaseRows
  <1>4. CASE Lose(c)
    <2>1. /\ lost' = lost + 1 /\ client' = [client EXCEPT ![c] = NoTab]
          /\ UNCHANGED <<token, rowLock, call, old, new, cookie, tab, sweepVars,
                         logins, aborted, ended>>
      BY <1>4 DEF Lose, apiVars
    <2>2. SessionsTypeOK'
      <3>1. lost' \in Nat
        BY <2>1 DEF RowInv, SessionsTypeOK
      <3> QED BY <2>1, <3>1 DEF RowInv, SessionsTypeOK, sweepVars
    <2> QED BY <2>1, <2>2, OtherRows
  <1>5. CASE Discard(c)
    <2>1. /\ call[c] \in {"done", "refused"} /\ Release(c)
          /\ UNCHANGED <<client, cookie, tab, sweepVars, tallyVars>>
      BY <1>5 DEF Discard, browserVars
    <2> QED BY <2>1, ReleaseRows DEF RowInv, SessionsTypeOK
  <1> QED BY <1>1, <1>2, <1>3, <1>4, <1>5, LockRows, CommitRows, AbortRows

\* Nothing moves.
LEMMA StillRows ==
    ASSUME RowInv, UNCHANGED sessionVars
    PROVE  RowInv'
  <1>1. UNCHANGED <<token, rowLock, call, old, new, client, cookie, tab, sweepVars,
                    logins, lost, aborted, ended>>
    BY DEF sessionVars, apiVars, browserVars, tallyVars
  <1>2. SessionsTypeOK'
    BY <1>1 DEF RowInv, SessionsTypeOK, sweepVars
  <1> QED BY <1>1, <1>2, OtherRows

\* Every step keeps the rows as they should be.
LEMMA RowsStep ==
    ASSUME RowInv, [SessionsNext]_sessionVars
    PROVE  RowInv'
  <1>1. ASSUME NEW t \in Tokens, SweepRow(t) PROVE RowInv'
    BY <1>1, SweepRows
  <1> QED BY <1>1, TabRows, CallRows, BeginRows, EndRows, StillRows DEF SessionsNext

\* One login, one row.
LEMMA RowsInit == SessionsInit => RowInv
  <1> SUFFICES ASSUME SessionsInit PROVE RowInv
    OBVIOUS
  <1>1. 1 \in Tokens
    BY DEF Tokens
  <1>2. SessionsTypeOK
    BY <1>1 DEF SessionsInit, SessionsTypeOK
  <1>3. LocksHeld /\ SweepCovers
    BY DEF SessionsInit, LocksHeld, SweepCovers, Rotating
  <1>4. Rotatable \subseteq {1}
    BY DEF SessionsInit, Rotatable, Active
  <1>5. Cardinality({1}) = 1
    BY FS_Singleton
  <1>6. Cardinality(Rotatable) <= 1
    BY <1>1, <1>4, <1>5, FewerLive
  <1>7. LiveBound
    BY <1>6 DEF SessionsInit, LiveBound
  <1> QED BY <1>2, <1>3, <1>7 DEF RowInv

\* What was active when a password changed is dead once the sweep is over: the
\* UPDATE waits for the rows that rotations hold, and a row that has left the
\* active ones never comes back.
THEOREM SweptIsDead == SessionsSpec => []OlderTokensDead
  <1>1. RowInv => OlderTokensDead
    BY DEF RowInv, SweepCovers, OlderTokensDead
  <1> QED BY <1>1, RowsInit, RowsStep, PTL DEF SessionsSpec

\* A login leaves at most one token that can be rotated, however many rotations
\* race: FOR UPDATE lets one of them at a time past the check that a token is
\* active, and what it issues replaces the row it holds.
THEOREM OneTokenPerLogin == SessionsSpec => []OneLiveToken
  <1>1. ASSUME RowInv PROVE OneLiveToken
    <2> DEFINE rotatable == {t \in Active : Unlocked(t)}
    <2>1. rotatable \subseteq Rotatable /\ Rotatable \subseteq Tokens
      BY DEF Rotatable, Active, Unlocked
    <2>2. Cardinality(rotatable) <= Cardinality(Rotatable)
      BY <2>1, FewerLive
    <2>3. Cardinality(Rotatable) \in Nat /\ Cardinality(rotatable) \in Nat
      BY <2>1, LiveIsFinite
    <2> HIDE DEF rotatable
    <2>4. Cardinality(Rotatable) <= logins + aborted /\ logins \in Nat /\ aborted \in Nat
      BY <1>1 DEF RowInv, LiveBound, SessionsTypeOK
    <2>5. Cardinality(rotatable) <= logins + aborted
      BY <2>2, <2>3, <2>4
    <2> QED BY <2>5 DEF rotatable, OneLiveToken
  <1> QED BY <1>1, RowsInit, RowsStep, PTL DEF SessionsSpec

-----------------------------------------------------------------------------
\* A browser that is refreshing shows nobody the door.
LEMMA QuietTabs ==
    ASSUME RowInv, Refreshing, Quiet, NEW b \in Tabs
    PROVE  ~ GiveUp(b)
  <1>1. tab[b] # "cleared" /\ cookie # NoToken
    BY DEF Refreshing, Tokens, NoToken
  <1>2. tab[b] = "posting" => \E c \in Calls : client[c] = b
    BY DEF Refreshing
  <1> QED BY <1>1, <1>2 DEF GiveUp

\* Nor is a call refused, or its connection lost.
LEMMA QuietCalls ==
    ASSUME RowInv, Refreshing, Quiet, NEW c \in Calls
    PROVE  ~ RefuseReuse(c) /\ ~ Discard(c)
  <1>1. call[c] = "sent" => token[old[c]] = "active"
    BY DEF Refreshing
  <1>2. call[c] # "free" => client[c] # NoTab
    BY DEF Refreshing
  <1>3. ~ RefuseReuse(c)
    BY <1>1 DEF RefuseReuse
  <1>4. ~ Discard(c)
    BY <1>2 DEF Discard
  <1> QED BY <1>3, <1>4

\* A challenge leaves the call under way its token, and puts a good one in the jar.
LEMMA LoginQuiet ==
    ASSUME RowInv, Refreshing, NEW b \in Tabs, NEW t \in Tokens, Login(b, t)
    PROVE  Refreshing'
  <1>1. /\ tab[b] = "idle" /\ token[t] = "unused"
        /\ token' = [token EXCEPT ![t] = "active"] /\ cookie' = t
        /\ tab' = [tab EXCEPT ![b] = "idle"]
        /\ UNCHANGED <<call, old, new, client, sweep>>
    BY DEF Login, Fresh, Refreshing, sweepVars
  <1>2. tab' = tab
    BY <1>1 DEF RowInv, SessionsTypeOK
  <1>3. /\ token'[t] = "active"
        /\ \A q \in Tokens : token[q] = "active" => token'[q] = "active"
    BY <1>1 DEF RowInv, SessionsTypeOK
  <1> QED BY <1>1, <1>2, <1>3 DEF Refreshing, Rotating

\* A tab posts when no other does and nothing is under way.
LEMMA PostQuiet ==
    ASSUME RowInv, Refreshing, Quiet, NEW b \in Tabs, NEW c \in Calls,
           PostRefresh(b, c) \/ PostAgain(b, c)
    PROVE  Refreshing'
  <1>1. ~ PostAgain(b, c)
    BY DEF PostAgain, Refreshing
  <1>2. /\ tab[b] = "waiting" /\ \A o \in Tabs \ {b} : tab[o] # "posting"
        /\ call[c] = "free"
    BY <1>1 DEF PostRefresh, MayPost, Quiet, Post
  <1>3. \A o \in Tabs : tab[o] # "posting"
    BY <1>2
  <1>4. \A d \in Calls : client[d] = NoTab /\ call[d] = "free"
    BY <1>3 DEF RowInv, SessionsTypeOK, Refreshing
  <1>5. /\ call' = [call EXCEPT ![c] = "sent"]
        /\ old' = [old EXCEPT ![c] = cookie]
        /\ client' = [client EXCEPT ![c] = b]
        /\ tab' = [tab EXCEPT ![b] = "posting"]
        /\ UNCHANGED <<token, new, cookie, sweep>>
    BY <1>1 DEF PostRefresh, Post, sweepVars
  <1>6. /\ call'[c] = "sent" /\ old'[c] = cookie /\ client'[c] = b
        /\ \A d \in Calls : d # c => call'[d] = "free" /\ client'[d] = NoTab
        /\ tab'[b] = "posting" /\ \A o \in Tabs : o # b => tab'[o] = tab[o]
    BY <1>4, <1>5 DEF RowInv, SessionsTypeOK
  <1>7. token[cookie] = "active"
    BY <1>4 DEF Refreshing
  <1>8. cookie' \in Tokens /\ ~ sweep'
    BY <1>5 DEF Refreshing
  <1>9. \A o \in Tabs : tab'[o] # "cleared" /\ (tab'[o] = "posting" <=> o = b)
    BY <1>3, <1>6 DEF Refreshing
  <1> QED BY <1>5, <1>6, <1>7, <1>8, <1>9 DEF Refreshing, Rotating

\* A call that goes on in the API stays that of the tab that waits for it.
LEMMA ApiQuiet ==
    ASSUME RowInv, Refreshing, NEW c \in Calls,
           call[c] # "free", call'[c] \notin {"free", "refused"},
           \A d \in Calls : d # c => call'[d] = call[d],
           UNCHANGED <<old, client, cookie, tab, sweep>>,
           call'[c] # "sent",
           call'[c] \in {"issued", "done"} =>
               new'[c] \in Tokens /\ token'[new'[c]] = "active",
           call'[c] = "issued" => new'[c] # old[c],
           call'[c] # "done" => token'[cookie] = "active"
    PROVE  Refreshing'
  <1>1. \A d \in Calls : d # c => call[d] = "free"
    BY DEF Refreshing
  <1>2. \A d \in Calls : d # c => call'[d] = "free"
    BY <1>1
  <1>3. \A d \in Calls : call'[d] # "free" <=> client'[d] # NoTab
    BY <1>1, <1>2 DEF Refreshing
  <1> QED BY <1>1, <1>2, <1>3 DEF Refreshing, Rotating

\* The steps of a rotation.
LEMMA RotationQuiet ==
    ASSUME RowInv, Refreshing, Quiet, NEW c \in Calls,
           LockRow(c) \/ (\E t \in Tokens : Issue(c, t)) \/ CommitRotation(c)
    PROVE  Refreshing'
  <1>1. CASE LockRow(c)
    <2>1. /\ call[c] = "sent" /\ call' = [call EXCEPT ![c] = "rotating"]
          /\ token[old[c]] = "active"
          /\ UNCHANGED <<token, old, new, client, cookie, tab, sweep>>
      BY <1>1 DEF LockRow, CanRotate, browserVars, sweepVars
    <2>2. call'[c] = "rotating" /\ \A d \in Calls : d # c => call'[d] = call[d]
      BY <2>1 DEF RowInv, SessionsTypeOK
    <2>3. token[cookie] = "active"
      BY <2>1 DEF Refreshing
    <2> QED BY <2>1, <2>2, <2>3, ApiQuiet
  <1>2. ASSUME NEW t \in Tokens, Issue(c, t) PROVE Refreshing'
    <2>1. /\ call[c] = "rotating" /\ token[t] = "unused"
          /\ token' = [token EXCEPT ![t] = "active"]
          /\ new' = [new EXCEPT ![c] = t]
          /\ call' = [call EXCEPT ![c] = "issued"]
          /\ UNCHANGED <<old, client, cookie, tab, sweep>>
      BY <1>2 DEF Issue, Fresh, browserVars, sweepVars
    <2>2. call'[c] = "issued" /\ \A d \in Calls : d # c => call'[d] = call[d]
      BY <2>1 DEF RowInv, SessionsTypeOK
    <2>3. /\ cookie \in Tokens /\ token[cookie] = "active"
          /\ old[c] \in Tokens /\ token[old[c]] = "active"
      BY <2>1 DEF Refreshing, RowInv, LocksHeld, Rotating
    <2>4. new'[c] = t /\ token'[t] = "active" /\ t # old[c] /\ token'[cookie] = "active"
      BY <2>1, <2>3 DEF RowInv, SessionsTypeOK
    <2> QED BY <2>1, <2>2, <2>3, <2>4, ApiQuiet
  <1>3. CASE CommitRotation(c)
    <2>1. /\ call[c] = "issued" /\ token' = [token EXCEPT ![old[c]] = "revoked"]
          /\ call' = [call EXCEPT ![c] = "done"]
          /\ UNCHANGED <<old, new, client, cookie, tab, sweep>>
      BY <1>3 DEF CommitRotation, browserVars, sweepVars
    <2>2. call'[c] = "done" /\ \A d \in Calls : d # c => call'[d] = call[d]
      BY <2>1 DEF RowInv, SessionsTypeOK
    <2>3. new[c] \in Tokens /\ token[new[c]] = "active" /\ new[c] # old[c]
      BY <2>1 DEF Refreshing
    <2>4. token'[new[c]] = "active"
      BY <2>1, <2>3 DEF RowInv, SessionsTypeOK
    <2> QED BY <2>1, <2>2, <2>3, <2>4, ApiQuiet DEF Rotating
  <1> QED BY <1>1, <1>2, <1>3

\* The answer brings a cookie that is good, and frees the browser's lock.
LEMMA DeliverQuiet ==
    ASSUME RowInv, Refreshing, NEW c \in Calls, Deliver(c)
    PROVE  Refreshing'
  <1> DEFINE b == client[c]
  <1>1. call[c] = "done" /\ b \in Tabs
    BY DEF Deliver, Refreshing, RowInv, SessionsTypeOK
  <1>2. /\ cookie' = new[c] /\ tab' = [tab EXCEPT ![b] = "idle"]
        /\ client' = [client EXCEPT ![c] = NoTab]
        /\ call' = [call EXCEPT ![c] = "free"]
        /\ UNCHANGED <<token, sweep>>
    BY <1>1 DEF Deliver, Release, sweepVars
  <1>3. \A d \in Calls : d # c => call[d] = "free" /\ client[d] = NoTab
    BY <1>1 DEF Refreshing
  <1>4. \A d \in Calls : call'[d] = "free" /\ client'[d] = NoTab
    BY <1>2, <1>3 DEF RowInv, SessionsTypeOK
  <1>5. new[c] \in Tokens /\ token[new[c]] = "active" /\ tab[b] = "posting"
    BY <1>1 DEF Refreshing
  <1>6. /\ tab'[b] = "idle" /\ \A o \in Tabs : o # b => tab'[o] = tab[o]
    BY <1>1, <1>2 DEF RowInv, SessionsTypeOK
  <1>7. \A o \in Tabs : tab'[o] # "cleared" /\ tab'[o] # "posting"
    BY <1>1, <1>5, <1>6 DEF Refreshing
  <1>8. cookie' \in Tokens /\ token'[cookie'] = "active" /\ ~ sweep'
    BY <1>2, <1>5 DEF Refreshing
  <1> QED BY <1>4, <1>7, <1>8 DEF Refreshing, Rotating

\* Two counts that add up to nothing.
LEMMA NoneAtAll ==
    ASSUME NEW a \in Nat, NEW b \in Nat, a + b = 0
    PROVE  a = 0 /\ b = 0
  OBVIOUS

\* What is lost, rolled back or ended stays so.
LEMMA QuietBefore ==
    ASSUME RowInv, [SessionsNext]_sessionVars, Quiet'
    PROVE  /\ Quiet
           /\ \A b \in Tabs : ~ Logout(b)
           /\ \A c \in Calls : ~ Lose(c) /\ ~ AbortRotation(c)
           /\ ~ BeginSweep
  <1>1. lost \in Nat /\ aborted \in Nat
    BY DEF RowInv, SessionsTypeOK
  <1>2. lost' \in Nat /\ aborted' \in Nat
    BY RowsStep DEF RowInv, SessionsTypeOK
  <1>3. lost' = 0 /\ aborted' = 0 /\ ~ ended' /\ Locking
    <2>1. lost' + aborted' = 0
      BY Zenon DEF Quiet
    <2>2. Locking /\ ~ ended'
      BY Zenon DEF Quiet
    <2>3. lost' = 0 /\ aborted' = 0
      BY <1>2, <2>1, NoneAtAll, Zenon
    <2> QED BY <2>2, <2>3, Zenon
  <1>4. \A b \in Tabs : ~ Logout(b)
    BY <1>3 DEF Logout
  <1>5. ~ BeginSweep
    BY <1>3 DEF BeginSweep
  <1>6. \A c \in Calls : ~ Lose(c) /\ ~ AbortRotation(c)
    BY <1>1, <1>3 DEF Lose, AbortRotation
  <1>7. UNCHANGED <<lost, aborted, ended>>
    BY <1>4, <1>5, <1>6
       DEF SessionsNext, sessionVars, tallyVars, Login, Expired, GiveUp, PostRefresh, PostAgain,
           Post, LockRow, RefuseReuse, CommitRotation, Issue, Deliver, Discard, SweepRow,
           EndSweep
  <1>8. Quiet
    BY <1>3, <1>7 DEF Quiet
  <1> QED BY <1>4, <1>5, <1>6, <1>8

\* Every step of a browser in peace leaves it in peace.
LEMMA RefreshStep ==
    ASSUME RowInv, QuietRefresh, [SessionsNext]_sessionVars
    PROVE  QuietRefresh'
  <1> SUFFICES ASSUME Quiet' PROVE Refreshing'
    BY DEF QuietRefresh
  <1>1. Quiet /\ Refreshing
    BY QuietBefore DEF QuietRefresh
  <1>2. ASSUME NEW b \in Tabs, Expired(b) PROVE Refreshing'
    <2>1. /\ tab[b] = "idle" /\ tab' = [tab EXCEPT ![b] = "waiting"]
          /\ UNCHANGED <<token, call, old, new, client, cookie, sweep>>
      BY <1>2 DEF Expired, apiVars, sweepVars
    <2>2. tab'[b] = "waiting" /\ \A o \in Tabs : o # b => tab'[o] = tab[o]
      BY <2>1 DEF RowInv, SessionsTypeOK
    <2>3. \A c \in Calls : client[c] # NoTab => client[c] # b /\ client[c] \in Tabs
      BY <1>1, <2>1 DEF Refreshing, RowInv, SessionsTypeOK
    <2>4. \A c \in Calls : client'[c] # NoTab => tab'[client'[c]] = "posting"
      BY <1>1, <2>1, <2>2, <2>3 DEF Refreshing
    <2>5. \A o \in Tabs : tab'[o] = "posting" => tab[o] = "posting"
      BY <2>2
    <2>6. \A o \in Tabs : tab'[o] # "cleared"
      BY <1>1, <2>2 DEF Refreshing
    <2> QED BY <1>1, <2>1, <2>4, <2>5, <2>6 DEF Refreshing
  <1>3. ASSUME NEW t \in Tokens, SweepRow(t) PROVE Refreshing'
    BY <1>1, <1>3 DEF SweepRow, RowInv, SweepCovers, Refreshing
  <1>4. CASE EndSweep
    BY <1>1, <1>4 DEF EndSweep, Refreshing
  <1>5. CASE UNCHANGED sessionVars
    BY <1>1, <1>5 DEF sessionVars, apiVars, browserVars, sweepVars, Refreshing
  <1>6. ASSUME NEW b \in Tabs, NEW c \in Calls, PostRefresh(b, c) \/ PostAgain(b, c)
        PROVE  Refreshing'
    BY <1>1, <1>6, PostQuiet
  <1>7. ASSUME NEW c \in Calls,
               LockRow(c) \/ (\E t \in Tokens : Issue(c, t)) \/ CommitRotation(c)
        PROVE  Refreshing'
    BY <1>1, <1>7, RotationQuiet
  <1>8. ASSUME NEW c \in Calls, Deliver(c) PROVE Refreshing'
    BY <1>1, <1>8, DeliverQuiet
  <1>9. ASSUME NEW b \in Tabs, NEW t \in Tokens, Login(b, t) PROVE Refreshing'
    BY <1>1, <1>9, LoginQuiet
  <1>10. /\ \A b \in Tabs : ~ Logout(b) /\ ~ GiveUp(b)
         /\ \A c \in Calls : /\ ~ Lose(c) /\ ~ AbortRotation(c)
                             /\ ~ RefuseReuse(c) /\ ~ Discard(c)
         /\ ~ BeginSweep
    BY <1>1, QuietBefore, QuietTabs, QuietCalls
  <1> QED
    BY <1>2, <1>3, <1>4, <1>5, <1>6, <1>7, <1>8, <1>9, <1>10 DEF SessionsNext

\* The session begins in peace.
LEMMA RefreshInit == SessionsInit => QuietRefresh
  <1> SUFFICES ASSUME SessionsInit PROVE Refreshing
    BY DEF QuietRefresh
  <1>1. 1 \in Tokens
    BY DEF Tokens
  <1>2. \A b \in Tabs : tab[b] = "idle"
    BY DEF SessionsInit
  <1>3. \A c \in Calls : call[c] = "free" /\ client[c] = NoTab
    BY DEF SessionsInit
  <1>4. cookie = 1 /\ token[cookie] = "active" /\ ~ sweep
    BY <1>1 DEF SessionsInit
  <1> QED BY <1>1, <1>2, <1>3, <1>4 DEF Refreshing, Rotating

\* With navigator.locks no tab that refreshes is signed out while the session
\* lives and no connection is lost: one tab posts at a time, always a cookie
\* that is still active.
THEOREM TabsStaySignedIn == SessionsSpec => []TabsSurviveRotation
  <1> DEFINE inv == RowInv /\ QuietRefresh
  <1>1. SessionsInit => inv
    BY RowsInit, RefreshInit
  <1>2. inv /\ [SessionsNext]_sessionVars => inv'
    BY RowsStep, RefreshStep
  <1>3. ASSUME inv PROVE TabsSurviveRotation
    <2> SUFFICES ASSUME Locking, NEW b \in Tabs, tab[b] = "cleared",
                        ~ (lost + aborted > 0), ~ ended
                 PROVE  FALSE
      BY DEF TabsSurviveRotation
    <2>1. lost + aborted = 0
      BY <1>3 DEF RowInv, SessionsTypeOK
    <2>2. Quiet
      BY <2>1 DEF Quiet
    <2> QED BY <1>3, <2>2 DEF QuietRefresh, Refreshing
  <1> HIDE DEF inv
  <1>4. inv => TabsSurviveRotation
    BY <1>3
  <1> QED BY <1>1, <1>2, <1>4, PTL DEF SessionsSpec

HIDE SessionsAssumption

-----------------------------------------------------------------------------
\* Sign-in: passwords, backup codes, one-time passwords, links.
USE SignInAssumption

\* Logins under way whose count is too old to lock the account.
Behind == {a \in Attempts : seen[a] # NoSnapshot /\ seen[a] + 1 < Threshold}

PasswordTypeOK ==
    /\ failed \in Nat /\ guesses \in Nat
    /\ seen \in [Attempts -> Nat]

\* The counter covers the guesses; once it is at the threshold, only logins
\* that are behind can add one, each of them once.
LockoutInv ==
    /\ PasswordTypeOK
    /\ guesses <= failed
    /\ failed + 1 >= Threshold =>
           guesses + Cardinality(Behind) + 2 <= Threshold + Cardinality(Attempts)

\* Sets of logins are finite and no larger than that of all.
LEMMA BehindSize ==
    /\ IsFiniteSet(Behind) /\ Cardinality(Behind) \in Nat
    /\ Cardinality(Attempts) \in Nat
    /\ Cardinality(Behind) <= Cardinality(Attempts)
  <1>1. Behind \subseteq Attempts
    BY DEF Behind
  <1> QED BY <1>1, FS_Subset, FS_CardinalityType

\* A login that is not behind leaves room for one more guess.
LEMMA OthersBehind ==
    ASSUME NEW a \in Attempts, NEW S \in SUBSET Attempts, a \notin S
    PROVE  IsFiniteSet(S) /\ Cardinality(S) + 1 <= Cardinality(Attempts)
  <1>1. /\ IsFiniteSet(S) /\ S \subseteq Attempts \ {a}
        /\ IsFiniteSet(Attempts \ {a})
        /\ Cardinality(Attempts \ {a}) = Cardinality(Attempts) - 1
    BY FS_Subset, FS_RemoveElement
  <1>2. Cardinality(S) <= Cardinality(Attempts \ {a})
    BY <1>1, FS_Subset
  <1>3. Cardinality(S) \in Nat /\ Cardinality(Attempts) \in Nat
    BY <1>1, FS_CardinalityType
  <1> QED BY <1>1, <1>2, <1>3

\* An action that takes a login off the account's books only shrinks Behind.
LEMMA FewerBehind ==
    ASSUME NEW S \in SUBSET Behind
    PROVE  Cardinality(S) \in Nat /\ Cardinality(S) <= Cardinality(Behind)
  BY BehindSize, FS_Subset, FS_CardinalityType

\* A wrong password is counted, and may lock the account.
LEMMA WrongPasswordKeeps ==
    ASSUME LockoutInv, NEW a \in Attempts, WrongPassword(a)
    PROVE  LockoutInv'
  <1> DEFINE lock == seen[a] + 1 >= Threshold
  <1>1. /\ seen[a] # NoSnapshot /\ failed' = failed + 1
        /\ guesses' = IF lock THEN 0 ELSE guesses + 1
        /\ seen' = [seen EXCEPT ![a] = NoSnapshot]
    BY DEF WrongPassword, CountFailure
  <1>2. NoSnapshot \in Nat
    BY DEF NoSnapshot
  <1>3. PasswordTypeOK'
    BY <1>1, <1>2 DEF LockoutInv, PasswordTypeOK
  <1>4. guesses' <= failed'
    BY <1>1 DEF LockoutInv, PasswordTypeOK
  <1>5. Behind' = Behind \ {a}
    BY <1>1, <1>2 DEF Behind, NoSnapshot, LockoutInv, PasswordTypeOK
  <1>6. Cardinality(Behind') \in Nat /\ Cardinality(Behind') + 1 <= Cardinality(Attempts)
    <2>1. Behind' \in SUBSET Attempts /\ a \notin Behind'
      BY <1>5 DEF Behind
    <2>2. IsFiniteSet(Behind') /\ Cardinality(Behind') + 1 <= Cardinality(Attempts)
      BY <2>1, OthersBehind
    <2> QED BY <2>2, FS_CardinalityType
  <1>7. Cardinality(Attempts) \in Nat
    BY BehindSize
  <1>8. failed' + 1 >= Threshold =>
            guesses' + Cardinality(Behind') + 2 <= Threshold + Cardinality(Attempts)
    <2>1. CASE lock
      BY <2>1, <1>1, <1>6, <1>7
    <2>2. CASE ~ lock /\ failed + 1 < Threshold
      <3>1. guesses' = guesses + 1
        BY <2>2, <1>1
      <3>2. guesses <= failed /\ guesses \in Nat /\ failed \in Nat
        BY DEF LockoutInv, PasswordTypeOK
      <3> QED BY <3>1, <3>2, <2>2, <1>6, <1>7
    <2>3. CASE ~ lock /\ failed + 1 >= Threshold
      <3>1. a \in Behind
        BY <2>3, <1>1 DEF Behind, LockoutInv, PasswordTypeOK
      <3>2. Cardinality(Behind') = Cardinality(Behind) - 1
        BY <3>1, <1>5, BehindSize, FS_RemoveElement
      <3> QED BY <3>2, <2>3, <1>1, <1>6, <1>7, BehindSize DEF LockoutInv, PasswordTypeOK
    <2> QED BY <2>1, <2>2, <2>3 DEF LockoutInv, PasswordTypeOK
  <1> QED BY <1>3, <1>4, <1>8 DEF LockoutInv

\* Everything else leaves the counter alone or resets it, and takes in logins
\* with a count they have just read.
LEMMA OtherPasswordsKeep ==
    ASSUME LockoutInv, NEW a \in Attempts,
           ReadUser(a) \/ RightPassword(a) \/ Frozen(a)
    PROVE  LockoutInv'
  <1>0. NoSnapshot \in Nat /\ failed \in Nat /\ guesses \in Nat
        /\ seen \in [Attempts -> Nat]
    BY DEF NoSnapshot, LockoutInv, PasswordTypeOK
  <1>1. CASE ReadUser(a)
    <2>1. /\ failed' = failed /\ guesses' = guesses
          /\ seen' = [seen EXCEPT ![a] = failed] /\ seen[a] = NoSnapshot
      BY <1>1 DEF ReadUser
    <2>2. failed + 1 >= Threshold => Behind' = Behind
      BY <1>0, <2>1 DEF Behind, NoSnapshot
    <2>3. PasswordTypeOK'
      BY <1>0, <2>1 DEF PasswordTypeOK
    <2> QED BY <2>1, <2>2, <2>3 DEF LockoutInv
  <1>2. CASE Frozen(a) \/ RightPassword(a)
    <2>1. /\ seen' = [seen EXCEPT ![a] = NoSnapshot] /\ seen[a] # NoSnapshot
          /\ \/ failed' = 0 /\ guesses' = 0
             \/ failed' = failed /\ guesses' = guesses
      BY <1>2 DEF Frozen, RightPassword
    <2>2. PasswordTypeOK'
      BY <1>0, <2>1 DEF PasswordTypeOK
    <2>3. Behind' \subseteq Behind /\ a \notin Behind'
      BY <1>0, <2>1 DEF Behind, NoSnapshot
    <2>4. /\ Cardinality(Behind') \in Nat
          /\ Cardinality(Behind') <= Cardinality(Behind)
      BY <2>3, FewerBehind
    <2>5. Cardinality(Behind') + 1 <= Cardinality(Attempts)
      <3>1. Behind' \in SUBSET Attempts
        BY DEF Behind
      <3> QED BY <3>1, <2>3, OthersBehind
    <2>6. failed' + 1 >= Threshold =>
              guesses' + Cardinality(Behind') + 2 <= Threshold + Cardinality(Attempts)
      BY <1>0, <2>1, <2>4, <2>5, BehindSize DEF LockoutInv
    <2>7. guesses' <= failed'
      BY <2>1 DEF LockoutInv
    <2> QED BY <2>2, <2>6, <2>7 DEF LockoutInv
  <1> QED BY <1>1, <1>2

\* No login under way, no guess.
LEMMA InitLockout == SignInInit => LockoutInv
  <1> SUFFICES ASSUME SignInInit PROVE LockoutInv
    OBVIOUS
  <1>1. PasswordTypeOK /\ guesses <= failed /\ guesses = 0 /\ failed = 0
    BY DEF SignInInit, PasswordTypeOK, NoSnapshot
  <1>2. Behind = {}
    BY DEF SignInInit, Behind
  <1>3. Cardinality(Behind) = 0
    BY <1>2, FS_EmptySet
  <1>4. Cardinality(Attempts) \in Nat /\ Cardinality(Attempts) # 0
    BY FS_CardinalityType, FS_EmptySet
  <1> QED BY <1>1, <1>3, <1>4 DEF LockoutInv

\* Every step keeps the bound.
LEMMA NextLockout == LockoutInv /\ [SignInNext]_signInVars => LockoutInv'
  <1> SUFFICES ASSUME LockoutInv, [SignInNext]_signInVars
               PROVE  LockoutInv'
    OBVIOUS
  <1>1. ASSUME NEW a \in Attempts,
               ReadUser(a) \/ WrongPassword(a) \/ RightPassword(a) \/ Frozen(a)
        PROVE  LockoutInv'
    BY <1>1, WrongPasswordKeeps, OtherPasswordsKeep
  <1>2. CASE failed' = failed /\ guesses' = guesses /\ seen' = seen
    BY <1>2 DEF LockoutInv, PasswordTypeOK, Behind
  <1>3. CASE LockEnds \/ FactorNext \/ ResetNext \/ UNCHANGED signInVars
    <2>1. failed' = failed /\ guesses' = guesses /\ seen' = seen
      BY <1>3 DEF LockEnds, FactorNext, ResetNext, MatchStep, LatchStep,
                  RegenerateCodes, VerifyEnrollment, Tick, ConsumeCode, ReadLink,
                  SetPassword, passwordVars, signInVars
    <2> QED BY <2>1, <1>2
  <1> QED BY <1>1, <1>3 DEF SignInNext, PasswordNext

\* However many logins race, the lockout lets only so many guesses through.
THEOREM LockoutHolds == SignInSpec => []LockoutTakesHold
  <1>1. LockoutInv => LockoutTakesHold
    <2> SUFFICES ASSUME LockoutInv PROVE LockoutTakesHold
      OBVIOUS
    <2>1. Cardinality(Attempts) \in Nat /\ Cardinality(Attempts) # 0
      BY FS_CardinalityType, FS_EmptySet
    <2>2. guesses \in Nat /\ failed \in Nat /\ guesses <= failed
      BY DEF LockoutInv, PasswordTypeOK
    <2>3. CASE failed + 1 >= Threshold
      BY <2>3, <2>1, <2>2, BehindSize DEF LockoutInv, LockoutTakesHold
    <2>4. CASE failed + 1 < Threshold
      BY <2>4, <2>1, <2>2 DEF LockoutTakesHold
    <2> QED BY <2>2, <2>3, <2>4
  <1> QED BY <1>1, InitLockout, NextLockout, PTL DEF SignInSpec
-----------------------------------------------------------------------------
Counts == {0, 1, 2}

FactorTypeOK ==
    /\ lastStep \in 0 .. MaxStep
    /\ challenge \in [Challenges -> [step : 0 .. MaxStep, read : 0 .. MaxStep]]
    /\ passed \in [1 .. MaxStep -> Counts]
    /\ rewound \in BOOLEAN
    /\ undrawn \subseteq BackupCodes /\ unused \subseteq BackupCodes
    /\ spent \in [BackupCodes -> Counts]
    /\ resets \in Counts /\ together \in BOOLEAN

\* While nobody has overwritten the latch unseen, it is at or past every step
\* whose code has worked, and a code that is being judged is past what its
\* challenge read.
LatchInv ==
    /\ \A c \in Challenges :
          challenge[c] # NoMatch => challenge[c].step > challenge[c].read
    /\ ~ rewound =>
          \A s \in 1 .. MaxStep :
              passed[s] <= 1 /\ (passed[s] = 1 => lastStep >= s)

\* A backup code that is unused, or not even drawn, has not worked yet.
CodesInv ==
    /\ unused \cap undrawn = {}
    /\ \A k \in BackupCodes :
          /\ spent[k] <= 1
          /\ k \in unused \cup undrawn => spent[k] = 0

\* A link has set no password while it is fresh; a confirmation that is alone
\* is the first.
LinkInv ==
    /\ link = "fresh" => resets = 0
    /\ ~ together =>
          \/ resetting = {} /\ resets <= 1
          \/ resets = 0 /\ \E c \in Challenges : resetting = {c}

FactorInv == FactorTypeOK /\ LatchInv /\ CodesInv /\ LinkInv

\* One use more.
LEMMA OnceType ==
    ASSUME NEW n \in Counts
    PROVE  Once(n) \in Counts /\ (n = 0 => Once(n) = 1)
  BY DEF Once, Counts

\* A challenge writes the latch it has judged by.
LEMMA LatchStepKeeps ==
    ASSUME FactorInv, NEW c \in Challenges, LatchStep(c)
    PROVE  FactorInv'
  <1> DEFINE s == challenge[c].step
  <1>1. /\ s \in 1 .. MaxStep /\ challenge[c].read \in 0 .. MaxStep
        /\ s > challenge[c].read
    BY DEF FactorInv, FactorTypeOK, LatchInv, LatchStep
  <1>2. /\ lastStep' = s
        /\ rewound' = (rewound \/ lastStep # challenge[c].read)
        /\ passed' = [passed EXCEPT ![s] = Once(passed[s])]
        /\ challenge' = [challenge EXCEPT ![c] = NoMatch]
    BY DEF LatchStep
  <1> HIDE DEF s
  <1>3. /\ undrawn' = undrawn /\ unused' = unused /\ spent' = spent
        /\ link' = link /\ resetting' = resetting /\ resets' = resets
        /\ together' = together
    BY DEF LatchStep, backupVars, resetVars
  <1>4. passed[s] \in Counts /\ Once(passed[s]) \in Counts
    BY <1>1, OnceType DEF FactorInv, FactorTypeOK
  <1>5. NoMatch \in [step : 0 .. MaxStep, read : 0 .. MaxStep]
    BY DEF NoMatch
  <1>6. FactorTypeOK'
    BY <1>1, <1>2, <1>3, <1>4, <1>5 DEF FactorInv, FactorTypeOK
  <1>7. LatchInv'
    <2>1. ASSUME NEW d \in Challenges, challenge'[d] # NoMatch
          PROVE  challenge'[d].step > challenge'[d].read
      BY <2>1, <1>2 DEF FactorInv, FactorTypeOK, LatchInv
    <2>2. ASSUME ~ rewound', NEW t \in 1 .. MaxStep
          PROVE  passed'[t] <= 1 /\ (passed'[t] = 1 => lastStep' >= t)
      <3>1. /\ ~ rewound /\ lastStep < s
            /\ passed[t] <= 1 /\ (passed[t] = 1 => lastStep >= t)
        BY <2>2, <1>1, <1>2 DEF FactorInv, FactorTypeOK, LatchInv
      <3>2. CASE t = s
        <4>1. passed[s] = 0
          BY <3>1, <3>2, <1>1, <1>4 DEF FactorInv, FactorTypeOK, Counts
        <4> QED BY <4>1, <3>2, <1>1, <1>2, OnceType DEF FactorInv, FactorTypeOK, Counts
      <3>3. CASE t # s
        BY <3>1, <3>3, <1>1, <1>2 DEF FactorInv, FactorTypeOK
      <3> QED BY <3>2, <3>3
    <2> QED BY <2>1, <2>2 DEF LatchInv
  <1>8. CodesInv' /\ LinkInv'
    BY <1>3 DEF FactorInv, CodesInv, LinkInv
  <1> QED BY <1>6, <1>7, <1>8 DEF FactorInv

\* A code is matched against the latch; time goes on.
LEMMA MatchKeeps ==
    ASSUME FactorInv,
           \/ Tick
           \/ \E c \in Challenges, s \in 1 .. MaxStep : MatchStep(c, s)
    PROVE  FactorInv'
  <1>1. /\ lastStep' = lastStep /\ passed' = passed /\ rewound' = rewound
        /\ undrawn' = undrawn /\ unused' = unused /\ spent' = spent
        /\ link' = link /\ resetting' = resetting /\ resets' = resets
        /\ together' = together
        /\ \/ challenge' = challenge
           \/ \E c \in Challenges, s \in 1 .. MaxStep :
                 /\ s > lastStep
                 /\ challenge' = [challenge EXCEPT ![c] = [step |-> s, read |-> lastStep]]
    BY DEF Tick, MatchStep, Reused, backupVars, resetVars, FactorInv, FactorTypeOK
  <1>2. FactorTypeOK'
    BY <1>1 DEF FactorInv, FactorTypeOK
  <1>3. LatchInv'
    BY <1>1 DEF FactorInv, FactorTypeOK, LatchInv
  <1>4. CodesInv' /\ LinkInv'
    BY <1>1 DEF FactorInv, CodesInv, LinkInv
  <1> QED BY <1>2, <1>3, <1>4 DEF FactorInv

\* An enrolment moves the latch; codes are drawn, and used.
LEMMA CodesKeep ==
    ASSUME FactorInv,
           \/ \E set \in SUBSET undrawn : RegenerateCodes(set)
           \/ \E s \in 1 .. MaxStep : VerifyEnrollment(s)
           \/ \E k \in BackupCodes : ConsumeCode(k)
    PROVE  FactorInv'
  <1>1. /\ passed' = passed /\ challenge' = challenge
        /\ link' = link /\ resetting' = resetting /\ resets' = resets
        /\ together' = together
    BY DEF RegenerateCodes, VerifyEnrollment, ConsumeCode, totpVars, resetVars
  <1>2. \/ lastStep' = lastStep /\ rewound' = rewound
        \/ /\ lastStep' \in 1 .. MaxStep
           /\ rewound' = (rewound \/ lastStep' < lastStep)
    BY DEF RegenerateCodes, VerifyEnrollment, ConsumeCode, totpVars
  <1>3. \/ undrawn' = undrawn /\ unused' = unused /\ spent' = spent
        \/ \E set \in SUBSET undrawn :
             undrawn' = undrawn \ set /\ unused' = set /\ spent' = spent
        \/ \E k \in unused :
             /\ undrawn' = undrawn /\ unused' = unused \ {k}
             /\ spent' = [spent EXCEPT ![k] = Once(spent[k])]
    BY DEF RegenerateCodes, VerifyEnrollment, ConsumeCode, Consumable, backupVars
  <1>4. LatchInv'
    <2>1. ~ rewound' => ~ rewound /\ (lastStep' = lastStep \/ ~ (lastStep' < lastStep))
      BY <1>2, Zenon
    <2>2. lastStep \in Int /\ lastStep' \in Int
      BY <1>2 DEF FactorInv, FactorTypeOK
    <2> QED BY <1>1, <2>1, <2>2 DEF FactorInv, LatchInv
  <1>5. LinkInv'
    BY <1>1 DEF FactorInv, LinkInv
  <1>6. /\ undrawn' \subseteq BackupCodes /\ unused' \subseteq BackupCodes
        /\ spent' \in [BackupCodes -> Counts]
    BY <1>3, OnceType DEF FactorInv, FactorTypeOK
  <1>7. FactorTypeOK'
    <2>1. rewound' \in BOOLEAN
      BY <1>2 DEF FactorInv, FactorTypeOK
    <2>2. lastStep' \in 0 .. MaxStep
      BY <1>2 DEF FactorInv, FactorTypeOK
    <2> QED BY <1>1, <1>6, <2>1, <2>2 DEF FactorInv, FactorTypeOK
  <1>8. CodesInv'
    <2>0. CASE undrawn' = undrawn /\ unused' = unused /\ spent' = spent
      BY <2>0 DEF FactorInv, CodesInv
    <2>1. ASSUME NEW set \in SUBSET undrawn,
                 undrawn' = undrawn \ set, unused' = set, spent' = spent
          PROVE  CodesInv'
      BY <2>1 DEF FactorInv, CodesInv
    <2>2. ASSUME NEW k \in unused, undrawn' = undrawn, unused' = unused \ {k},
                 spent' = [spent EXCEPT ![k] = Once(spent[k])]
          PROVE  CodesInv'
      <3>1. k \in BackupCodes /\ spent[k] = 0 /\ k \notin unused'
        BY <2>2 DEF FactorInv, FactorTypeOK, CodesInv
      <3>2. Once(spent[k]) = 1
        BY <3>1 DEF Once
      <3> QED BY <2>2, <3>1, <3>2 DEF FactorInv, FactorTypeOK, CodesInv
    <2> QED BY <1>3, <2>0, <2>1, <2>2
  <1> QED BY <1>4, <1>5, <1>7, <1>8 DEF FactorInv

\* A link is read, and used.
LEMMA LinkKeeps ==
    ASSUME FactorInv, NEW c \in Challenges, ReadLink(c) \/ SetPassword(c)
    PROVE  FactorInv'
  <1>1. /\ lastStep' = lastStep /\ passed' = passed /\ rewound' = rewound
        /\ challenge' = challenge
        /\ undrawn' = undrawn /\ unused' = unused /\ spent' = spent
    BY DEF ReadLink, SetPassword, totpVars, backupVars
  <1>2. LatchInv' /\ CodesInv'
    BY <1>1 DEF FactorInv, LatchInv, CodesInv
  <1>3. CASE ReadLink(c)
    <2>1. resets' = resets /\ link' = link /\ link = "fresh"
          /\ resetting' = resetting \cup {c}
          /\ together' = (together \/ resetting # {})
      BY <1>3 DEF ReadLink
    <2>2. FactorTypeOK'
      BY <1>1, <2>1 DEF FactorInv, FactorTypeOK
    <2>3. ~ together' => resetting' = {c}
      BY <2>1
    <2>4. resets = 0
      BY <2>1 DEF FactorInv, LinkInv
    <2>5. LinkInv'
      BY <2>1, <2>3, <2>4 DEF LinkInv
    <2> QED BY <1>2, <2>2, <2>5 DEF FactorInv
  <1>4. CASE SetPassword(c)
    <2>1. link' = "consumed" /\ resets' = Once(resets) /\ c \in resetting
          /\ resetting' = resetting \ {c} /\ together' = together
      BY <1>4 DEF SetPassword
    <2>2. resets \in Counts /\ Once(resets) \in Counts
          /\ (resets = 0 => Once(resets) = 1)
      BY OnceType DEF FactorInv, FactorTypeOK
    <2>3. FactorTypeOK'
      BY <1>1, <2>1, <2>2 DEF FactorInv, FactorTypeOK
    <2>4. ~ together => resets = 0 /\ resetting = {c}
      BY <2>1 DEF FactorInv, LinkInv
    <2>5. ~ together => resetting' = {} /\ resets' <= 1
      BY <2>1, <2>2, <2>4
    <2>6. LinkInv'
      BY <2>1, <2>5 DEF LinkInv
    <2> QED BY <1>2, <2>3, <2>6 DEF FactorInv
  <1> QED BY <1>3, <1>4

\* Nothing has been used at the start.
LEMMA InitFactor == SignInInit => FactorInv
  <1> SUFFICES ASSUME SignInInit PROVE FactorInv
    OBVIOUS
  <1>1. FactorTypeOK
    <2>1. NoMatch \in [step : 0 .. MaxStep, read : 0 .. MaxStep]
      BY DEF NoMatch
    <2>2. 0 \in Counts
      BY DEF Counts
    <2>3. rewound \in BOOLEAN /\ together \in BOOLEAN
      BY Zenon DEF SignInInit
    <2>4. /\ lastStep \in 0 .. MaxStep
          /\ challenge \in [Challenges -> [step : 0 .. MaxStep, read : 0 .. MaxStep]]
      BY <2>1 DEF SignInInit
    <2>5. passed \in [1 .. MaxStep -> Counts] /\ spent \in [BackupCodes -> Counts]
      BY <2>2 DEF SignInInit
    <2> QED BY <2>2, <2>3, <2>4, <2>5 DEF SignInInit, FactorTypeOK
  <1>2. LatchInv
    BY DEF SignInInit, LatchInv
  <1>3. CodesInv /\ LinkInv
    BY DEF SignInInit, CodesInv, LinkInv
  <1> QED BY <1>1, <1>2, <1>3 DEF FactorInv

\* Every step keeps what has been used used.
LEMMA NextFactor == FactorInv /\ [SignInNext]_signInVars => FactorInv'
  <1> SUFFICES ASSUME FactorInv, [SignInNext]_signInVars
               PROVE  FactorInv'
    OBVIOUS
  <1>1. CASE FactorNext
    BY <1>1, LatchStepKeeps, MatchKeeps, CodesKeep DEF FactorNext
  <1>2. CASE ResetNext
    BY <1>2, LinkKeeps DEF ResetNext
  <1>3. CASE PasswordNext \/ UNCHANGED signInVars
    <2>1. UNCHANGED <<totpVars, backupVars, resetVars>>
      BY <1>3 DEF PasswordNext, ReadUser, WrongPassword, RightPassword, Frozen,
                  LockEnds, signInVars
    <2> QED BY <2>1 DEF totpVars, backupVars, resetVars, FactorInv, FactorTypeOK,
                        LatchInv, CodesInv, LinkInv
  <1> QED BY <1>1, <1>2, <1>3 DEF SignInNext

\* A code, a backup code and a reset link work once, but for the races named.
THEOREM FactorsUsedOnce == SignInSpec => []UsedOnce
  <1>1. FactorInv => UsedOnce
    BY DEF FactorInv, FactorTypeOK, LatchInv, CodesInv, LinkInv, UsedOnce, Counts
  <1> QED BY <1>1, InitFactor, NextFactor, PTL DEF SignInSpec

HIDE SignInAssumption
-----------------------------------------------------------------------------
\* A behaviour of all parts together starts each part as it starts alone.
LEMMA PartsOpen ==
    ASSUME Init
    PROVE  /\ MerchantInit /\ WorkersInit /\ SessionsInit /\ SignInInit
           /\ CashoutInit /\ ProgramsInit /\ ConnectionsInit
  BY DEF Init

\* Whichever part a step moves, the others stand still.
LEMMA PartsStep ==
    ASSUME [Next]_vars
    PROVE  /\ [MerchantNext]_merchantVars /\ [WorkersNext]_workerVars
           /\ [SessionsNext]_sessionVars /\ [SignInNext]_signInVars
           /\ [CashoutNext]_cashoutVars /\ [CampaignNext \/ PayoutNext]_programVars
           /\ [ConnectionsNext]_connectionVars
  <1>1. CASE UNCHANGED vars
    BY <1>1 DEF vars, moneyVars
  <1>2. CASE Next
    BY <1>2 DEF Next, moneyVars, SignInPart, SignInNext, ProgramsPart
  <1> QED BY <1>1, <1>2

\* All parts together implement each part: what is said of a part alone is said
\* of it beside the others.
THEOREM PartsImplemented ==
    Spec => /\ MerchantSpec /\ WorkersSpec /\ SessionsSpec /\ SignInSpec
            /\ CashoutSpec /\ ProgramsSpec /\ ConnectionsSpec
  <1>1. Init => /\ MerchantInit /\ WorkersInit /\ SessionsInit /\ SignInInit
                /\ CashoutInit /\ ProgramsInit /\ ConnectionsInit
    BY PartsOpen
  <1>2. [Next]_vars =>
            /\ [MerchantNext]_merchantVars /\ [WorkersNext]_workerVars
            /\ [SessionsNext]_sessionVars /\ [SignInNext]_signInVars
            /\ [CashoutNext]_cashoutVars /\ [CampaignNext \/ PayoutNext]_programVars
            /\ [ConnectionsNext]_connectionVars
    BY PartsStep
  <1> QED
    BY <1>1, <1>2, PTL
       DEF Spec, MerchantSpec, WorkersSpec, SessionsSpec, SignInSpec, CashoutSpec,
           ProgramsSpec, ConnectionsSpec

\* So every property of a part is one of the whole.
THEOREM ServicesKept ==
    Spec => [](/\ RepeatsExplained /\ AnswersAgree /\ DeliveredOnce
               /\ OneLiveToken /\ OlderTokensDead /\ TabsSurviveRotation
               /\ LockoutTakesHold /\ UsedOnce
               /\ CashoutCovered /\ ClaimedFromPot /\ OverheadExplained /\ PaidOnce)
  BY PartsImplemented, RepeatsAreExplained, AnswersTellOneRun, MailsLeaveOnce,
     OneTokenPerLogin, SweptIsDead, TabsStaySignedIn, LockoutHolds, FactorsUsedOnce,
     CashoutsCovered, PotsAreKept, OverheadIsExplained, PayoutsPaidOnce, PTL
=============================================================================
