---------------------------- MODULE MerchantApi ----------------------------
(***************************************************************************)
(* What stands between a merchant's HTTP request and the money: the HMAC    *)
(* middleware and its idempotency slots (merchant_idempotency).  A request   *)
(* that carries a reference claims the slot of the reference with a           *)
(* placeholder row, runs the handler of its endpoint, and turns the           *)
(* placeholder into the answer it sends; a request that finds the slot taken  *)
(* is answered from the row it reads.                                         *)
(*                                                                          *)
(* Claim, read, handler and persisting the answer are four database round     *)
(* trips in four transactions, so anything may happen between them, the death *)
(* of the process included.  The handlers are the services of the other        *)
(* modules: here a handler commits its money once, refuses, or fails.          *)
(***************************************************************************)
EXTENDS Naturals

CONSTANTS
    Requests,       \* authenticated requests that carry a reference
    MerchantRefs,   \* (merchant, endpoint, x-merchant-ref) keys
    Payloads,       \* request bodies, as far as their sha256 tells them apart
    RefOf,          \* the key of a request
    PayloadOf,      \* the body of a request
    OncePayloads    \* bodies whose effect the service itself does only once

ASSUME MerchantApiAssumption ==
    /\ RefOf \in [Requests -> MerchantRefs]
    /\ PayloadOf \in [Requests -> Payloads]
    /\ OncePayloads \subseteq Payloads

VARIABLES
    slot,      \* the merchant_idempotency row of a key
    step,      \* how far a request is
    reply,     \* the answer a request has, to be persisted and sent
    executed,  \* requests whose handler has committed
    lapsed     \* keys one of whose rows has reached expires_at

merchantVars == <<slot, step, reply, executed, lapsed>>

\* "ok" 2xx, "refused" 4xx of the handler, "error" 5xx, "busy" 409
\* CONCURRENT_REQUEST, "mismatch" 409 REF_PAYLOAD_MISMATCH.
Kinds == {"ok", "refused", "error", "busy", "mismatch"}
ClientErrors == {"refused", "busy", "mismatch"}
\* An answer names the request whose handler (or whose collision) produced it.
Answers == [kind : Kinds, from : Requests]
NoReply == [kind |-> "none"]
\* A row holds a hash and a stored answer, or the claim of a request; it is
\* due once its expires_at has passed.
Rows == [payload : Payloads, kind : Kinds \cup {"pending"}, from : Requests,
         due : BOOLEAN]
NoRow == [kind |-> "absent"]

Row(r, a) ==
    [payload |-> PayloadOf[r], kind |-> a.kind, from |-> a.from, due |-> FALSE]
\* Requests between their claim and the end of respond().
Claimed == {r \in Requests : step[r] \in {"running", "responding"}}
Live == {r \in Requests : step[r] \in {"collided", "running", "responding", "replying"}}

-----------------------------------------------------------------------------
\* claimIdempotencySlot, the insert: ON CONFLICT DO NOTHING.
SlotFree_PendingIsFree(k) == slot[k].kind \in {"absent", "pending"}
SlotFree(k) == slot[k] = NoRow

Claim(r) ==
    /\ step[r] = "new" /\ SlotFree(RefOf[r])
    /\ slot' = [slot EXCEPT ![RefOf[r]] =
                   Row(r, [kind |-> "pending", from |-> r])]
    /\ step' = [step EXCEPT ![r] = "running"]
    /\ UNCHANGED <<reply, executed, lapsed>>

Collide(r) ==
    /\ step[r] = "new" /\ ~ SlotFree(RefOf[r])
    /\ step' = [step EXCEPT ![r] = "collided"]
    /\ UNCHANGED <<slot, reply, executed, lapsed>>

\* What the row a loser reads means for it: gone or pending, another hash, or
\* a stored answer to repeat.
FromRow_AnyHash(r, row) ==
    IF row.kind \in {"absent", "pending"} THEN [kind |-> "busy", from |-> r]
    ELSE [kind |-> row.kind, from |-> row.from]
FromRow(r, row) ==
    CASE row.kind \in {"absent", "pending"} -> [kind |-> "busy", from |-> r]
      [] row.kind \in Kinds /\ row.payload # PayloadOf[r] ->
             [kind |-> "mismatch", from |-> r]
      [] OTHER -> [kind |-> row.kind, from |-> row.from]

\* claimIdempotencySlot, the select of the loser.
ReadSlot(r) ==
    /\ step[r] = "collided"
    /\ step' = [step EXCEPT ![r] = "replying"]
    /\ reply' = [reply EXCEPT ![r] = FromRow(r, slot[RefOf[r]])]
    /\ UNCHANGED <<slot, executed, lapsed>>

\* The handler commits and reports success, or its caller loses the result of
\* the COMMIT and answers 500.
MayCommit(r) ==
    PayloadOf[r] \in OncePayloads =>
        \A q \in executed : PayloadOf[q] # PayloadOf[r]

HandlerCommits(r, kind) ==
    /\ step[r] = "running" /\ MayCommit(r)
    /\ kind \in {"ok", "error"}
    /\ step' = [step EXCEPT ![r] = "responding"]
    /\ reply' = [reply EXCEPT ![r] = [kind |-> kind, from |-> r]]
    /\ executed' = executed \cup {r}
    /\ UNCHANGED <<slot, lapsed>>

\* The handler throws with nothing committed.
HandlerThrows(r, kind) ==
    /\ step[r] = "running"
    /\ kind \in {"refused", "error"}
    /\ step' = [step EXCEPT ![r] = "responding"]
    /\ reply' = [reply EXCEPT ![r] = [kind |-> kind, from |-> r]]
    /\ UNCHANGED <<slot, executed, lapsed>>

\* persistCall of the request that holds the claim: a 2xx or 4xx overwrites
\* the row of the key, a 5xx deletes it.
Finalised(r) == IF reply[r].kind = "error" THEN NoRow ELSE Row(r, reply[r])

Respond(r) ==
    /\ step[r] = "responding"
    /\ step' = [step EXCEPT ![r] = "sent"]
    /\ slot' = [slot EXCEPT ![RefOf[r]] =
                   IF @ = NoRow THEN NoRow ELSE Finalised(r)]
    /\ UNCHANGED <<reply, executed, lapsed>>

\* persistCall of a request without the claim: a 4xx, repeated or its own, is
\* inserted where no row is left.
ReplyFromSlot(r) ==
    /\ step[r] = "replying"
    /\ step' = [step EXCEPT ![r] = "sent"]
    /\ slot' = [slot EXCEPT ![RefOf[r]] =
                   IF @ = NoRow /\ reply[r].kind \in ClientErrors
                   THEN Row(r, reply[r]) ELSE @]
    /\ UNCHANGED <<reply, executed, lapsed>>

\* persistCall throws: the failure is logged and the answer sent all the same.
PersistFails(r) ==
    /\ step[r] \in {"responding", "replying"}
    /\ step' = [step EXCEPT ![r] = "sent"]
    /\ UNCHANGED <<slot, reply, executed, lapsed>>

\* The process dies: what it has committed stays, and so does its row.
Die(r) ==
    /\ r \in Live
    /\ step' = [step EXCEPT ![r] = "dead"]
    /\ UNCHANGED <<slot, reply, executed, lapsed>>

\* The time of a row passes: seven days, one for a 4xx.  No request is in flight that long.
Lapse(k) ==
    /\ slot[k] # NoRow /\ ~ slot[k].due
    /\ \A r \in Live : RefOf[r] # k
    /\ slot' = [slot EXCEPT ![k].due = TRUE]
    /\ lapsed' = lapsed \cup {k}
    /\ UNCHANGED <<step, reply, executed>>

\* purgeMerchantIdempotency deletes every row past expires_at.
Purgeable_DoneOnly(k) == slot[k] # NoRow /\ slot[k].kind \in Kinds /\ slot[k].due
Purgeable(k) == slot[k] # NoRow /\ slot[k].due

PurgeSlots ==
    /\ \E k \in MerchantRefs : Purgeable(k)
    /\ slot' = [k \in MerchantRefs |-> IF Purgeable(k) THEN NoRow ELSE slot[k]]
    /\ UNCHANGED <<step, reply, executed, lapsed>>

-----------------------------------------------------------------------------
MerchantInit ==
    /\ slot = [k \in MerchantRefs |-> NoRow]
    /\ step = [r \in Requests |-> "new"]
    /\ reply = [r \in Requests |-> NoReply]
    /\ executed = {}
    /\ lapsed = {}

Serve(r) ==
    \/ Claim(r) \/ Collide(r) \/ ReadSlot(r)
    \/ HandlerCommits(r, "ok") \/ HandlerCommits(r, "error")
    \/ HandlerThrows(r, "refused") \/ HandlerThrows(r, "error")
    \/ Respond(r) \/ ReplyFromSlot(r)

MerchantNext ==
    \/ \E r \in Requests : Serve(r) \/ PersistFails(r) \/ Die(r)
    \/ \E k \in MerchantRefs : Lapse(k)
    \/ PurgeSlots

MerchantSpec == MerchantInit /\ [][MerchantNext]_merchantVars

-----------------------------------------------------------------------------
\* The rows, the requests and the answers stay within their sets.
MerchantTypeOK ==
    /\ slot \in [MerchantRefs -> Rows \cup {NoRow}]
    /\ step \in [Requests -> {"new", "collided", "running", "responding",
                              "replying", "sent", "dead"}]
    /\ reply \in [Requests -> Answers \cup {NoReply}]
    /\ executed \subseteq Requests
    /\ lapsed \subseteq MerchantRefs

\* A request answered 5xx.
Failed(r) == reply[r].kind = "error"

\* Two requests with one reference move money twice only where the middleware
\* itself gave the reference up: one of the two was answered 5xx after its
\* commit, which deletes the placeholder, or the row had lapsed.
RepeatsExplained ==
    \A r, q \in executed :
        RefOf[r] = RefOf[q] /\ r # q =>
            Failed(r) \/ Failed(q) \/ RefOf[r] \in lapsed

\* A merchant told "done" is told of one handler run that did commit, for the
\* very body it sent; all the 2xx answers of a reference, sent or stored, tell
\* of the same run as long as the row lives.
AnswersAgree ==
    \A r \in Requests :
        reply[r].kind = "ok" =>
            /\ reply[r].from \in executed
            /\ PayloadOf[reply[r].from] = PayloadOf[r]
            /\ \A q \in Requests :
                  reply[q].kind = "ok" /\ RefOf[q] = RefOf[r] =>
                      reply[q].from = reply[r].from \/ RefOf[r] \in lapsed

\* A placeholder does not answer 409 for ever, whatever became of its request.
PlaceholderEnds ==
    \A k \in MerchantRefs :
        slot[k].kind = "pending" ~> slot[k].kind # "pending"
=============================================================================
