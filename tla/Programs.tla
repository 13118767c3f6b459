------------------------------ MODULE Programs ------------------------------
(***************************************************************************)
(* The bonus programmes the back office runs: profit-share campaigns,       *)
(* affiliate payouts and referrals.  Each is a row with a status, and each    *)
(* operation on it reads the status without a lock, refuses or goes on, and     *)
(* later writes the new status by id, whatever the status is by then.             *)
(*                                                                          *)
(* Publishing a campaign also renews the deadline of its pending allocations      *)
(* and adds its pool to the overhead that is carried forward, reading the sum      *)
(* and writing it back; members claim their allocations under row locks; a job       *)
(* expires what is due.  Paying a payout writes a ledger row under a unique            *)
(* reference.  Amounts are minor units.                                                 *)
(***************************************************************************)
EXTENDS Integers, Sequences, FiniteSets, Functions

CONSTANTS
    Campaigns,   \* profit_share_campaigns
    PoolOf,      \* pool_amount of the campaigns that exist from the start
    Turnovers,   \* turnover by rank, for each campaign
    SharePct,    \* distribution_pct of a campaign that is created
    Payouts,     \* merchant_affiliate_payouts
    Referrals,   \* referrals
    Visits,      \* calls of back-office operations
    CampaignVisits, \* those of them that are about campaigns, when any is
    NoVisit      \* an operation not yet called

ASSUME ProgramsAssumption ==
    /\ DOMAIN PoolOf \subseteq Campaigns
    /\ \A c \in DOMAIN PoolOf : PoolOf[c] \in Nat
    /\ \A c \in Campaigns : Turnovers[c] \in Seq(Nat \ {0})
    /\ SharePct \in 1 .. 100
    /\ CampaignVisits \subseteq Visits
    /\ Campaigns \cap (Payouts \cup Referrals) = {}
    /\ Payouts \cap Referrals = {}
    /\ IsFiniteSet(Campaigns)

VARIABLES
    status,      \* the status column of a campaign, payout or referral
    pool,        \* profit_share_campaigns.pool_amount
    share,       \* allocated_amount by rank
    allocation,  \* profit_share_allocations.status by rank
    due,         \* campaigns whose allocations are past expires_at
    overhead,    \* the setting that carries the published pools forward
    visit,       \* how far a call is
    credits,     \* how often an allocation was credited to its member
    payoutRows,  \* ledger rows of direction payout, by payout
    overwritten  \* rows a call wrote although they had changed since its read

claimVars == <<pool, share, allocation, due, credits>>
programVars == <<claimVars, status, overhead, visit, payoutRows, overwritten>>

Ranks(c) == 1 .. Len(Turnovers[c])

-----------------------------------------------------------------------------
\* computeProfitShareNetProfit and computePoolAmount.
NetProfit(revenue, cost, affiliate, carried) ==
    LET net == revenue - cost - affiliate - carried IN IF net > 0 THEN net ELSE 0
PoolAmount(net, pct) == (net * pct + 50) \div 100

\* fetchPlatformEconomics takes the only row of its query apart twice, so both
\* sums read as zero, whatever the books say.
Revenue == 0
Cost == 0
AffiliateCost == 0

\* distributeProRataAllocations: the floor of each share, of which the floating
\* point division can make one less where the share is a whole number, and the
\* remainder to the ranks in order.
Share(t, total, amount) == (t * amount) \div total

Distribute(ts, amount, dips) ==
    LET ranks == DOMAIN ts
        total == SumFunction(ts)
        Floor(i) == Share(ts[i], total, amount) - (IF i \in dips THEN 1 ELSE 0)
        left == amount - SumFunction([i \in ranks |-> Floor(i)])
        Extra(i) == IF left > 0 THEN (left + Len(ts) - i) \div Len(ts) ELSE 0
    IN  [i \in ranks |-> IF amount = 0 THEN 0 ELSE Floor(i) + Extra(i)]

Whole(ts, amount) ==
    {i \in DOMAIN ts : (ts[i] * amount) % SumFunction(ts) = 0}
Distributions(ts, amount) ==
    {Distribute(ts, amount, dips) : dips \in SUBSET Whole(ts, amount)}

\* createCampaign, with its preview.
CreateCampaign(c) ==
    LET amount == PoolAmount(NetProfit(Revenue, Cost, AffiliateCost, overhead), SharePct)
    IN  /\ status[c] = "absent"
        /\ status' = [status EXCEPT ![c] = "draft"]
        /\ pool' = [pool EXCEPT ![c] = amount]
        /\ \E s \in Distributions(Turnovers[c], amount) :
              share' = [share EXCEPT ![c] = s]
        /\ UNCHANGED <<allocation, due, credits, overhead, visit, payoutRows, overwritten>>

-----------------------------------------------------------------------------
CampaignOps == {"publish", "close", "cancel"}
PayoutOps == {"approve", "reject", "pay"}
ReferralOps == {"qualify", "withdraw"}

\* The statuses an operation accepts, and the one it writes.
Accepted_Any(op) ==
    {"draft", "published", "closed", "cancelled", "pending", "approved", "rejected",
     "paid", "qualified", "expired"}
Accepted(op) ==
    CASE op \in {"publish", "cancel"} -> {"draft"}
      [] op = "close" -> {"published"}
      [] op \in {"approve", "qualify"} -> {"pending"}
      [] op = "reject" -> {"pending", "approved"}
      [] op = "pay" -> {"approved"}
      [] op = "withdraw" -> {"pending", "qualified", "expired"}

Result ==
    [publish |-> "published", close |-> "closed", cancel |-> "cancelled",
     approve |-> "approved", reject |-> "rejected", pay |-> "paid",
     qualify |-> "qualified", withdraw |-> "cancelled"]

\* A publish holds its campaign's row, and with it the allocations, while it
\* works on the overhead.
Held(row) == \E v \in Visits : visit[v].at = "adding" /\ visit[v].row = row

\* The SELECT of an operation.
ReadStatus(v, op, row) ==
    /\ visit[v].at = "new" /\ status[row] \in Accepted(op)
    /\ visit' = [visit EXCEPT ![v] = [at |-> "read", op |-> op, row |-> row, carried |-> 0]]
    /\ UNCHANGED <<claimVars, status, overhead, payoutRows, overwritten>>

\* The UPDATE by id, at COMMIT; row is noted when it is no longer what was read.
WriteStatus(v, changed) ==
    LET row == visit[v].row
    IN  /\ status' = [status EXCEPT ![row] = Result[visit[v].op]]
        /\ overwritten' = IF changed THEN overwritten \cup {row} ELSE overwritten
        /\ visit' = [visit EXCEPT ![v].at = "done"]

Changed(v) == status[visit[v].row] \notin Accepted(visit[v].op)
Writes(v, ops) ==
    visit[v].at = "read" /\ visit[v].op \in ops /\ ~ Held(visit[v].row)

\* publishCampaign of a campaign without a pool.
Renewed(c) == due' = due \ {c}

PublishEmpty(v) ==
    /\ Writes(v, {"publish"}) /\ pool[visit[v].row] = 0
    /\ Renewed(visit[v].row) /\ WriteStatus(v, Changed(v))
    /\ UNCHANGED <<pool, share, allocation, credits, overhead, payoutRows>>

\* publishCampaign and addCumulativeOverhead: the row is written and locked and
\* the carried sum read, ...
BeginPublish(v) ==
    /\ Writes(v, {"publish"}) /\ pool[visit[v].row] > 0
    /\ visit' = [visit EXCEPT ![v].at = "adding", ![v].carried = overhead]
    /\ UNCHANGED <<claimVars, status, overhead, payoutRows, overwritten>>

\* ... and the sum it makes is written.
CommitPublish(v) ==
    LET c == visit[v].row
    IN  /\ visit[v].at = "adding"
        /\ overhead' = visit[v].carried + pool[c]
        /\ Renewed(c) /\ WriteStatus(v, Changed(v) \/ visit[v].carried # overhead)
        /\ UNCHANGED <<pool, share, allocation, credits, payoutRows>>

\* closeCampaign: what is pending expires with it.
Ended(c, ended) ==
    [i \in Ranks(c) |-> IF ended /\ allocation[c][i] = "pending" THEN "expired"
                        ELSE allocation[c][i]]

CloseCampaign(v) ==
    LET c == visit[v].row
    IN  /\ Writes(v, {"close"}) /\ WriteStatus(v, Changed(v))
        /\ allocation' = [allocation EXCEPT ![c] = Ended(c, TRUE)]
        /\ UNCHANGED <<pool, share, due, credits, overhead, payoutRows>>

\* cancelCampaign, approve and reject of a payout, both referral operations.
OnlyStatus(v) ==
    /\ Writes(v, {"cancel", "approve", "reject"} \cup ReferralOps)
    /\ WriteStatus(v, Changed(v))
    /\ UNCHANGED <<claimVars, overhead, payoutRows>>

\* markAffiliatePayoutPaid: the ledger row under its unique reference, or none
\* where there is one, and the status.
LedgerTakes_Always(p) == TRUE
LedgerTakes(p) == payoutRows[p] = 0

PayPayout(v) ==
    LET p == visit[v].row
    IN  /\ Writes(v, {"pay"}) /\ WriteStatus(v, Changed(v))
        /\ payoutRows' = [payoutRows EXCEPT ![p] = @ + (IF LedgerTakes(p) THEN 1 ELSE 0)]
        /\ UNCHANGED <<claimVars, overhead>>

-----------------------------------------------------------------------------
\* claimProfitShareReward: allocation, campaign and account are locked.  A
\* claim that finds its allocation due marks it and then throws, which takes
\* the mark back: nothing changes.
Claimable_Repeated(c, i) ==
    /\ status[c] = "published"
    /\ c \notin due /\ share[c][i] > 0
Claimable(c, i) ==
    /\ status[c] = "published"
    /\ allocation[c][i] = "pending" /\ c \notin due /\ share[c][i] > 0

ClaimShare(c, i) ==
    /\ ~ Held(c) /\ Claimable(c, i)
    /\ allocation' = [allocation EXCEPT ![c][i] = "claimed"]
    /\ credits' = [credits EXCEPT ![c][i] = @ + 1]
    /\ UNCHANGED <<pool, share, due, status, overhead, visit, payoutRows, overwritten>>

\* claim_expires_hours pass.
DeadlinePasses(c) ==
    /\ status[c] # "absent" /\ c \notin due
    /\ due' = due \cup {c}
    /\ UNCHANGED <<pool, share, allocation, credits, status, overhead, visit,
                   payoutRows, overwritten>>

\* Campaigns with an allocation that is pending past its deadline.
Overstaying == {c \in due : \E i \in Ranks(c) : allocation[c][i] = "pending"}

\* expireProfitShareAllocations: one UPDATE over everything that is due.
Expirable_Published(c) == c \in due /\ status[c] = "published"
Expirable(c) == c \in due

ExpireAllocations ==
    /\ Overstaying # {}
    /\ \A c \in due : ~ Held(c)
    /\ allocation' = [c \in Campaigns |-> Ended(c, Expirable(c))]
    /\ UNCHANGED <<pool, share, due, credits, status, overhead, visit, payoutRows,
                   overwritten>>

-----------------------------------------------------------------------------
OpeningPool == [c \in Campaigns |-> IF c \in DOMAIN PoolOf THEN PoolOf[c] ELSE 0]
OpeningShares ==
    {s \in [Campaigns -> UNION {Distributions(Turnovers[c], OpeningPool[c]) : c \in Campaigns}] :
        \A c \in Campaigns : s[c] \in Distributions(Turnovers[c], OpeningPool[c])}

ProgramsInit ==
    /\ status = [row \in Campaigns \cup Payouts \cup Referrals |->
                    CASE row \in DOMAIN PoolOf -> "draft"
                      [] row \in Campaigns -> "absent"
                      [] OTHER -> "pending"]
    /\ pool = OpeningPool
    /\ share \in OpeningShares
    /\ allocation = [c \in Campaigns |-> [i \in Ranks(c) |-> "pending"]]
    /\ credits = [c \in Campaigns |-> [i \in Ranks(c) |-> 0]]
    /\ due = {} /\ overhead = 0 /\ overwritten = {}
    /\ visit = [v \in Visits |-> [at |-> "new", op |-> NoVisit, row |-> NoVisit, carried |-> 0]]
    /\ payoutRows = [p \in Payouts |-> 0]

CampaignNext ==
    \/ \E c \in Campaigns : \/ CreateCampaign(c) \/ DeadlinePasses(c)
                            \/ \E i \in Ranks(c) : ClaimShare(c, i)
    \/ \E v \in CampaignVisits :
          \/ \E op \in CampaignOps, c \in Campaigns : ReadStatus(v, op, c)
          \/ PublishEmpty(v) \/ BeginPublish(v) \/ CommitPublish(v)
          \/ CloseCampaign(v) \/ OnlyStatus(v)
    \/ ExpireAllocations

PayoutNext ==
    \E v \in Visits :
       \/ \E op \in PayoutOps, p \in Payouts : ReadStatus(v, op, p)
       \/ \E op \in ReferralOps, r \in Referrals : ReadStatus(v, op, r)
       \/ OnlyStatus(v) \/ PayPayout(v)

ProgramsSpec == ProgramsInit /\ [][CampaignNext \/ PayoutNext]_programVars

-----------------------------------------------------------------------------
\* The pot of a campaign that somebody takes part in is allocated to the minor
\* unit, each allocation is credited once at most and only when it says so, and
\* so the members never take more than the pot, in whatever order claims, the
\* expiry job, publishes, closes and cancels run.
ClaimedFromPot ==
    \A c \in Campaigns :
        /\ Ranks(c) # {} => SumFunctionOnSet(share[c], Ranks(c)) = pool[c]
        /\ \A i \in Ranks(c) : credits[c][i] = 1 <=> allocation[c][i] = "claimed"
        /\ SumFunction([i \in Ranks(c) |-> credits[c][i] * share[c][i]]) <= pool[c]

\* The overhead that lowers the next net profit is the sum of the pools that
\* went out, once each, as long as no two calls worked on one campaign or one
\* sum at the same time: no order of calls carries a pool twice or loses one,
\* and a campaign nobody published has paid nothing.
OverheadExplained ==
    overwritten \cap Campaigns = {} =>
        /\ overhead = SumFunctionOnSet(pool, {c \in Campaigns : status[c] \in {"published", "closed"}})
        /\ \A c \in Campaigns :
              status[c] \in {"absent", "draft", "cancelled"} =>
                  \A i \in Ranks(c) : credits[c][i] = 0

\* No allocation stays open past its deadline for ever: not one whose claim
\* found it due and rolled the mark back, not one of a draft that is never
\* published, and not one whose deadline a publish renews.
AllocationsEnd == Overstaying # {} ~> Overstaying = {}

\* A payout has one ledger row at most, however often it is paid; a payout that
\* says paid has one; and one that says anything else has none unless a call
\* wrote over it after its read.
PaidOnce ==
    \A p \in Payouts :
        /\ payoutRows[p] <= 1
        /\ status[p] = "paid" => payoutRows[p] = 1
        /\ p \notin overwritten => (payoutRows[p] = 1 <=> status[p] = "paid")
=============================================================================
