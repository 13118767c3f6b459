---------------------------- MODULE PayoutsProofs ----------------------------
(***************************************************************************)
(* The theorems of what is paid out beside the money flows, for any number  *)
(* of calls, campaigns, payouts, merchants and amounts: an affiliate payout *)
(* is paid once, the pot of a campaign is allocated to the unit and never   *)
(* overdrawn, the overhead that is carried forward is the sum of the pools  *)
(* that went out, and cash-outs stay within what a merchant took in.        *)
(***************************************************************************)
EXTENDS Programs, Cashout, Sums

USE ProgramsAssumption

TableRows == Campaigns \cup Payouts \cup Referrals
Statuses ==
    {"absent", "draft", "published", "closed", "cancelled", "pending",
     "approved", "rejected", "paid", "qualified"}
Ops == CampaignOps \cup PayoutOps \cup ReferralOps

ProgramsTypeOK ==
    /\ status \in [TableRows -> Statuses]
    /\ pool \in [Campaigns -> Int] /\ overhead \in Int
    /\ visit \in [Visits -> [at : {"new", "read", "adding", "done"},
                             op : Ops \cup {NoVisit},
                             row : TableRows \cup {NoVisit},
                             carried : Int]]
    /\ payoutRows \in [Payouts -> Nat]
    /\ overwritten \subseteq TableRows

\* A call is about a row of its own table.
OnOwnTable ==
    \A v \in Visits :
        visit[v].at \in {"read", "adding"} =>
            /\ visit[v].op \in CampaignOps => visit[v].row \in Campaigns
            /\ visit[v].op \in PayoutOps => visit[v].row \in Payouts
            /\ visit[v].op \in ReferralOps => visit[v].row \in Referrals
            /\ visit[v].op \in Ops
            /\ visit[v].at = "adding" => visit[v].op \in CampaignOps

PayInv == ProgramsTypeOK /\ OnOwnTable /\ PaidOnce

-----------------------------------------------------------------------------
\* What the pool of a campaign that is created amounts to is a number.
LEMMA PoolType ==
    ASSUME NEW carried \in Int
    PROVE  PoolAmount(NetProfit(Revenue, Cost, AffiliateCost, carried), SharePct) \in Int
  <1> DEFINE net == NetProfit(Revenue, Cost, AffiliateCost, carried)
  <1>1. net \in Int /\ SharePct \in Int
    BY DEF NetProfit, Revenue, Cost, AffiliateCost
  <1> HIDE DEF net
  <1>2. net * SharePct \in Int
    BY <1>1
  <1>3. PoolAmount(net, SharePct) \in Int
    BY <1>2 DEF PoolAmount
  <1> QED BY <1>3 DEF net

\* What an operation writes, and that only paying writes "paid".
LEMMA ResultType ==
    ASSUME NEW op \in Ops
    PROVE  /\ Result[op] \in Statuses
           /\ Result[op] = "paid" <=> op = "pay"
  BY DEF Ops, CampaignOps, PayoutOps, ReferralOps, Result, Statuses

\* No operation but paying starts from "paid".
LEMMA PaidIsLast == \A op \in Ops : "paid" \notin Accepted(op)
  BY DEF Ops, CampaignOps, PayoutOps, ReferralOps, Accepted

\* Writing the status of a row ends the call.
LEMMA WriteStatusEffect ==
    ASSUME PayInv, NEW v \in Visits, NEW changed \in BOOLEAN,
           visit[v].at \in {"read", "adding"}, WriteStatus(v, changed)
    PROVE  /\ visit[v].row \in TableRows
           /\ status' = [status EXCEPT ![visit[v].row] = Result[visit[v].op]]
           /\ status' \in [TableRows -> Statuses]
           /\ overwritten' \subseteq TableRows /\ overwritten \subseteq overwritten'
           /\ overwritten' \subseteq overwritten \cup {visit[v].row}
           /\ changed => visit[v].row \in overwritten'
           /\ visit' \in [Visits -> [at : {"new", "read", "adding", "done"},
                                     op : Ops \cup {NoVisit},
                                     row : TableRows \cup {NoVisit},
                                     carried : Int]]
           /\ OnOwnTable'
  <1>1. visit[v].op \in Ops /\ visit[v].row \in TableRows
    BY DEF PayInv, OnOwnTable, Ops, TableRows
  <1>2. Result[visit[v].op] \in Statuses
    BY <1>1, ResultType
  <1>3. /\ status' = [status EXCEPT ![visit[v].row] = Result[visit[v].op]]
        /\ status' \in [TableRows -> Statuses]
    BY <1>1, <1>2 DEF WriteStatus, PayInv, ProgramsTypeOK
  <1>4. /\ overwritten' \subseteq TableRows /\ overwritten \subseteq overwritten'
        /\ overwritten' \subseteq overwritten \cup {visit[v].row}
        /\ changed => visit[v].row \in overwritten'
    BY <1>1 DEF WriteStatus, PayInv, ProgramsTypeOK
  <1>5. visit' = [visit EXCEPT ![v] = [visit[v] EXCEPT !.at = "done"]]
    BY DEF WriteStatus
  <1>6. visit' \in [Visits -> [at : {"new", "read", "adding", "done"},
                               op : Ops \cup {NoVisit},
                               row : TableRows \cup {NoVisit},
                               carried : Int]]
    BY <1>5 DEF PayInv, ProgramsTypeOK
  <1>7. OnOwnTable'
    BY <1>5, <1>6 DEF PayInv, ProgramsTypeOK, OnOwnTable
  <1> QED BY <1>1, <1>3, <1>4, <1>6, <1>7

\* Where no payout's status, rows or marks change, payouts stay paid once.
LEMMA PayoutsFrame ==
    ASSUME PayInv,
           \A p \in Payouts : /\ status'[p] = status[p]
                              /\ payoutRows'[p] = payoutRows[p]
                              /\ p \in overwritten' <=> p \in overwritten
    PROVE  PaidOnce'
  BY DEF PayInv, PaidOnce

\* Writing the status of a row that is no payout, or by an operation that does
\* not pay, leaves every payout paid once.
LEMMA UnpaidWrites ==
    ASSUME PayInv, NEW v \in Visits,
           visit[v].at \in {"read", "adding"}, visit[v].op # "pay",
           NEW changed \in BOOLEAN, WriteStatus(v, changed),
           visit[v].row \in Payouts => (Changed(v) => changed),
           UNCHANGED payoutRows
    PROVE  PaidOnce'
  <1> DEFINE row == visit[v].row
             op == visit[v].op
  <1>1. op \in Ops /\ row \in TableRows
    BY DEF PayInv, OnOwnTable, Ops, TableRows
  <1>2. Result[op] # "paid" /\ "paid" \notin Accepted(op)
    BY <1>1, ResultType, PaidIsLast
  <1>3. /\ status' = [status EXCEPT ![row] = Result[op]]
        /\ overwritten \subseteq overwritten' 
        /\ overwritten' \subseteq overwritten \cup {row}
        /\ changed => row \in overwritten'
    BY WriteStatusEffect
  <1>4. status \in [TableRows -> Statuses] /\ payoutRows \in [Payouts -> Nat]
    BY DEF PayInv, ProgramsTypeOK
  <1> SUFFICES ASSUME NEW p \in Payouts
               PROVE  /\ payoutRows'[p] <= 1
                      /\ status'[p] = "paid" => payoutRows'[p] = 1
                      /\ p \notin overwritten' =>
                            (payoutRows'[p] = 1 <=> status'[p] = "paid")
    BY DEF PaidOnce
  <1>5. /\ payoutRows[p] <= 1
        /\ status[p] = "paid" => payoutRows[p] = 1
        /\ p \notin overwritten => (payoutRows[p] = 1 <=> status[p] = "paid")
    BY DEF PayInv, PaidOnce
  <1>6. p \in TableRows
    BY DEF TableRows
  <1>7. CASE p # row
    <2>1. status'[p] = status[p]
      BY <1>3, <1>4, <1>6, <1>7
    <2> QED BY <2>1, <1>3, <1>5, <1>7
  <1>8. CASE p = row
    <2>1. status'[p] # "paid"
      BY <1>2, <1>3, <1>4, <1>6, <1>8
    <2>2. p \notin overwritten' => status[p] # "paid"
      BY <1>2, <1>3, <1>8 DEF Changed
    <2> QED BY <2>1, <2>2, <1>3, <1>5
  <1> QED BY <1>7, <1>8

-----------------------------------------------------------------------------
\* The SELECT of an operation changes no row.
LEMMA ReadKeeps ==
    ASSUME PayInv, NEW v \in Visits, NEW op \in Ops, NEW row \in TableRows,
           op \in CampaignOps => row \in Campaigns,
           op \in PayoutOps => row \in Payouts,
           op \in ReferralOps => row \in Referrals,
           ReadStatus(v, op, row)
    PROVE  PayInv'
  <1>1. visit' = [visit EXCEPT ![v] = [at |-> "read", op |-> op, row |-> row, carried |-> 0]]
    BY DEF ReadStatus
  <1>2. UNCHANGED <<status, pool, overhead, payoutRows, overwritten>>
    BY DEF ReadStatus, claimVars
  <1>3. visit' \in [Visits -> [at : {"new", "read", "adding", "done"},
                               op : Ops \cup {NoVisit},
                               row : TableRows \cup {NoVisit},
                               carried : Int]]
    BY <1>1 DEF PayInv, ProgramsTypeOK
  <1>4. OnOwnTable'
    BY <1>1, <1>3 DEF PayInv, ProgramsTypeOK, OnOwnTable
  <1> QED BY <1>2, <1>3, <1>4 DEF PayInv, ProgramsTypeOK, PaidOnce

\* An operation that writes a status and pays nothing keeps the invariant,
\* whatever it does to allocations and to the overhead.
LEMMA UnpaidKeeps ==
    ASSUME PayInv, NEW v \in Visits,
           visit[v].at \in {"read", "adding"}, visit[v].op # "pay",
           NEW changed \in BOOLEAN, WriteStatus(v, changed),
           visit[v].row \in Payouts => (Changed(v) => changed),
           UNCHANGED <<payoutRows, pool>>, overhead' \in Int
    PROVE  PayInv'
  <1>1. PaidOnce'
    BY UnpaidWrites
  <1> QED BY <1>1, WriteStatusEffect DEF PayInv, ProgramsTypeOK

\* What touches no status, no call, no payout row and no mark keeps it too.
LEMMA ClaimsKeep ==
    ASSUME PayInv, UNCHANGED <<status, pool, overhead, visit, payoutRows, overwritten>>
    PROVE  PayInv'
  BY DEF PayInv, ProgramsTypeOK, OnOwnTable, PaidOnce

\* A campaign that is created is no payout.
LEMMA CreateKeeps ==
    ASSUME PayInv, NEW c \in Campaigns, CreateCampaign(c)
    PROVE  PayInv'
  <1>1. pool' \in [Campaigns -> Int]
    <2>1. overhead \in Int /\ pool \in [Campaigns -> Int]
      BY DEF PayInv, ProgramsTypeOK
    <2>2. PoolAmount(NetProfit(Revenue, Cost, AffiliateCost, overhead), SharePct) \in Int
      BY <2>1, PoolType
    <2> QED BY <2>1, <2>2 DEF CreateCampaign
  <1>2. status' = [status EXCEPT ![c] = "draft"]
    BY DEF CreateCampaign
  <1>3. status' \in [TableRows -> Statuses]
    BY <1>2 DEF PayInv, ProgramsTypeOK, TableRows, Statuses
  <1>4. UNCHANGED <<overhead, visit, payoutRows, overwritten>>
    BY DEF CreateCampaign
  <1>5. \A p \in Payouts : status'[p] = status[p]
    BY <1>2 DEF PayInv, ProgramsTypeOK, TableRows
  <1>6. ProgramsTypeOK' /\ OnOwnTable'
    BY <1>1, <1>3, <1>4 DEF PayInv, ProgramsTypeOK, OnOwnTable
  <1>7. PaidOnce'
    BY <1>4, <1>5 DEF PayInv, PaidOnce
  <1> QED BY <1>6, <1>7 DEF PayInv

\* Every operation that only writes a status.
LEMMA OnlyStatusKeeps ==
    ASSUME PayInv, NEW v \in Visits, OnlyStatus(v)
    PROVE  PayInv'
  <1>1. visit[v].at = "read" /\ visit[v].op # "pay"
    BY DEF OnlyStatus, Writes, ReferralOps
  <1>2. WriteStatus(v, Changed(v)) /\ UNCHANGED <<payoutRows, pool, overhead>>
    BY DEF OnlyStatus, claimVars
  <1>3. Changed(v) \in BOOLEAN
    BY DEF Changed
  <1>4. overhead' \in Int
    BY <1>2 DEF PayInv, ProgramsTypeOK
  <1> QED BY <1>1, <1>2, <1>3, <1>4, UnpaidKeeps

\* The ledger takes a payout's row once, so a payout that is paid has one row
\* whether this call wrote it or another.
LEMMA PayKeeps ==
    ASSUME PayInv, NEW v \in Visits, PayPayout(v)
    PROVE  PayInv'
  <1> DEFINE row == visit[v].row
  <1>1. visit[v].at = "read" /\ visit[v].op = "pay"
    BY DEF PayPayout, Writes
  <1>2. row \in Payouts
    BY <1>1 DEF PayInv, OnOwnTable, PayoutOps
  <1>3. WriteStatus(v, Changed(v)) /\ Changed(v) \in BOOLEAN /\ UNCHANGED <<pool, overhead>>
    BY DEF PayPayout, claimVars, Changed
  <1>4. /\ status' = [status EXCEPT ![row] = Result[visit[v].op]]
        /\ status' \in [TableRows -> Statuses]
        /\ overwritten \subseteq overwritten' /\ overwritten' \subseteq TableRows
        /\ overwritten' \subseteq overwritten \cup {row}
        /\ visit' \in [Visits -> [at : {"new", "read", "adding", "done"},
                                  op : Ops \cup {NoVisit},
                                  row : TableRows \cup {NoVisit},
                                  carried : Int]]
        /\ OnOwnTable'
    BY <1>1, <1>3, WriteStatusEffect
  <1>5. payoutRows \in [Payouts -> Nat] /\ payoutRows[row] \in Nat /\ payoutRows[row] <= 1
    BY <1>2 DEF PayInv, ProgramsTypeOK, PaidOnce
  <1>6. payoutRows' = [payoutRows EXCEPT ![row] = 1]
    <2> DEFINE rows == payoutRows[row] + (IF LedgerTakes(row) THEN 1 ELSE 0)
    <2>1. payoutRows' = [payoutRows EXCEPT ![row] = rows]
      BY DEF PayPayout
    <2>2. rows = 1
      BY <1>5 DEF LedgerTakes
    <2> HIDE DEF rows
    <2> QED BY <2>1, <2>2
  <1>7. ProgramsTypeOK'
    BY <1>3, <1>4, <1>5, <1>6 DEF PayInv, ProgramsTypeOK
  <1>8. Result[visit[v].op] = "paid"
    BY <1>1, ResultType DEF Ops, PayoutOps
  <1>9. PaidOnce'
    <2> SUFFICES ASSUME NEW p \in Payouts
                 PROVE  /\ payoutRows'[p] <= 1
                        /\ status'[p] = "paid" => payoutRows'[p] = 1
                        /\ p \notin overwritten' =>
                              (payoutRows'[p] = 1 <=> status'[p] = "paid")
      BY DEF PaidOnce
    <2>1. p \in TableRows /\ row \in TableRows
      BY <1>2 DEF TableRows
    <2>2. status \in [TableRows -> Statuses]
      BY DEF PayInv, ProgramsTypeOK
    <2>3. CASE p = row
      BY <1>4, <1>5, <1>6, <1>8, <2>1, <2>2, <2>3
    <2>4. CASE p # row
      <3>1. status'[p] = status[p] /\ payoutRows'[p] = payoutRows[p]
        BY <1>4, <1>5, <1>6, <2>1, <2>2, <2>4
      <3> QED BY <3>1, <1>4, <2>4 DEF PayInv, PaidOnce
    <2> QED BY <2>3, <2>4
  <1> QED BY <1>4, <1>7, <1>9 DEF PayInv

\* The operations of campaigns.
LEMMA CampaignsKeep ==
    ASSUME PayInv, CampaignNext
    PROVE  PayInv'
  <1>1. ASSUME NEW c \in Campaigns, CreateCampaign(c) PROVE PayInv'
    BY <1>1, CreateKeeps
  <1>2. ASSUME NEW c \in Campaigns, DeadlinePasses(c) PROVE PayInv'
    BY <1>2, ClaimsKeep DEF DeadlinePasses
  <1>3. ASSUME NEW c \in Campaigns, NEW i \in Ranks(c), ClaimShare(c, i) PROVE PayInv'
    BY <1>3, ClaimsKeep DEF ClaimShare
  <1>4. ASSUME ExpireAllocations PROVE PayInv'
    BY <1>4, ClaimsKeep DEF ExpireAllocations
  <1>5. ASSUME NEW v \in CampaignVisits, NEW op \in CampaignOps, NEW c \in Campaigns,
               ReadStatus(v, op, c)
        PROVE  PayInv'
    BY <1>5, ReadKeeps DEF Ops, TableRows, CampaignOps, PayoutOps, ReferralOps
  <1>6. ASSUME NEW v \in CampaignVisits, PublishEmpty(v) PROVE PayInv'
    <2>1. visit[v].at = "read" /\ visit[v].op # "pay" /\ Changed(v) \in BOOLEAN
      BY <1>6 DEF PublishEmpty, Writes, Changed
    <2>2. WriteStatus(v, Changed(v)) /\ UNCHANGED <<payoutRows, pool, overhead>>
      BY <1>6 DEF PublishEmpty
    <2>3. overhead' \in Int
      BY <2>2 DEF PayInv, ProgramsTypeOK
    <2> QED BY <2>1, <2>2, <2>3, UnpaidKeeps
  <1>7. ASSUME NEW v \in CampaignVisits, BeginPublish(v) PROVE PayInv'
    <2>1. visit[v].at = "read" /\ visit[v].op = "publish"
      BY <1>7 DEF BeginPublish, Writes
    <2>2. visit' = [visit EXCEPT ![v] = [visit[v] EXCEPT !.at = "adding", !.carried = overhead]]
      BY <1>7 DEF BeginPublish, PayInv, ProgramsTypeOK
    <2>3. UNCHANGED <<status, pool, overhead, payoutRows, overwritten>>
      BY <1>7 DEF BeginPublish, claimVars
    <2>4. visit' \in [Visits -> [at : {"new", "read", "adding", "done"},
                                 op : Ops \cup {NoVisit},
                                 row : TableRows \cup {NoVisit},
                                 carried : Int]]
      BY <2>2 DEF PayInv, ProgramsTypeOK
    <2>5. OnOwnTable'
      BY <2>1, <2>2, <2>4 DEF PayInv, ProgramsTypeOK, OnOwnTable, CampaignOps
    <2> QED BY <2>3, <2>4, <2>5 DEF PayInv, ProgramsTypeOK, PaidOnce
  <1>8. ASSUME NEW v \in CampaignVisits, CommitPublish(v) PROVE PayInv'
    <2> DEFINE changed == Changed(v) \/ visit[v].carried # overhead
    <2>1. visit[v].at = "adding" /\ WriteStatus(v, changed) /\ UNCHANGED <<payoutRows, pool>>
      BY <1>8 DEF CommitPublish
    <2>2. visit[v].op \in CampaignOps /\ visit[v].row \in Campaigns
      BY <2>1 DEF PayInv, OnOwnTable
    <2>3. overhead' = visit[v].carried + pool[visit[v].row]
      BY <1>8 DEF CommitPublish
    <2>4. overhead' \in Int
      BY <2>2, <2>3 DEF PayInv, ProgramsTypeOK
    <2>5. visit[v].op # "pay"
      BY <2>2 DEF CampaignOps
    <2>6. changed \in BOOLEAN /\ (Changed(v) => changed)
      BY DEF Changed
    <2> HIDE DEF changed
    <2> QED BY <2>1, <2>4, <2>5, <2>6, UnpaidKeeps
  <1>9. ASSUME NEW v \in CampaignVisits, CloseCampaign(v) PROVE PayInv'
    <2>1. visit[v].at = "read" /\ visit[v].op # "pay" /\ Changed(v) \in BOOLEAN
      BY <1>9 DEF CloseCampaign, Writes, Changed
    <2>2. WriteStatus(v, Changed(v)) /\ UNCHANGED <<payoutRows, pool, overhead>>
      BY <1>9 DEF CloseCampaign
    <2>3. overhead' \in Int
      BY <2>2 DEF PayInv, ProgramsTypeOK
    <2> QED BY <2>1, <2>2, <2>3, UnpaidKeeps
  <1>10. ASSUME NEW v \in CampaignVisits, OnlyStatus(v) PROVE PayInv'
    BY <1>10, OnlyStatusKeeps
  <1> QED
    BY <1>1, <1>2, <1>3, <1>4, <1>5, <1>6, <1>7, <1>8, <1>9, <1>10 DEF CampaignNext

\* Those of payouts and referrals.
LEMMA PayoutsKeep ==
    ASSUME PayInv, PayoutNext
    PROVE  PayInv'
  <1>1. ASSUME NEW v \in Visits, NEW op \in PayoutOps, NEW p \in Payouts, ReadStatus(v, op, p)
        PROVE  PayInv'
    BY <1>1, ReadKeeps DEF Ops, TableRows, CampaignOps, PayoutOps, ReferralOps
  <1>2. ASSUME NEW v \in Visits, NEW op \in ReferralOps, NEW r \in Referrals,
               ReadStatus(v, op, r)
        PROVE  PayInv'
    BY <1>2, ReadKeeps DEF Ops, TableRows, CampaignOps, PayoutOps, ReferralOps
  <1>3. ASSUME NEW v \in Visits, OnlyStatus(v) PROVE PayInv'
    BY <1>3, OnlyStatusKeeps
  <1>4. ASSUME NEW v \in Visits, PayPayout(v) PROVE PayInv'
    BY <1>4, PayKeeps
  <1> QED BY <1>1, <1>2, <1>3, <1>4 DEF PayoutNext

\* Nothing is paid when nothing has been called.
LEMMA OpeningPays == ProgramsInit => PayInv
  <1> SUFFICES ASSUME ProgramsInit PROVE PayInv
    OBVIOUS
  <1>1. pool \in [Campaigns -> Int]
    BY DEF ProgramsInit, OpeningPool
  <1>2. status \in [TableRows -> Statuses] /\ \A p \in Payouts : status[p] = "pending"
    BY DEF ProgramsInit, TableRows, Statuses
  <1>3. payoutRows \in [Payouts -> Nat] /\ \A p \in Payouts : payoutRows[p] = 0
    BY DEF ProgramsInit
  <1>4. /\ visit \in [Visits -> [at : {"new", "read", "adding", "done"},
                                 op : Ops \cup {NoVisit},
                                 row : TableRows \cup {NoVisit},
                                 carried : Int]]
        /\ \A v \in Visits : visit[v].at = "new"
    BY DEF ProgramsInit
  <1>5. overhead \in Int /\ overwritten \subseteq TableRows
    BY DEF ProgramsInit
  <1>6. ProgramsTypeOK
    BY <1>1, <1>2, <1>3, <1>4, <1>5 DEF ProgramsTypeOK
  <1>7. OnOwnTable
    BY <1>4 DEF OnOwnTable
  <1>8. PaidOnce
    BY <1>2, <1>3 DEF PaidOnce
  <1> QED BY <1>6, <1>7, <1>8 DEF PayInv

\* A payout has one ledger row at most and one exactly when it says paid, unless
\* a call wrote over it after its read: markAffiliatePayoutPaid leans on the
\* unique reference of the ledger, not on the status it read without a lock.
THEOREM PayoutsPaidOnce == ProgramsSpec => []PaidOnce
  <1>1. ASSUME PayInv, [CampaignNext \/ PayoutNext]_programVars
        PROVE  PayInv'
    <2>1. CASE CampaignNext
      BY <1>1, <2>1, CampaignsKeep
    <2>2. CASE PayoutNext
      BY <1>1, <2>2, PayoutsKeep
    <2>3. CASE UNCHANGED programVars
      BY <1>1, <2>3, ClaimsKeep DEF programVars, claimVars
    <2> QED BY <1>1, <2>1, <2>2, <2>3
  <1>2. PayInv => PaidOnce
    BY DEF PayInv
  <1> QED BY <1>1, <1>2, OpeningPays, PTL DEF ProgramsSpec

-----------------------------------------------------------------------------
\* A pro-rata distribution gives every rank a whole amount and adds up to the
\* pot, wherever the floating point division falls one short.
LEMMA FloorsFit ==
    ASSUME NEW n \in Nat \ {0}, NEW ts, NEW total \in Nat \ {0}, NEW amount \in Nat,
           \A i \in 1 .. n : ts[i] \in Nat \ {0},
           total = SumFunctionOnSet(ts, 1 .. n),
           NEW floors,
           \A i \in 1 .. n : floors[i] \in Int /\ floors[i] <= Share(ts[i], total, amount)
    PROVE  /\ SumFunctionOnSet(floors, 1 .. n) \in Int
           /\ SumFunctionOnSet(floors, 1 .. n) <= amount
  <1> DEFINE R == 1 .. n
             parts == [i \in R |-> amount * ts[i]]
             scaled == [i \in R |-> total * floors[i]]
  <1>1. IsFiniteSet(R)
    BY FS_Interval
  <1>2. \A i \in R : parts[i] = amount * ts[i] /\ scaled[i] = total * floors[i]
    OBVIOUS
  <1>3. \A i \in R : parts[i] \in Int /\ scaled[i] \in Int /\ scaled[i] <= parts[i]
    <2> SUFFICES ASSUME NEW i \in R
                 PROVE  parts[i] \in Int /\ scaled[i] \in Int /\ scaled[i] <= parts[i]
      OBVIOUS
    <2> DEFINE whole == amount * ts[i]
               q == whole \div total
    <2>1. whole \in Int /\ ts[i] * amount = whole
      OBVIOUS
    <2> HIDE DEF whole
    <2>2. q \in Int /\ total * q <= whole
      BY <2>1, DivBounds
    <2>3. floors[i] \in Int /\ floors[i] <= q
      BY <2>1 DEF Share
    <2> HIDE DEF q
    <2>4. total * floors[i] \in Int /\ total * q \in Int /\ total * (q - floors[i]) >= 0
      BY <2>2, <2>3
    <2>5. total * (q - floors[i]) = total * q - total * floors[i]
      BY <2>2, <2>3
    <2>6. total * floors[i] <= whole
      BY <2>1, <2>2, <2>4, <2>5
    <2>7. parts[i] = whole /\ scaled[i] = total * floors[i]
      BY DEF whole
    <2> QED BY <2>1, <2>4, <2>6, <2>7
  <1> HIDE DEF parts, scaled, R
  <1> DEFINE given == SumFunctionOnSet(floors, R)
  <1>4. SumFunctionOnSet(scaled, R) <= SumFunctionOnSet(parts, R)
    BY <1>1, <1>3, SumMonotonic
  <1>5. SumFunctionOnSet(parts, R) = amount * total
    <2>1. \A i \in R : ts[i] \in Int /\ parts[i] = amount * ts[i]
      BY <1>2 DEF R
    <2>2. SumFunctionOnSet(parts, R) = amount * SumFunctionOnSet(ts, R)
      BY <1>1, <2>1, SumScaled
    <2> QED BY <2>2 DEF R
  <1>6. SumFunctionOnSet(scaled, R) = total * given /\ given \in Int
    <2>1. \A i \in R : floors[i] \in Int /\ scaled[i] = total * floors[i]
      BY <1>2 DEF R
    <2> QED BY <1>1, <2>1, SumScaled, SumInt
  <1> HIDE DEF given
  <1>7. total * given <= total * amount
    BY <1>4, <1>5, <1>6
  <1>8. ASSUME given >= amount + 1 PROVE FALSE
    <2>1. total * (given - amount - 1) >= 0
      BY <1>6, <1>8
    <2>2. total * (given - amount - 1) = total * given - total * amount - total
      BY <1>6
    <2> QED BY <1>6, <1>7, <2>1, <2>2
  <1>9. given <= amount
    BY <1>6, <1>8
  <1> QED BY <1>6, <1>9 DEF given, R

LEMMA DistributeSums ==
    ASSUME NEW ts \in Seq(Nat \ {0}), ts # << >>, NEW amount \in Nat,
           NEW dips \in SUBSET Whole(ts, amount)
    PROVE  /\ \A i \in 1 .. Len(ts) : Distribute(ts, amount, dips)[i] \in Nat
           /\ SumFunctionOnSet(Distribute(ts, amount, dips), 1 .. Len(ts)) = amount
  <1> DEFINE n == Len(ts)
             R == 1 .. n
             total == SumFunction(ts)
             D == Distribute(ts, amount, dips)
             floors == [i \in R |-> Share(ts[i], total, amount) - (IF i \in dips THEN 1 ELSE 0)]
             left == amount - SumFunction(floors)
             extra == [i \in R |-> IF left > 0 THEN (left + n - i) \div n ELSE 0]
  <1>1. n \in Nat \ {0} /\ DOMAIN ts = R /\ \A i \in R : ts[i] \in Nat \ {0}
    OBVIOUS
  <1>2. D = [i \in R |-> IF amount = 0 THEN 0 ELSE floors[i] + extra[i]]
    BY <1>1 DEF Distribute
  <1>3. IsFiniteSet(R)
    BY <1>1, FS_Interval
  <1>4. SumFunction(floors) = SumFunctionOnSet(floors, R)
    BY DEF SumFunction
  <1>5. total = SumFunctionOnSet(ts, R) /\ total \in Nat \ {0}
    <2>1. total = SumFunctionOnSet(ts, R)
      BY <1>1 DEF SumFunction
    <2> HIDE DEF R
    <2>2. 1 \in R /\ \A i \in R : ts[i] \in Nat /\ ts[i] \in Int
      BY <1>1 DEF R
    <2>3. SumFunctionOnSet(ts, R) = ts[1] + SumFunctionOnSet(ts, R \ {1})
      BY <1>3, <2>2, SumRemove
    <2>4. SumFunctionOnSet(ts, R \ {1}) \in Nat
      BY <1>3, <2>2, SumNat, FS_Subset
    <2>5. ts[1] \in Nat \ {0}
      BY <1>1, <2>2
    <2> QED BY <2>1, <2>3, <2>4, <2>5
  <1>6. CASE amount = 0
    <2>1. \A i \in R : D[i] = 0
      BY <1>2, <1>6
    <2> HIDE DEF D, R
    <2>2. SumFunctionOnSet(D, R) = 0
      BY <1>3, <2>1, SumZero
    <2> QED BY <1>6, <2>1, <2>2 DEF D, R
  <1>7. CASE amount # 0
    <2>1. ASSUME NEW i \in R
          PROVE  /\ floors[i] \in Nat
                 /\ floors[i] <= Share(ts[i], total, amount)
      <3> DEFINE whole == ts[i] * amount
                 q == whole \div total
      <3>1. whole \in Nat /\ whole > 0
        <4>1. ts[i] \in Nat /\ ts[i] > 0 /\ amount > 0
          BY <1>1, <1>7
        <4> QED BY <4>1
      <3>2. i \in dips => whole % total = 0
        BY DEF Whole
      <3> HIDE DEF whole, total
      <3>3. /\ q \in Int /\ whole < total * q + total
            /\ whole = total * q + (whole % total)
        <4>1. total \in Nat \ {0} /\ whole \in Int
          BY <1>5, <3>1
        <4>2. q \in Int /\ whole < total * q + total
          BY <4>1, DivBounds
        <4>3. whole = total * q + (whole % total)
          BY <4>1, DivRest
        <4> QED BY <4>2, <4>3
      <3> HIDE DEF q
      <3>4. q >= 0
        <4> SUFFICES ASSUME q <= -1 PROVE FALSE
          BY <3>3
        <4>1. total * (-1 - q) >= 0
          BY <1>5, <3>3
        <4>2. total * (-1 - q) = -total - total * q
          BY <1>5, <3>3
        <4>3. total * q \in Int
          BY <1>5, <3>3
        <4> QED BY <1>5, <3>1, <3>3, <4>1, <4>2, <4>3
      <3>5. i \in dips => q # 0
        <4> SUFFICES ASSUME i \in dips, q = 0 PROVE FALSE
          OBVIOUS
        <4>1. total * q = 0
          BY <1>5
        <4> QED BY <3>1, <3>2, <3>3, <4>1
      <3>6. floors[i] = q - (IF i \in dips THEN 1 ELSE 0) /\ Share(ts[i], total, amount) = q
        BY DEF Share, q, whole
      <3> QED BY <3>3, <3>4, <3>5, <3>6
    <2>2. SumFunctionOnSet(floors, R) \in Int /\ SumFunctionOnSet(floors, R) <= amount
      <3>1. \A i \in R : floors[i] \in Int /\ floors[i] <= Share(ts[i], total, amount)
        BY <2>1
      <3> HIDE DEF floors, total, n
      <3> QED BY <1>1, <1>5, <3>1, FloorsFit
    <2>3. left \in Nat /\ amount = SumFunctionOnSet(floors, R) + left
      <3> HIDE DEF floors
      <3> QED BY <1>4, <2>2
    <2> HIDE DEF left, floors, total
    <2>4. \A i \in R : extra[i] = (left + n - i) \div n /\ extra[i] \in Nat
      <3> SUFFICES ASSUME NEW i \in R
                   PROVE  extra[i] = (left + n - i) \div n /\ extra[i] \in Nat
        OBVIOUS
      <3>1. i \in Int /\ i >= 1 /\ i <= n
        BY <1>1
      <3>2. extra[i] = IF left > 0 THEN (left + n - i) \div n ELSE 0
        OBVIOUS
      <3> HIDE DEF n, R, extra
      <3>3. CASE left = 0
        <4>1. n * 0 + (n - i) = left + n - i
          BY <1>1, <3>1, <3>3
        <4>2. (n * 0 + (n - i)) \div n = 0
          <5>1. n - i \in Int /\ 0 <= n - i /\ n - i < n /\ 0 \in Int
            BY <1>1, <3>1
          <5> QED BY <1>1, <5>1, DivUnique
        <4> QED BY <3>2, <3>3, <4>1, <4>2
      <3>4. CASE left # 0
        <4>1. left > 0
          BY <2>3, <3>4
        <4>2. left + n - i \in Nat
          BY <1>1, <2>3, <3>1
        <4>3. (left + n - i) \div n \in Nat
          BY <1>1, <4>2
        <4> QED BY <3>2, <4>1, <4>3
      <3> QED BY <3>3, <3>4
    <2> HIDE DEF extra, n, D
    <2>5. \A i \in R : /\ D[i] = floors[i] + extra[i] /\ D[i] \in Nat
                       /\ floors[i] \in Int /\ extra[i] \in Int
      BY <1>2, <1>7, <2>1, <2>4
    <2>6. SumFunctionOnSet(extra, R) = left
      BY <1>1, <2>3, <2>4, RoundRobin
    <2>7. SumFunctionOnSet(D, R)
             = SumFunctionOnSet(floors, R) + SumFunctionOnSet(extra, R)
      <3>1. \A i \in R : floors[i] \in Int /\ extra[i] \in Int /\ D[i] = floors[i] + extra[i]
        BY <2>5
      <3> HIDE DEF R
      <3> QED BY <1>3, <3>1, SumPlus
    <2> QED BY <2>3, <2>5, <2>6, <2>7 DEF D, n
  <1> QED BY <1>6, <1>7

-----------------------------------------------------------------------------
\* The pot of every campaign is allocated to the unit, and an allocation has
\* been credited exactly when it says claimed.
PotInv ==
    /\ pool \in [Campaigns -> Nat]
    /\ share = [c \in Campaigns |-> share[c]]
    /\ allocation = [c \in Campaigns |-> [i \in Ranks(c) |-> allocation[c][i]]]
    /\ credits = [c \in Campaigns |-> [i \in Ranks(c) |-> credits[c][i]]]
    /\ \A c \in Campaigns :
          /\ Ranks(c) # {} => SumFunctionOnSet(share[c], Ranks(c)) = pool[c]
          /\ \A i \in Ranks(c) :
                /\ share[c][i] \in Nat
                /\ credits[c][i] = IF allocation[c][i] = "claimed" THEN 1 ELSE 0

\* Whatever a distribution is chosen among, it divides the pot.
LEMMA SharesDivide ==
    ASSUME NEW c \in Campaigns, NEW amount \in Nat,
           NEW s \in Distributions(Turnovers[c], amount)
    PROVE  /\ Ranks(c) # {} => SumFunctionOnSet(s, Ranks(c)) = amount
           /\ \A i \in Ranks(c) : s[i] \in Nat
  <1>1. PICK dips \in SUBSET Whole(Turnovers[c], amount) :
            s = Distribute(Turnovers[c], amount, dips)
    BY DEF Distributions
  <1>2. Turnovers[c] \in Seq(Nat \ {0}) /\ Ranks(c) = 1 .. Len(Turnovers[c])
    BY DEF Ranks
  <1>3. Turnovers[c] # << >> => /\ SumFunctionOnSet(s, Ranks(c)) = amount
                                /\ \A i \in Ranks(c) : s[i] \in Nat
    BY <1>1, <1>2, DistributeSums
  <1>4. Turnovers[c] = << >> => Ranks(c) = {}
    BY <1>2
  <1> QED BY <1>3, <1>4

LEMMA PoolNatural ==
    ASSUME NEW carried \in Int
    PROVE  PoolAmount(NetProfit(Revenue, Cost, AffiliateCost, carried), SharePct) \in Nat
  <1> DEFINE net == NetProfit(Revenue, Cost, AffiliateCost, carried)
  <1>1. net \in Nat /\ SharePct \in Nat
    BY DEF NetProfit, Revenue, Cost, AffiliateCost
  <1> HIDE DEF net
  <1>2. net * SharePct \in Nat
    BY <1>1
  <1>3. PoolAmount(net, SharePct) \in Nat
    BY <1>2 DEF PoolAmount
  <1> QED BY <1>3 DEF net

LEMMA PotShape ==
    ASSUME PotInv
    PROVE  /\ allocation = [c \in Campaigns |-> allocation[c]]
           /\ credits = [c \in Campaigns |-> credits[c]]
           /\ \A c \in Campaigns :
                 /\ allocation[c] = [i \in Ranks(c) |-> allocation[c][i]]
                 /\ credits[c] = [i \in Ranks(c) |-> credits[c][i]]
  <1>1. \A c \in Campaigns : /\ allocation[c] = [i \in Ranks(c) |-> allocation[c][i]]
                             /\ credits[c] = [i \in Ranks(c) |-> credits[c][i]]
    BY DEF PotInv
  <1>2. allocation = [c \in Campaigns |-> allocation[c]]
    BY <1>1 DEF PotInv
  <1>3. credits = [c \in Campaigns |-> credits[c]]
    BY <1>1 DEF PotInv
  <1> QED BY <1>1, <1>2, <1>3

\* Steps that create, claim and expire nothing.
LEMMA PotFrame ==
    ASSUME PotInv, UNCHANGED <<pool, share, allocation, credits>>
    PROVE  PotInv'
  BY DEF PotInv, Ranks

\* Expiring leaves what is claimed.
LEMMA ExpiryKeepsPot ==
    ASSUME PotInv, UNCHANGED <<pool, share, credits>>,
           NEW Over \in SUBSET Campaigns,
           allocation' = [c \in Campaigns |-> IF c \in Over THEN Ended(c, TRUE)
                                                            ELSE allocation[c]]
    PROVE  PotInv'
  <1>1. \A c \in Campaigns : allocation'[c] = [i \in Ranks(c) |-> allocation'[c][i]]
    BY DEF PotInv, Ended
  <1>2. \A c \in Campaigns : \A i \in Ranks(c) :
            allocation'[c][i] = "claimed" <=> allocation[c][i] = "claimed"
    BY DEF Ended
  <1>3. allocation' = [c \in Campaigns |-> [i \in Ranks(c) |-> allocation'[c][i]]]
    BY <1>1
  <1> QED BY <1>2, <1>3 DEF PotInv, Ranks

LEMMA CampaignsKeepPot ==
    ASSUME PayInv, PotInv, CampaignNext
    PROVE  PotInv'
  <1>1. ASSUME NEW c \in Campaigns, CreateCampaign(c) PROVE PotInv'
    <2> DEFINE amount == PoolAmount(NetProfit(Revenue, Cost, AffiliateCost, overhead), SharePct)
    <2>1. amount \in Nat
      BY PoolNatural DEF PayInv, ProgramsTypeOK
    <2>2. PICK s \in Distributions(Turnovers[c], amount) : share' = [share EXCEPT ![c] = s]
      BY <1>1 DEF CreateCampaign
    <2>3. pool' = [pool EXCEPT ![c] = amount] /\ UNCHANGED <<allocation, credits>>
      BY <1>1 DEF CreateCampaign
    <2> HIDE DEF amount
    <2>4. /\ Ranks(c) # {} => SumFunctionOnSet(s, Ranks(c)) = amount
          /\ \A i \in Ranks(c) : s[i] \in Nat
      BY <2>1, <2>2, SharesDivide
    <2>5. pool' \in [Campaigns -> Nat] /\ share' = [d \in Campaigns |-> share'[d]]
      BY <2>1, <2>2, <2>3 DEF PotInv
    <2>6. /\ share'[c] = s /\ pool'[c] = amount
          /\ \A d \in Campaigns \ {c} : share'[d] = share[d] /\ pool'[d] = pool[d]
      BY <2>2, <2>3 DEF PotInv
    <2>7. \A d \in Campaigns :
              /\ Ranks(d) # {} => SumFunctionOnSet(share'[d], Ranks(d)) = pool'[d]
              /\ \A i \in Ranks(d) : share'[d][i] \in Nat
      BY <2>4, <2>6 DEF PotInv
    <2>8. \A d \in Campaigns : \A i \in Ranks(d) :
              credits'[d][i] = IF allocation'[d][i] = "claimed" THEN 1 ELSE 0
      BY <2>3 DEF PotInv
    <2>9. /\ allocation' = [d \in Campaigns |-> [i \in Ranks(d) |-> allocation'[d][i]]]
          /\ credits' = [d \in Campaigns |-> [i \in Ranks(d) |-> credits'[d][i]]]
      BY <2>3 DEF PotInv
    <2> QED BY <2>5, <2>7, <2>8, <2>9 DEF PotInv, Ranks
  <1>2. ASSUME NEW c \in Campaigns, NEW i \in Ranks(c), ClaimShare(c, i) PROVE PotInv'
    <2>1. /\ allocation[c][i] = "pending"
          /\ allocation' = [allocation EXCEPT ![c] = [allocation[c] EXCEPT ![i] = "claimed"]]
          /\ credits' = [credits EXCEPT ![c] = [credits[c] EXCEPT ![i] = credits[c][i] + 1]]
          /\ UNCHANGED <<pool, share>>
      BY <1>2 DEF ClaimShare, Claimable
    <2>2. credits[c][i] = 0
      BY <2>1 DEF PotInv
    <2>3. /\ allocation'[c] = [allocation[c] EXCEPT ![i] = "claimed"]
          /\ credits'[c] = [credits[c] EXCEPT ![i] = 1]
          /\ \A d \in Campaigns \ {c} : allocation'[d] = allocation[d] /\ credits'[d] = credits[d]
      BY <2>1, <2>2, PotShape
    <2>4. /\ allocation[c] = [j \in Ranks(c) |-> allocation[c][j]]
          /\ credits[c] = [j \in Ranks(c) |-> credits[c][j]]
      BY PotShape
    <2>5. /\ allocation'[c] = [j \in Ranks(c) |-> allocation'[c][j]]
          /\ credits'[c] = [j \in Ranks(c) |-> credits'[c][j]]
          /\ allocation'[c][i] = "claimed" /\ credits'[c][i] = 1
          /\ \A j \in Ranks(c) \ {i} : /\ allocation'[c][j] = allocation[c][j]
                                       /\ credits'[c][j] = credits[c][j]
      BY <2>3, <2>4
    <2>6. ASSUME NEW d \in Campaigns, NEW j \in Ranks(d)
          PROVE  credits'[d][j] = IF allocation'[d][j] = "claimed" THEN 1 ELSE 0
      <3>1. credits[d][j] = IF allocation[d][j] = "claimed" THEN 1 ELSE 0
        BY DEF PotInv
      <3>2. CASE d = c /\ j = i
        BY <2>5, <3>2
      <3>3. CASE ~ (d = c /\ j = i)
        BY <2>3, <2>5, <3>1, <3>3
      <3> QED BY <3>2, <3>3
    <2>7. \A d \in Campaigns : /\ allocation'[d] = [j \in Ranks(d) |-> allocation'[d][j]]
                               /\ credits'[d] = [j \in Ranks(d) |-> credits'[d][j]]
      <3> SUFFICES ASSUME NEW d \in Campaigns
                   PROVE  /\ allocation'[d] = [j \in Ranks(d) |-> allocation'[d][j]]
                          /\ credits'[d] = [j \in Ranks(d) |-> credits'[d][j]]
        OBVIOUS
      <3>1. CASE d = c
        BY <2>5, <3>1
      <3>2. CASE d # c
        <4>1. allocation'[d] = allocation[d] /\ credits'[d] = credits[d]
          BY <2>3, <3>2
        <4>2. /\ allocation[d] = [j \in Ranks(d) |-> allocation[d][j]]
              /\ credits[d] = [j \in Ranks(d) |-> credits[d][j]]
          BY PotShape
        <4> QED BY <4>1, <4>2
      <3> QED BY <3>1, <3>2
    <2>8. /\ allocation' = [d \in Campaigns |-> allocation'[d]]
          /\ credits' = [d \in Campaigns |-> credits'[d]]
      BY <2>1, PotShape
    <2>9. /\ allocation' = [d \in Campaigns |-> [j \in Ranks(d) |-> allocation'[d][j]]]
          /\ credits' = [d \in Campaigns |-> [j \in Ranks(d) |-> credits'[d][j]]]
      BY <2>7, <2>8
    <2> QED BY <2>1, <2>6, <2>9 DEF PotInv, Ranks
  <1>3. ASSUME NEW v \in CampaignVisits, CloseCampaign(v) PROVE PotInv'
    <2> DEFINE c == visit[v].row
    <2>1. c \in Campaigns
      BY <1>3 DEF CloseCampaign, Writes, PayInv, OnOwnTable, CampaignOps
    <2>2. allocation' = [allocation EXCEPT ![c] = Ended(c, TRUE)]
      BY <1>3 DEF CloseCampaign
    <2>3. UNCHANGED <<pool, share, credits>>
      BY <1>3 DEF CloseCampaign
    <2> HIDE DEF c
    <2>4. allocation' = [d \in Campaigns |-> IF d \in {c} THEN Ended(d, TRUE) ELSE allocation[d]]
      <3> DEFINE A(d) == Ended(d, TRUE)
      <3>1. allocation' = [allocation EXCEPT ![c] = A(c)]
        BY <2>2
      <3> HIDE DEF A
      <3>2. allocation' = [d \in Campaigns |-> IF d \in {c} THEN A(d) ELSE allocation[d]]
        BY <2>1, <3>1, PotShape
      <3> QED BY <3>2 DEF A
    <2>5. {c} \in SUBSET Campaigns
      BY <2>1
    <2> QED BY <2>3, <2>4, <2>5, ExpiryKeepsPot
  <1>4. ASSUME ExpireAllocations PROVE PotInv'
    <2> DEFINE Over == {c \in Campaigns : Expirable(c)}
    <2>1. allocation' = [c \in Campaigns |-> Ended(c, Expirable(c))]
      BY <1>4 DEF ExpireAllocations
    <2>2. \A c \in Campaigns : Ended(c, FALSE) = allocation[c]
      BY PotShape DEF Ended
    <2>3. allocation' = [c \in Campaigns |-> IF c \in Over THEN Ended(c, TRUE) ELSE allocation[c]]
      <3>1. \A c \in Campaigns : Expirable(c) \in BOOLEAN
        BY DEF Expirable
      <3>2. \A c \in Campaigns : Ended(c, Expirable(c))
                 = IF c \in Over THEN Ended(c, TRUE) ELSE allocation[c]
        <4> SUFFICES ASSUME NEW c \in Campaigns
                     PROVE  Ended(c, Expirable(c))
                               = IF c \in Over THEN Ended(c, TRUE) ELSE allocation[c]
          OBVIOUS
        <4>1. CASE Expirable(c)
          BY <4>1 DEF Ended
        <4>2. CASE ~ Expirable(c)
          <5>1. Ended(c, Expirable(c)) = Ended(c, FALSE)
            BY <4>2 DEF Ended
          <5> QED BY <2>2, <4>2, <5>1
        <4> QED BY <4>1, <4>2
      <3> QED BY <2>1, <3>2
    <2>4. UNCHANGED <<pool, share, credits>>
      BY <1>4 DEF ExpireAllocations
    <2>5. Over \in SUBSET Campaigns
      OBVIOUS
    <2> HIDE DEF Over
    <2> QED BY <2>3, <2>4, <2>5, ExpiryKeepsPot
  <1>5. ASSUME \/ \E c \in Campaigns : DeadlinePasses(c)
               \/ \E v \in CampaignVisits :
                     \/ \E op \in CampaignOps, c \in Campaigns : ReadStatus(v, op, c)
                     \/ PublishEmpty(v) \/ BeginPublish(v) \/ CommitPublish(v)
                     \/ OnlyStatus(v)
        PROVE  PotInv'
    <2>1. UNCHANGED <<pool, share, allocation, credits>>
      BY <1>5 DEF DeadlinePasses, ReadStatus, PublishEmpty, BeginPublish, CommitPublish,
                  OnlyStatus, claimVars
    <2> QED BY <2>1, PotFrame
  <1> QED BY <1>1, <1>2, <1>3, <1>4, <1>5 DEF CampaignNext

LEMMA PotOpens == ProgramsInit => PotInv
  <1> SUFFICES ASSUME ProgramsInit PROVE PotInv
    OBVIOUS
  <1>1. pool = OpeningPool /\ pool \in [Campaigns -> Nat]
    BY DEF ProgramsInit, OpeningPool
  <1>2. /\ share = [c \in Campaigns |-> share[c]]
        /\ \A c \in Campaigns : share[c] \in Distributions(Turnovers[c], pool[c])
    BY <1>1 DEF ProgramsInit, OpeningShares
  <1>3. \A c \in Campaigns :
            /\ Ranks(c) # {} => SumFunctionOnSet(share[c], Ranks(c)) = pool[c]
            /\ \A i \in Ranks(c) : share[c][i] \in Nat
    BY <1>1, <1>2, SharesDivide
  <1>4. /\ allocation = [c \in Campaigns |-> [i \in Ranks(c) |-> allocation[c][i]]]
        /\ credits = [c \in Campaigns |-> [i \in Ranks(c) |-> credits[c][i]]]
        /\ \A c \in Campaigns : \A i \in Ranks(c) :
              credits[c][i] = IF allocation[c][i] = "claimed" THEN 1 ELSE 0
    BY DEF ProgramsInit
  <1> QED BY <1>1, <1>2, <1>3, <1>4 DEF PotInv

\* What the members take of a pot is at most the pot, for any campaigns and any
\* order of claims, expiry, publishes, closes and cancels.
THEOREM PotsAreKept == ProgramsSpec => []ClaimedFromPot
  <1>1. PotInv => ClaimedFromPot
    <2> SUFFICES ASSUME PotInv, NEW c \in Campaigns
                 PROVE  /\ Ranks(c) # {} => SumFunctionOnSet(share[c], Ranks(c)) = pool[c]
                        /\ \A i \in Ranks(c) : credits[c][i] = 1 <=> allocation[c][i] = "claimed"
                        /\ SumFunction([i \in Ranks(c) |-> credits[c][i] * share[c][i]]) <= pool[c]
      BY DEF ClaimedFromPot
    <2> DEFINE R == Ranks(c)
               taken == [i \in R |-> credits[c][i] * share[c][i]]
               given == share[c]
    <2>1. SumFunction(taken) = SumFunctionOnSet(taken, R)
      BY DEF SumFunction
    <2>2. \A i \in R : taken[i] \in Int /\ given[i] \in Int /\ taken[i] <= given[i]
      <3> SUFFICES ASSUME NEW i \in R
                   PROVE  taken[i] \in Int /\ given[i] \in Int /\ taken[i] <= given[i]
        OBVIOUS
      <3>1. given[i] \in Nat /\ (credits[c][i] = 0 \/ credits[c][i] = 1)
        BY DEF PotInv
      <3>2. taken[i] = credits[c][i] * given[i]
        OBVIOUS
      <3> HIDE DEF taken, given
      <3>3. CASE credits[c][i] = 0
        BY <3>1, <3>2, <3>3
      <3>4. CASE credits[c][i] = 1
        BY <3>1, <3>2, <3>4
      <3> QED BY <3>1, <3>3, <3>4
    <2>3. IsFiniteSet(R)
      BY FS_Interval DEF Ranks
    <2>4. SumFunction(taken) <= pool[c]
      <3> HIDE DEF taken, R, given
      <3>1. SumFunctionOnSet(taken, R) <= SumFunctionOnSet(given, R)
        BY <2>2, <2>3, SumMonotonic
      <3>2. CASE R = {}
        <4>1. SumFunctionOnSet(taken, R) = 0 /\ pool[c] \in Nat
          BY <3>2, SumEmpty DEF PotInv
        <4> QED BY <2>1, <4>1
      <3>3. CASE R # {}
        <4>1. SumFunctionOnSet(given, R) = pool[c]
          BY <3>3 DEF PotInv, R, given
        <4> QED BY <2>1, <3>1, <4>1
      <3> QED BY <3>2, <3>3
    <2>5. /\ Ranks(c) # {} => SumFunctionOnSet(share[c], Ranks(c)) = pool[c]
          /\ \A i \in Ranks(c) : credits[c][i] = 1 <=> allocation[c][i] = "claimed"
      BY DEF PotInv
    <2> QED BY <2>4, <2>5
  <1>2. ASSUME PayInv /\ PotInv, [CampaignNext \/ PayoutNext]_programVars
        PROVE  (PayInv /\ PotInv)'
    <2>1. CASE CampaignNext
      BY <1>2, <2>1, CampaignsKeep, CampaignsKeepPot
    <2>2. CASE PayoutNext
      <3>1. UNCHANGED <<pool, share, allocation, credits>>
        BY <2>2 DEF PayoutNext, ReadStatus, OnlyStatus, PayPayout, claimVars
      <3> QED BY <1>2, <2>2, <3>1, PayoutsKeep, PotFrame
    <2>3. CASE UNCHANGED programVars
      BY <1>2, <2>3, ClaimsKeep, PotFrame DEF programVars, claimVars
    <2> QED BY <1>2, <2>1, <2>2, <2>3
  <1> QED BY <1>1, <1>2, OpeningPays, PotOpens, PTL DEF ProgramsSpec

-----------------------------------------------------------------------------
\* The campaigns whose pool went out.
WentOut == {c \in Campaigns : status[c] \in {"published", "closed"}}
Unpaid(c) == \A i \in Ranks(c) : credits[c][i] = 0

\* While no two calls worked on one campaign or one sum, the overhead is the
\* pools that went out and a campaign nobody published has paid nothing.
CarriedExact ==
    overwritten \cap Campaigns = {} =>
        /\ overhead = SumFunctionOnSet(pool, WentOut)
        /\ \A c \in Campaigns : status[c] \in {"absent", "draft", "cancelled"} => Unpaid(c)

\* A call that works on the overhead publishes.
AddingPublishes == \A v \in Visits : visit[v].at = "adding" => visit[v].op = "publish"

OverheadInv == AddingPublishes /\ CarriedExact

LEMMA CarriedFrame ==
    ASSUME PayInv, CarriedExact, UNCHANGED <<overhead, pool, credits>>,
           \A c \in Campaigns : status'[c] = status[c],
           overwritten' \cap Campaigns = {} => overwritten \cap Campaigns = {}
    PROVE  CarriedExact'
  <1>1. WentOut' = WentOut
    BY DEF WentOut
  <1> QED BY <1>1 DEF CarriedExact, Unpaid, Ranks

\* A call about a campaign that ends: unless it wrote over another's work, the
\* campaign was what the call had read, and the overhead grows by what goes out.
LEMMA CarriedMoves ==
    ASSUME PayInv, CarriedExact, NEW v \in Visits, NEW changed \in BOOLEAN,
           visit[v].at \in {"read", "adding"}, visit[v].op \in CampaignOps,
           WriteStatus(v, changed), Changed(v) => changed, UNCHANGED <<pool, credits>>,
           ~ changed => overhead' = overhead + (IF visit[v].op = "publish"
                                                THEN pool[visit[v].row] ELSE 0)
    PROVE  CarriedExact'
  <1> DEFINE c == visit[v].row
             op == visit[v].op
  <1>1. c \in Campaigns /\ op \in Ops /\ status \in [TableRows -> Statuses]
        /\ Campaigns \subseteq TableRows /\ pool \in [Campaigns -> Int] /\ overhead \in Int
    BY DEF PayInv, OnOwnTable, ProgramsTypeOK, TableRows
  <1> SUFFICES ASSUME overwritten' \cap Campaigns = {}
               PROVE  /\ overhead' = SumFunctionOnSet(pool', WentOut')
                      /\ \A d \in Campaigns :
                            status'[d] \in {"absent", "draft", "cancelled"} => Unpaid(d)'
    BY DEF CarriedExact
  <1>2. /\ status' = [status EXCEPT ![c] = Result[op]]
        /\ overwritten \subseteq overwritten' /\ (changed => c \in overwritten')
    BY WriteStatusEffect
  <1>3. ~ changed /\ overwritten \cap Campaigns = {} /\ status[c] \in Accepted(op)
    BY <1>1, <1>2 DEF Changed
  <1>4. /\ overhead = SumFunctionOnSet(pool, WentOut)
        /\ \A d \in Campaigns : status[d] \in {"absent", "draft", "cancelled"} => Unpaid(d)
    BY <1>3 DEF CarriedExact
  <1>5. status'[c] = Result[op] /\ \A d \in Campaigns \ {c} : status'[d] = status[d]
    BY <1>1, <1>2
  <1>6. \A d : Unpaid(d)' = Unpaid(d)
    BY DEF Unpaid, Ranks
  <1>7. IsFiniteSet(WentOut)
    <2>1. WentOut \subseteq Campaigns
      BY DEF WentOut
    <2> QED BY <2>1, FS_Subset
  <1>8. CASE op = "publish"
    <2>1. status[c] = "draft" /\ status'[c] = "published"
      BY <1>3, <1>5, <1>8 DEF Accepted, Result
    <2>2. WentOut' = WentOut \cup {c} /\ c \notin WentOut
      BY <1>1, <1>5, <2>1 DEF WentOut
    <2>3. overhead' = overhead + pool[c]
      BY <1>3, <1>8
    <2>4. SumFunctionOnSet(pool, WentOut \cup {c}) = pool[c] + SumFunctionOnSet(pool, WentOut)
      <3>1. \A i \in WentOut \cup {c} : pool[i] \in Int
        BY <1>1 DEF WentOut
      <3> QED BY <1>7, <2>2, <3>1, SumAdd
    <2>5. overhead' = SumFunctionOnSet(pool', WentOut')
      BY <1>1, <1>4, <2>2, <2>3, <2>4
    <2>6. \A d \in Campaigns : status'[d] \in {"absent", "draft", "cancelled"} => Unpaid(d)
      BY <1>4, <1>5, <2>1
    <2> QED BY <1>6, <2>5, <2>6
  <1>9. CASE op # "publish"
    <2>1. \/ status[c] = "published" /\ status'[c] = "closed"
          \/ status[c] = "draft" /\ status'[c] = "cancelled"
      BY <1>1, <1>3, <1>5, <1>9 DEF Accepted, Result, CampaignOps
    <2>2. WentOut' = WentOut
      BY <1>1, <1>5, <2>1 DEF WentOut
    <2>3. overhead' = overhead + 0
      BY <1>3, <1>9
    <2>4. \A d \in Campaigns : status'[d] \in {"absent", "draft", "cancelled"} => Unpaid(d)
      BY <1>4, <1>5, <2>1
    <2> QED BY <1>1, <1>4, <1>6, <2>2, <2>3, <2>4
  <1> QED BY <1>8, <1>9

LEMMA AddingKept ==
    ASSUME PayInv, AddingPublishes, [CampaignNext \/ PayoutNext]_programVars
    PROVE  AddingPublishes'
  <1> SUFFICES ASSUME NEW w \in Visits, visit'[w].at = "adding"
               PROVE  visit'[w].op = "publish"
    BY DEF AddingPublishes
  <1> USE DEF PayInv, ProgramsTypeOK
  <1>1. ASSUME UNCHANGED visit PROVE visit'[w].op = "publish"
    BY <1>1 DEF AddingPublishes
  <1>2. ASSUME NEW v \in Visits, NEW op, NEW row, ReadStatus(v, op, row)
        PROVE  visit'[w].op = "publish"
    BY <1>2 DEF ReadStatus, AddingPublishes
  <1>3. ASSUME NEW v \in Visits, NEW changed, WriteStatus(v, changed)
        PROVE  visit'[w].op = "publish"
    BY <1>3 DEF WriteStatus, AddingPublishes
  <1>4. ASSUME NEW v \in Visits, BeginPublish(v) PROVE visit'[w].op = "publish"
    BY <1>4 DEF BeginPublish, Writes, AddingPublishes
  <1> QED
    <2>1. CASE CampaignNext
      <3>1. ASSUME NEW v \in CampaignVisits,
                   \/ PublishEmpty(v) \/ BeginPublish(v) \/ CommitPublish(v)
                   \/ CloseCampaign(v) \/ OnlyStatus(v)
            PROVE  visit'[w].op = "publish"
        BY <1>3, <1>4, <3>1 DEF PublishEmpty, CommitPublish, CloseCampaign, OnlyStatus
      <3>2. ASSUME \/ \E c \in Campaigns : \/ CreateCampaign(c) \/ DeadlinePasses(c)
                                          \/ \E i \in Ranks(c) : ClaimShare(c, i)
                   \/ ExpireAllocations
            PROVE  UNCHANGED visit
        BY <3>2 DEF CreateCampaign, DeadlinePasses, ClaimShare, ExpireAllocations
      <3>3. ASSUME NEW v \in CampaignVisits, NEW op, NEW c, ReadStatus(v, op, c)
            PROVE  visit'[w].op = "publish"
        BY <1>2, <3>3
      <3> QED BY <1>1, <2>1, <3>1, <3>2, <3>3 DEF CampaignNext
    <2>2. CASE PayoutNext
      BY <1>2, <1>3, <2>2 DEF PayoutNext, OnlyStatus, PayPayout
    <2>3. CASE UNCHANGED programVars
      BY <1>1, <2>3 DEF programVars
    <2> QED BY <2>1, <2>2, <2>3

\* The operations that write one status and move no money.
LEMMA OnlyStatusCarries ==
    ASSUME PayInv, CarriedExact, NEW v \in Visits, OnlyStatus(v)
    PROVE  CarriedExact'
  <1>1. /\ visit[v].at = "read" /\ visit[v].op \in {"cancel", "approve", "reject"} \cup ReferralOps
        /\ WriteStatus(v, Changed(v)) /\ UNCHANGED <<pool, credits, overhead>>
        /\ Changed(v) \in BOOLEAN
    BY DEF OnlyStatus, Writes, claimVars, Changed
  <1>2. CASE visit[v].op = "cancel"
    <2>1. overhead' = overhead + 0
      BY <1>1 DEF PayInv, ProgramsTypeOK
    <2>2. visit[v].op \in CampaignOps /\ visit[v].op # "publish"
      BY <1>2 DEF CampaignOps
    <2> QED BY <1>1, <2>1, <2>2, CarriedMoves
  <1>3. CASE visit[v].op # "cancel"
    <2>1. visit[v].row \in Payouts \cup Referrals
      BY <1>1, <1>3 DEF PayInv, OnOwnTable, PayoutOps, ReferralOps
    <2>2. /\ status' = [status EXCEPT ![visit[v].row] = Result[visit[v].op]]
          /\ overwritten \subseteq overwritten'
      BY <1>1, WriteStatusEffect
    <2>3. \A c \in Campaigns : status'[c] = status[c]
      BY <2>1, <2>2 DEF PayInv, ProgramsTypeOK, TableRows
    <2> QED BY <1>1, <2>2, <2>3, CarriedFrame
  <1> QED BY <1>2, <1>3

LEMMA CampaignsCarry ==
    ASSUME PayInv, PotInv, OverheadInv, CampaignNext
    PROVE  CarriedExact'
  <1> USE DEF OverheadInv
  <1>1. ASSUME NEW c \in Campaigns, CreateCampaign(c) PROVE CarriedExact'
    <2>1. /\ status[c] = "absent" /\ status' = [status EXCEPT ![c] = "draft"]
          /\ \A d \in Campaigns \ {c} : pool'[d] = pool[d]
          /\ UNCHANGED <<overhead, credits, overwritten>>
      BY <1>1 DEF CreateCampaign, PotInv
    <2>2. status'[c] = "draft" /\ \A d \in Campaigns \ {c} : status'[d] = status[d]
      BY <2>1 DEF PayInv, ProgramsTypeOK, TableRows
    <2>3. WentOut' = WentOut /\ c \notin WentOut /\ WentOut \subseteq Campaigns
      BY <2>1, <2>2 DEF WentOut
    <2>4. SumFunctionOnSet(pool', WentOut) = SumFunctionOnSet(pool, WentOut)
      <3>1. IsFiniteSet(WentOut) /\ \A d \in WentOut : pool'[d] = pool[d]
        BY <2>1, <2>3, FS_Subset
      <3> QED BY <3>1, SumSame
    <2>5. \A d : Unpaid(d)' = Unpaid(d)
      BY <2>1 DEF Unpaid, Ranks
    <2> QED BY <2>1, <2>2, <2>3, <2>4, <2>5 DEF CarriedExact
  <1>2. ASSUME NEW c \in Campaigns, NEW i \in Ranks(c), ClaimShare(c, i) PROVE CarriedExact'
    <2>1. /\ status[c] = "published"
          /\ credits' = [credits EXCEPT ![c] = [credits[c] EXCEPT ![i] = credits[c][i] + 1]]
          /\ UNCHANGED <<pool, status, overhead, overwritten>>
      BY <1>2 DEF ClaimShare, Claimable
    <2>2. \A d \in Campaigns \ {c} : Unpaid(d)' = Unpaid(d)
      BY <2>1, PotShape DEF Unpaid, Ranks
    <2>3. WentOut' = WentOut
      BY <2>1 DEF WentOut
    <2> QED BY <2>1, <2>2, <2>3 DEF CarriedExact
  <1>3. ASSUME NEW v \in CampaignVisits, PublishEmpty(v) PROVE CarriedExact'
    <2>1. /\ visit[v].at = "read" /\ visit[v].op = "publish" /\ pool[visit[v].row] = 0
          /\ WriteStatus(v, Changed(v)) /\ UNCHANGED <<pool, credits, overhead>>
          /\ Changed(v) \in BOOLEAN /\ visit[v].op \in CampaignOps
      BY <1>3 DEF PublishEmpty, Writes, Changed, CampaignOps
    <2>2. overhead' = overhead + pool[visit[v].row]
      BY <2>1 DEF PayInv, ProgramsTypeOK
    <2> QED BY <2>1, <2>2, CarriedMoves
  <1>4. ASSUME NEW v \in CampaignVisits, CommitPublish(v) PROVE CarriedExact'
    <2> DEFINE changed == Changed(v) \/ visit[v].carried # overhead
    <2>1. /\ visit[v].at = "adding" /\ visit[v].op = "publish"
          /\ WriteStatus(v, changed) /\ UNCHANGED <<pool, credits>>
          /\ overhead' = visit[v].carried + pool[visit[v].row]
          /\ visit[v].op \in CampaignOps
      BY <1>4 DEF CommitPublish, AddingPublishes, CampaignOps
    <2>2. /\ changed \in BOOLEAN /\ (Changed(v) => changed)
          /\ ~ changed => overhead' = overhead + pool[visit[v].row]
      BY <2>1 DEF Changed
    <2> HIDE DEF changed
    <2> QED BY <2>1, <2>2, CarriedMoves
  <1>5. ASSUME NEW v \in CampaignVisits, CloseCampaign(v) PROVE CarriedExact'
    <2>1. /\ visit[v].at = "read" /\ visit[v].op = "close"
          /\ WriteStatus(v, Changed(v)) /\ UNCHANGED <<pool, credits, overhead>>
          /\ Changed(v) \in BOOLEAN /\ visit[v].op \in CampaignOps /\ visit[v].op # "publish"
      BY <1>5 DEF CloseCampaign, Writes, Changed, CampaignOps
    <2>2. overhead' = overhead + 0
      BY <2>1 DEF PayInv, ProgramsTypeOK
    <2> QED BY <2>1, <2>2, CarriedMoves
  <1>6. ASSUME NEW v \in CampaignVisits, OnlyStatus(v) PROVE CarriedExact'
    BY <1>6, OnlyStatusCarries
  <1>7. ASSUME \/ \E c \in Campaigns : DeadlinePasses(c)
               \/ \E v \in CampaignVisits :
                     \/ \E op \in CampaignOps, c \in Campaigns : ReadStatus(v, op, c)
                     \/ BeginPublish(v)
               \/ ExpireAllocations
        PROVE  CarriedExact'
    <2>1. UNCHANGED <<overhead, pool, credits, status, overwritten>>
      BY <1>7 DEF DeadlinePasses, ReadStatus, BeginPublish, ExpireAllocations, claimVars
    <2> QED BY <2>1, CarriedFrame
  <1> QED BY <1>1, <1>2, <1>3, <1>4, <1>5, <1>6, <1>7 DEF CampaignNext

LEMMA PayoutsCarry ==
    ASSUME PayInv, OverheadInv, PayoutNext
    PROVE  CarriedExact'
  <1> USE DEF OverheadInv
  <1>1. ASSUME NEW v \in Visits, NEW op, NEW row, ReadStatus(v, op, row) PROVE CarriedExact'
    <2>1. UNCHANGED <<overhead, pool, credits, status, overwritten>>
      BY <1>1 DEF ReadStatus, claimVars
    <2> QED BY <2>1, CarriedFrame
  <1>2. ASSUME NEW v \in Visits, PayPayout(v) PROVE CarriedExact'
    <2>1. /\ visit[v].at = "read" /\ visit[v].op = "pay" /\ WriteStatus(v, Changed(v))
          /\ Changed(v) \in BOOLEAN /\ UNCHANGED <<pool, credits, overhead>>
      BY <1>2 DEF PayPayout, Writes, Changed, claimVars
    <2>2. visit[v].row \in Payouts
      BY <2>1 DEF PayInv, OnOwnTable, PayoutOps
    <2>3. /\ status' = [status EXCEPT ![visit[v].row] = Result[visit[v].op]]
          /\ overwritten \subseteq overwritten'
      BY <2>1, WriteStatusEffect
    <2>4. \A c \in Campaigns : status'[c] = status[c]
      BY <2>2, <2>3 DEF PayInv, ProgramsTypeOK, TableRows
    <2> QED BY <2>1, <2>3, <2>4, CarriedFrame
  <1> QED BY <1>1, <1>2, OnlyStatusCarries DEF PayoutNext

LEMMA OverheadOpens == ProgramsInit => OverheadInv
  <1> SUFFICES ASSUME ProgramsInit PROVE OverheadInv
    OBVIOUS
  <1>1. AddingPublishes
    BY DEF ProgramsInit, AddingPublishes
  <1>2. WentOut = {}
    BY DEF ProgramsInit, WentOut
  <1>3. SumFunctionOnSet(pool, WentOut) = 0
    BY <1>2, SumEmpty
  <1>4. overhead = 0 /\ \A c \in Campaigns : Unpaid(c)
    BY DEF ProgramsInit, Unpaid
  <1> QED BY <1>1, <1>3, <1>4 DEF OverheadInv, CarriedExact

\* The overhead that lowers the next net profit is the sum of the pools that
\* went out, once each, for any campaigns and calls of which no two wrote over
\* each other.
THEOREM OverheadIsExplained == ProgramsSpec => []OverheadExplained
  <1> DEFINE Inv == PayInv /\ PotInv /\ OverheadInv
  <1>1. ASSUME Inv, [CampaignNext \/ PayoutNext]_programVars
        PROVE  Inv'
    <2>1. AddingPublishes'
      BY <1>1, AddingKept DEF OverheadInv
    <2>2. CASE CampaignNext
      BY <1>1, <2>1, <2>2, CampaignsKeep, CampaignsKeepPot, CampaignsCarry DEF OverheadInv
    <2>3. CASE PayoutNext
      <3>1. UNCHANGED <<pool, share, allocation, credits>>
        BY <2>3 DEF PayoutNext, ReadStatus, OnlyStatus, PayPayout, claimVars
      <3> QED BY <1>1, <2>1, <2>3, <3>1, PayoutsKeep, PotFrame, PayoutsCarry DEF OverheadInv
    <2>4. CASE UNCHANGED programVars
      <3>1. UNCHANGED <<claimVars, status, overhead, visit, payoutRows, overwritten>>
        BY <2>4 DEF programVars
      <3>2. CarriedExact'
        BY <1>1, <3>1, CarriedFrame DEF claimVars, OverheadInv
      <3> QED BY <1>1, <2>1, <3>1, <3>2, ClaimsKeep, PotFrame DEF claimVars, OverheadInv
    <2> QED BY <1>1, <2>2, <2>3, <2>4
  <1>2. ProgramsInit => Inv
    BY OpeningPays, PotOpens, OverheadOpens
  <1>3. Inv => OverheadExplained
    BY DEF OverheadInv, CarriedExact, OverheadExplained, WentOut, Unpaid
  <1> QED BY <1>1, <1>2, <1>3, PTL DEF ProgramsSpec

HIDE ProgramsAssumption

-----------------------------------------------------------------------------
\* Cash-outs.  A merchant never has more on its book than it took in, and what
\* is set aside is the sum of the open sessions.
SessionsOf(m) == {c \in Cashouts : CashoutOf[c] = m /\ cashout[c] = "pending"}

BookInv ==
    /\ settlement \in [Commerce -> Int]
    /\ settlementLog \in [Commerce -> Seq(SettlementRow)]
    /\ cashoutReserved \in [Commerce -> Int]
    /\ DOMAIN cashout = Cashouts /\ cashout = [c \in Cashouts |-> cashout[c]]
    /\ \A m \in Commerce :
          /\ settlement[m] <= TakenIn(m)
          /\ cashoutReserved[m] = SumFunctionOnSet(TotalOf, SessionsOf(m))
          /\ cashoutReserved[m] <= TakenIn(m)

\* What a log has taken in, which a row that is appended can only raise.
TakenFrom(rows) == SumFunctionOnSet([i \in 1 .. Len(rows) |-> Clamp(rows[i].change)],
                                    1 .. Len(rows))

LEMMA ClampNat == ASSUME NEW x \in Int PROVE Clamp(x) \in Nat /\ x <= Clamp(x)
  BY DEF Clamp

LEMMA RowChange ==
    ASSUME NEW rows \in Seq(SettlementRow), NEW i \in 1 .. Len(rows)
    PROVE  rows[i].change \in Int
  <1> DEFINE R == SettlementRow
  <1>1. \A row \in R : row.change \in Int
    BY DEF SettlementRow
  <1>2. rows \in Seq(R)
    OBVIOUS
  <1> HIDE DEF R
  <1>3. rows[i] \in R
    BY <1>2
  <1> QED BY <1>1, <1>3

LEMMA TakenInt ==
    ASSUME NEW rows \in Seq(SettlementRow)
    PROVE  TakenFrom(rows) \in Nat
  <1> DEFINE f == [i \in 1 .. Len(rows) |-> Clamp(rows[i].change)]
  <1>1. \A i \in 1 .. Len(rows) : f[i] \in Nat
    BY RowChange, ClampNat
  <1>2. IsFiniteSet(1 .. Len(rows))
    <2>1. Len(rows) \in Int /\ 1 \in Int
      OBVIOUS
    <2> QED BY <2>1, FS_Interval
  <1> HIDE DEF f
  <1>3. SumFunctionOnSet(f, 1 .. Len(rows)) \in Nat
    BY <1>1, <1>2, SumNat
  <1> QED BY <1>3 DEF f, TakenFrom

LEMMA TakenGrows ==
    ASSUME NEW rows \in Seq(SettlementRow), NEW row \in SettlementRow
    PROVE  TakenFrom(Append(rows, row)) = Clamp(row.change) + TakenFrom(rows)
  <1> DEFINE n == Len(rows)
             longer == Append(rows, row)
             f == [i \in 1 .. n |-> Clamp(rows[i].change)]
             g == [i \in 1 .. Len(longer) |-> Clamp(longer[i].change)]
  <1>1. n \in Nat /\ Len(longer) = n + 1 /\ longer[n + 1] = row
        /\ \A i \in 1 .. n : longer[i] = rows[i]
    OBVIOUS
  <1>2. 1 .. Len(longer) = (1 .. n) \cup {n + 1} /\ n + 1 \notin 1 .. n
    BY <1>1
  <1>3. /\ \A i \in 1 .. n : f[i] \in Int /\ g[i] = f[i]
        /\ g[n + 1] = Clamp(row.change) /\ g[n + 1] \in Int
    <2>1. \A i \in 1 .. n : f[i] = Clamp(rows[i].change) /\ rows[i].change \in Int
      BY RowChange
    <2>2. g[n + 1] = Clamp(row.change) /\ row.change \in Int
      <3>1. row.change \in Int
        BY DEF SettlementRow
      <3>2. n + 1 \in 1 .. Len(longer)
        BY <1>2
      <3>3. g[n + 1] = Clamp(longer[n + 1].change)
        BY <3>2
      <3> QED BY <1>1, <3>1, <3>3
    <2>3. \A i \in 1 .. n : g[i] = f[i]
      BY <1>1, <1>2
    <2>4. \A i \in 1 .. n : Clamp(rows[i].change) \in Int
      <3>1. \A x \in Int : Clamp(x) \in Int
        BY ClampNat
      <3> QED BY <2>1, <3>1
    <2>5. Clamp(row.change) \in Int
      <3>1. row.change \in Int
        BY <2>2
      <3> HIDE DEF f, g, n, longer
      <3> QED BY <3>1, ClampNat
    <2> HIDE DEF f, g, n, longer
    <2>6. \A i \in 1 .. n : f[i] = Clamp(rows[i].change)
      BY <2>1
    <2> QED BY <2>2, <2>3, <2>4, <2>5, <2>6
  <1>4. IsFiniteSet(1 .. n)
    BY <1>1, FS_Interval
  <1> HIDE DEF f, g, longer, n
  <1>8. \A i \in 1 .. n : f[i] \in Int /\ g[i] = f[i]
    BY <1>3
  <1>9. n + 1 \notin 1 .. n /\ g[n + 1] \in Int
    BY <1>2, <1>3
  <1>5. SumFunctionOnSet(g, (1 .. n) \cup {n + 1}) = g[n + 1] + SumFunctionOnSet(f, 1 .. n)
    <2> DEFINE S == 1 .. n
               x == n + 1
    <2>1. IsFiniteSet(S) /\ x \notin S /\ g[x] \in Int
          /\ \A i \in S : f[i] \in Int /\ g[i] = f[i]
      BY <1>4, <1>8, <1>9
    <2> HIDE DEF S, x
    <2>2. SumFunctionOnSet(g, S \cup {x}) = g[x] + SumFunctionOnSet(f, S)
      BY <2>1, SumGrow
    <2> QED BY <2>2 DEF S, x
  <1>6. TakenFrom(longer) = SumFunctionOnSet(g, 1 .. Len(longer))
    BY DEF TakenFrom, g
  <1>7. TakenFrom(rows) = SumFunctionOnSet(f, 1 .. n)
    BY DEF TakenFrom, f, n
  <1> QED BY <1>2, <1>3, <1>5, <1>6, <1>7 DEF longer

LEMMA TakenIs == \A m : TakenIn(m) = TakenFrom(settlementLog[m])
  BY DEF TakenIn, TakenFrom, SumFunction

\* A request that changes its status and sets nothing aside.
LEMMA RequestMoves ==
    ASSUME BookInv, NEW c \in Cashouts, NEW st, st # "pending", cashout[c] # "pending",
           cashout' = [cashout EXCEPT ![c] = st], UNCHANGED <<settlementVars, cashoutReserved>>
    PROVE  BookInv'
  <1>1. \A m : SessionsOf(m)' = SessionsOf(m)
    BY DEF SessionsOf, BookInv
  <1>2. \A m : TakenIn(m)' = TakenIn(m)
    BY TakenIs DEF settlementVars, TakenIn
  <1>3. cashout' = [d \in Cashouts |-> cashout'[d]]
    BY DEF BookInv
  <1> QED BY <1>1, <1>2, <1>3 DEF BookInv, settlementVars

\* Money is set aside under the lock of the merchant's row, which still shows it.
LEMMA ReserveKeeps ==
    ASSUME BookInv, NEW c \in Cashouts, ReserveCashout(c)
    PROVE  BookInv'
  <1> DEFINE m == CashoutOf[c]
  <1>1. /\ cashout[c] = "checked" /\ TotalOf[c] <= settlement[m] - cashoutReserved[m]
        /\ cashout' = [cashout EXCEPT ![c] = "pending"]
        /\ cashoutReserved' = [cashoutReserved EXCEPT ![m] = cashoutReserved[m] + TotalOf[c]]
        /\ UNCHANGED settlementVars
    BY DEF ReserveCashout, StillCovers, Available
  <1>2. m \in Commerce /\ TotalOf[c] \in Nat
    BY CashoutAssumption
  <1> HIDE DEF m
  <1>3. \A n : TakenIn(n)' = TakenIn(n)
    BY <1>1 DEF settlementVars, TakenIn
  <1>4. cashout' = [d \in Cashouts |-> cashout'[d]]
    BY <1>1 DEF BookInv
  <1>5. cashoutReserved' \in [Commerce -> Int]
    BY <1>1, <1>2 DEF BookInv
  <1>6. ASSUME NEW n \in Commerce
        PROVE  /\ settlement'[n] <= TakenIn(n)'
               /\ cashoutReserved'[n] = SumFunctionOnSet(TotalOf, SessionsOf(n)')
               /\ cashoutReserved'[n] <= TakenIn(n)'
    <2>1. /\ settlement[n] \in Int /\ cashoutReserved[n] \in Int
          /\ settlement[n] <= TakenIn(n)
          /\ cashoutReserved[n] = SumFunctionOnSet(TotalOf, SessionsOf(n))
          /\ cashoutReserved[n] <= TakenIn(n)
      BY DEF BookInv
    <2>2. TakenIn(n) \in Nat
      BY TakenIs, TakenInt DEF BookInv
    <2>3. settlement'[n] = settlement[n]
      BY <1>1 DEF settlementVars
    <2>4. CASE n = m
      <3>1. SessionsOf(n)' = SessionsOf(n) \cup {c} /\ c \notin SessionsOf(n)
        BY <1>1, <2>4 DEF SessionsOf, BookInv, m
      <3>2. SumFunctionOnSet(TotalOf, SessionsOf(n) \cup {c})
               = TotalOf[c] + SumFunctionOnSet(TotalOf, SessionsOf(n))
        <4>1. IsFiniteSet(SessionsOf(n)) /\ \A d \in SessionsOf(n) \cup {c} : TotalOf[d] \in Int
          <5>1. SessionsOf(n) \subseteq Cashouts
            BY DEF SessionsOf
          <5> QED BY <5>1, CashoutAssumption, FS_Subset
        <4> QED BY <3>1, <4>1, SumAdd
      <3>3. cashoutReserved'[n] = cashoutReserved[n] + TotalOf[c]
        BY <1>1, <1>2, <2>4 DEF BookInv
      <3>4. TotalOf[c] <= settlement[n] - cashoutReserved[n]
        BY <1>1, <2>4
      <3>5. cashoutReserved'[n] <= TakenIn(n)
        BY <1>2, <2>1, <2>2, <3>3, <3>4
      <3> QED BY <1>2, <1>3, <2>1, <2>3, <3>1, <3>2, <3>3, <3>5
    <2>5. CASE n # m
      <3>1. SessionsOf(n)' = SessionsOf(n)
        BY <1>1, <2>5 DEF SessionsOf, BookInv, m
      <3>2. cashoutReserved'[n] = cashoutReserved[n]
        BY <1>1, <2>5 DEF BookInv
      <3> QED BY <1>3, <2>1, <2>3, <3>1, <3>2
    <2> QED BY <2>4, <2>5
  <1> QED BY <1>1, <1>4, <1>5, <1>6 DEF BookInv, settlementVars

\* Flows A and B post to the book: what comes in is taken in.
LEMMA MovesKeep ==
    ASSUME BookInv, NEW ref \in Refs, BookMoves(ref)
    PROVE  BookInv'
  <1> DEFINE m == Move[ref].merchant
             change == Move[ref].change
  <1>1. m \in Commerce /\ change \in Int
    BY CashoutAssumption
  <1>2. PICK reason \in {"merchant_credit", "spend"} :
           /\ settlement' = [settlement EXCEPT ![m] = settlement[m] + change]
           /\ settlementLog' = [settlementLog EXCEPT
                 ![m] = Append(settlementLog[m], LogRow(reason, ref, change, settlement[m]))]
           /\ UNCHANGED <<cashout, cashoutReserved>>
    BY DEF BookMoves, PostSettlement
  <1> HIDE DEF m, change
  <1> DEFINE row == LogRow(reason, ref, change, settlement[m])
  <1>3. row \in SettlementRow /\ row.change = change
    BY <1>1 DEF LogRow, SettlementRow, SettlementReasons, BookInv
  <1>4. settlementLog' = [settlementLog EXCEPT ![m] = Append(settlementLog[m], row)]
    BY <1>2
  <1> HIDE DEF row
  <1>5. settlementLog' \in [Commerce -> Seq(SettlementRow)] /\ settlement' \in [Commerce -> Int]
    BY <1>1, <1>2, <1>3, <1>4 DEF BookInv
  <1>6. \A n : SessionsOf(n)' = SessionsOf(n)
    BY <1>2 DEF SessionsOf
  <1>7. ASSUME NEW n \in Commerce
        PROVE  settlement'[n] <= TakenIn(n)' /\ cashoutReserved'[n] <= TakenIn(n)'
    <2>1. /\ settlement[n] \in Int /\ cashoutReserved[n] \in Int
          /\ settlementLog[n] \in Seq(SettlementRow)
          /\ settlement[n] <= TakenIn(n) /\ cashoutReserved[n] <= TakenIn(n)
      BY DEF BookInv
    <2>2. TakenIn(n) = TakenFrom(settlementLog[n]) /\ TakenIn(n)' = TakenFrom(settlementLog'[n])
      BY TakenIs DEF TakenIn, TakenFrom, SumFunction
    <2>3. TakenIn(n) \in Nat
      BY <2>1, <2>2, TakenInt
    <2>4. CASE n = m
      <3>1. settlementLog'[n] = Append(settlementLog[n], row)
        BY <1>4, <2>4 DEF BookInv
      <3>2. TakenIn(n)' = Clamp(change) + TakenIn(n)
        BY <1>3, <2>1, <2>2, <3>1, TakenGrows
      <3>3. Clamp(change) \in Nat /\ change <= Clamp(change)
        BY <1>1, ClampNat
      <3>4. settlement'[n] = settlement[n] + change
        BY <1>2, <2>4 DEF BookInv
      <3> QED BY <1>1, <1>2, <2>1, <2>3, <3>2, <3>3, <3>4
    <2>5. CASE n # m
      <3>1. settlementLog'[n] = settlementLog[n] /\ settlement'[n] = settlement[n]
        BY <1>2, <1>4, <2>5 DEF BookInv
      <3> QED BY <1>2, <2>1, <2>2, <3>1
    <2> QED BY <2>4, <2>5
  <1> QED BY <1>2, <1>5, <1>6, <1>7 DEF BookInv

LEMMA BookOpens == CashoutInit => BookInv
  <1> SUFFICES ASSUME CashoutInit PROVE BookInv
    OBVIOUS
  <1>1. /\ settlement = OpeningSettlement /\ settlement \in [Commerce -> Int]
        /\ cashoutReserved = [m \in Commerce |-> 0]
        /\ cashout = [c \in Cashouts |-> "new"]
    BY SettlementAssumption DEF CashoutInit, SettlementInit
  <1>2. \A m \in Commerce : SumFunctionOnSet(TotalOf, SessionsOf(m)) = 0
    <2>1. \A m : SessionsOf(m) = {}
      BY <1>1 DEF SessionsOf
    <2> QED BY <2>1, SumEmpty
  <1>3. ASSUME NEW m \in Commerce
        PROVE  settlementLog[m] \in Seq(SettlementRow) /\ settlement[m] <= TakenIn(m)
               /\ 0 <= TakenIn(m)
    <2> DEFINE row == LogRow("manual_settlement", NoRef, OpeningSettlement[m], 0)
    <2>1. row \in SettlementRow /\ row.change = settlement[m] /\ settlement[m] \in Int
      BY <1>1 DEF LogRow, SettlementRow, SettlementReasons
    <2>2. settlementLog[m] = IF settlement[m] = 0 THEN << >> ELSE << row >>
      BY <1>1 DEF CashoutInit, SettlementInit
    <2> HIDE DEF row
    <2>3. settlementLog[m] \in Seq(SettlementRow)
      BY <2>1, <2>2
    <2>4. TakenIn(m) = TakenFrom(settlementLog[m]) /\ TakenIn(m) \in Nat
      BY <2>3, TakenIs, TakenInt
    <2>5. CASE settlement[m] = 0
      BY <2>3, <2>4, <2>5
    <2>6. CASE settlement[m] # 0
      <3>1. settlementLog[m] = Append(<< >>, row) /\ << >> \in Seq(SettlementRow)
        BY <2>1, <2>2, <2>6
      <3>2. TakenIn(m) = Clamp(settlement[m]) + TakenFrom(<< >>)
        BY <2>1, <2>4, <3>1, TakenGrows
      <3>3. TakenFrom(<< >>) \in Nat /\ settlement[m] <= Clamp(settlement[m])
            /\ Clamp(settlement[m]) \in Nat
        BY <2>1, <3>1, TakenInt, ClampNat
      <3> QED BY <2>1, <2>3, <2>4, <3>2, <3>3
    <2> QED BY <2>5, <2>6
  <1>4. settlementLog \in [Commerce -> Seq(SettlementRow)]
    BY <1>3 DEF CashoutInit, SettlementInit
  <1> QED BY <1>1, <1>2, <1>3, <1>4 DEF BookInv

\* Open cash-outs together stay within what the merchant took in, and the
\* column that sets them aside is their sum, for any merchants, requests at the
\* same moment, amounts and credits drawn meanwhile.
THEOREM CashoutsCovered == CashoutSpec => []CashoutCovered
  <1>1. ASSUME BookInv, [CashoutNext]_cashoutVars PROVE BookInv'
    <2>1. ASSUME NEW c \in Cashouts, CheckCashout(c) \/ RefuseCashout(c) PROVE BookInv'
      <3>1. \E st \in {"checked", "refused"} : cashout' = [cashout EXCEPT ![c] = st]
        BY <2>1 DEF CheckCashout, RefuseCashout
      <3>2. cashout[c] # "pending" /\ UNCHANGED <<settlementVars, cashoutReserved>>
        BY <2>1 DEF CheckCashout, RefuseCashout
      <3> QED BY <1>1, <3>1, <3>2, RequestMoves
    <2>2. ASSUME UNCHANGED <<settlementVars, cashout, cashoutReserved>> PROVE BookInv'
      BY <1>1, <2>2 DEF BookInv, settlementVars, SessionsOf, TakenIn
    <2>3. ASSUME NEW c \in Cashouts, CashoutCallback(c) PROVE BookInv'
      BY <2>2, <2>3 DEF CashoutCallback
    <2>4. CASE UNCHANGED cashoutVars
      BY <2>2, <2>4 DEF cashoutVars
    <2>5. ASSUME NEW c \in Cashouts, ReserveCashout(c) PROVE BookInv'
      BY <1>1, <2>5, ReserveKeeps
    <2>6. ASSUME NEW ref \in Refs, BookMoves(ref) PROVE BookInv'
      BY <1>1, <2>6, MovesKeep
    <2> QED BY <1>1, <2>1, <2>3, <2>4, <2>5, <2>6 DEF CashoutNext
  <1>2. BookInv => CashoutCovered
    BY DEF BookInv, CashoutCovered, SessionsOf
  <1> QED BY <1>1, <1>2, BookOpens, PTL DEF CashoutSpec
=============================================================================
