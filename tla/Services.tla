------------------------------ MODULE Services ------------------------------
(***************************************************************************)
(* The parts of the API that stand around the money flows: the merchant     *)
(* middleware, the scheduler with the outbox, the sessions, what a user signs  *)
(* in with, cash-out, the bonus programmes, and the pool of connections that     *)
(* each takes from.  They share one process and one database, but no row: a        *)
(* behaviour of the whole is, apart from that pool, an interleaving of             *)
(* behaviours of parts that cannot influence each other.  So each behaviour here    *)
(* moves one part, chosen at the start, and the rest stand still.                     *)
(***************************************************************************)
EXTENDS MerchantApi, Workers, Sessions, SignIn, Cashout, Programs, Connections

VARIABLE part  \* the part a behaviour moves

moneyVars == <<cashoutVars, programVars, connectionVars>>
vars == <<merchantVars, workerVars, sessionVars, signInVars, moneyVars, part>>

Parts == {"requests", "outbox", "sessions", "passwords", "factors", "resets",
          "cashouts", "campaigns", "payouts", "connections"}

Init ==
    /\ part \in Parts
    /\ MerchantInit /\ WorkersInit /\ SessionsInit /\ SignInInit
    /\ CashoutInit /\ ProgramsInit /\ ConnectionsInit
    /\ part = "campaigns" \/ share = CHOOSE s \in OpeningShares : TRUE

SignInPart ==
    \/ part = "passwords" /\ PasswordNext
    \/ part = "factors" /\ FactorNext
    \/ part = "resets" /\ ResetNext

ProgramsPart ==
    \/ part = "campaigns" /\ CampaignNext
    \/ part = "payouts" /\ PayoutNext

Next ==
    /\ UNCHANGED part
    /\ \/ /\ part = "requests" /\ MerchantNext
          /\ UNCHANGED <<workerVars, sessionVars, signInVars, moneyVars>>
       \/ /\ part = "outbox" /\ WorkersNext
          /\ UNCHANGED <<merchantVars, sessionVars, signInVars, moneyVars>>
       \/ /\ part = "sessions" /\ SessionsNext
          /\ UNCHANGED <<merchantVars, workerVars, signInVars, moneyVars>>
       \/ /\ SignInPart
          /\ UNCHANGED <<merchantVars, workerVars, sessionVars, moneyVars>>
       \/ /\ part = "cashouts" /\ CashoutNext
          /\ UNCHANGED <<merchantVars, workerVars, sessionVars, signInVars, programVars,
                         connectionVars>>
       \/ /\ ProgramsPart
          /\ UNCHANGED <<merchantVars, workerVars, sessionVars, signInVars, cashoutVars,
                         connectionVars>>
       \/ /\ part = "connections" /\ ConnectionsNext
          /\ UNCHANGED <<merchantVars, workerVars, sessionVars, signInVars, cashoutVars,
                         programVars>>

\* A request that is in flight is answered unless its process dies, the time
\* of a row passes, and the daily purge runs.
RequestsProceed ==
    /\ \A r \in Requests :
          WF_merchantVars(part = "requests" /\ step[r] # "new" /\ Serve(r))
    /\ \A k \in MerchantRefs : WF_merchantVars(part = "requests" /\ Lapse(k))
    /\ WF_merchantVars(part = "requests" /\ PurgeSlots)

\* The job's cron ticks in some process, a run that is not dead goes on, time
\* passes for rows and runs, and the sweep is scheduled hourly.
JobsProceed ==
    /\ WF_workerVars(part = "outbox" /\ \E x \in Slots : StartRun(x))
    /\ \A x \in Slots : WF_workerVars(part = "outbox" /\ Advance(x))
    /\ WF_workerVars(part = "outbox" /\ \E m \in Mails : Stall(m))
    /\ WF_workerVars(part = "outbox" /\ \E m \in Mails : Ripen(m))
    /\ WF_workerVars(part = "outbox" /\ AgeOfDead)
    /\ WF_workerVars(part = "outbox" /\ Sweep)

\* Deadlines pass, the expiry job is scheduled, and a publish that holds a row
\* commits or loses its connection.
CampaignsProceed ==
    /\ \A c \in Campaigns : WF_programVars(part = "campaigns" /\ DeadlinePasses(c))
    /\ \A v \in Visits : WF_programVars(part = "campaigns" /\ CommitPublish(v))
    /\ WF_programVars(part = "campaigns" /\ ExpireAllocations)

\* Transactions go on, and a row or a connection that is free is given to one
\* that waits: as each has finitely many steps, none is passed over for ever.
TransactionsProceed ==
    WF_connectionVars(part = "connections"
                        /\ \E t \in Transactions : GoOn(t) \/ GetRow(t))

Spec ==
    /\ Init /\ [][Next]_vars
    /\ RequestsProceed /\ JobsProceed /\ CampaignsProceed /\ TransactionsProceed
=============================================================================
