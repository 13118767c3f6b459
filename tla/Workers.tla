------------------------------ MODULE Workers ------------------------------
(***************************************************************************)
(* The scheduler's job runner and the job that leaves the house: the        *)
(* dispatcher of event_outbox.  A tick opens a job_runs row, of which the     *)
(* database admits one unfinished per job; a sweep closes the row of a run     *)
(* that started thirty minutes ago, whether its process died or is only slow.  *)
(*                                                                          *)
(* The dispatcher puts rows a dead run left "sending" back in the queue,       *)
(* claims what is due, and for each claimed row sends first and records         *)
(* afterwards.  What the mail server has taken cannot be taken back.  A mail can  *)
(* go out twice because the server took it and its answer did not come in time,    *)
(* because the process died or the record failed before the row said "sent", and    *)
(* because a run went on after the sweep had let another start.                       *)
(***************************************************************************)
EXTENDS Naturals, FiniteSets

CONSTANTS
    Slots,        \* places a run may execute in: processes, and overlapping ticks
    Mails,        \* event_outbox rows
    Addressed,    \* e-mail rows with a recipient; the others are skipped
    MaxAttempts,  \* MAX_ATTEMPTS
    MaxFaults,    \* crashes, overruns, throws and lost answers in a behaviour
    NoSlot,       \* no job_runs row is open
    NoMail        \* a run that is between two rows

ASSUME WorkersAssumption ==
    /\ IsFiniteSet(Slots)
    /\ Addressed \subseteq Mails
    /\ MaxAttempts \in Nat \ {0} /\ MaxFaults \in Nat
    /\ NoSlot \notin Slots /\ NoMail \notin Mails

VARIABLES
    openRow,     \* the run whose job_runs row has no finished_at
    overdue,     \* that row started more than thirty minutes ago
    at,          \* how far the run in a slot is
    batch,       \* rows a run has claimed and not yet handled
    tries,       \* attempts of a claimed row, as RETURNING gave them
    sending,     \* the row a run has sent or failed to send, unrecorded
    accepted,    \* whether sendEmail said that it was taken
    mail,        \* event_outbox.status
    attempts,    \* event_outbox.attempts
    stalled,     \* rows "sending" whose updated_at is five minutes old
    waiting,     \* rows whose scheduled_for lies ahead
    delivered,   \* how often a mail server has taken a row
    faults,      \* faults so far
    unmarked,    \* how often it took a row and no record of that was made
    overruns     \* how often a run was still going when its row became overdue

runVars == <<openRow, overdue, at>>
roundVars == <<batch, tries, sending, accepted>>
outboxVars == <<mail, attempts, stalled, waiting>>
faultVars == <<faults, unmarked, overruns>>
workerVars == <<runVars, roundVars, outboxVars, delivered, faultVars>>

Terminal == {"sent", "failed", "skipped"}
Running(x) == at[x] # "idle"

\* Run x has been told that row m was taken, and has yet to record it.
Unrecorded(x, m) == sending[x] = m /\ accepted[x]

-----------------------------------------------------------------------------
\* runJob: the insert under the partial unique index, or the tick is skipped.
JobFree_NoIndex == TRUE
JobFree == openRow = NoSlot

StartRun(x) ==
    /\ ~ Running(x) /\ JobFree
    /\ openRow' = x /\ overdue' = FALSE
    /\ at' = [at EXCEPT ![x] = "reclaim"]
    /\ UNCHANGED <<roundVars, outboxVars, delivered, faultVars>>

\* runJob, after the job has returned or thrown: the row is closed by its id,
\* which changes nothing when the sweep was there first.
CloseRow(x) ==
    /\ openRow' = IF openRow = x THEN NoSlot ELSE openRow
    /\ overdue' = (overdue /\ openRow # x)
    /\ at' = [at EXCEPT ![x] = "idle"]
    /\ batch' = [batch EXCEPT ![x] = {}]
    /\ sending' = [sending EXCEPT ![x] = NoMail]
    /\ UNCHANGED <<tries, accepted>>

FinishRun(x) ==
    /\ at[x] = "loop" /\ batch[x] = {} /\ sending[x] = NoMail
    /\ CloseRow(x)
    /\ UNCHANGED <<outboxVars, delivered, faultVars>>

\* Thirty minutes pass for the open row of a dead run.
AgeOfDead ==
    /\ openRow # NoSlot /\ ~ overdue /\ ~ Running(openRow)
    /\ overdue' = TRUE
    /\ UNCHANGED <<openRow, at, roundVars, outboxVars, delivered, faultVars>>

\* Thirty minutes pass and the run is still going.
Overrun ==
    /\ openRow # NoSlot /\ ~ overdue /\ Running(openRow)
    /\ faults < MaxFaults
    /\ overdue' = TRUE
    /\ faults' = faults + 1 /\ overruns' = overruns + 1
    /\ UNCHANGED <<openRow, at, roundVars, outboxVars, delivered, unmarked>>

\* reclaimStaleRunningJobs, at start-up and hourly.
Sweep ==
    /\ openRow # NoSlot /\ overdue
    /\ openRow' = NoSlot /\ overdue' = FALSE
    /\ UNCHANGED <<at, roundVars, outboxVars, delivered, faultVars>>

\* A fault that ends run x: a row it was about to record never says "sent".
RunFails(x) ==
    /\ faults < MaxFaults
    /\ faults' = faults + 1
    /\ unmarked' = [m \in Mails |-> unmarked[m] + (IF Unrecorded(x, m) THEN 1 ELSE 0)]
    /\ UNCHANGED overruns

\* The process of a run dies; the job_runs row and the claimed rows stay.
CrashRun(x) ==
    /\ Running(x)
    /\ RunFails(x)
    /\ at' = [at EXCEPT ![x] = "idle"]
    /\ batch' = [batch EXCEPT ![x] = {}]
    /\ sending' = [sending EXCEPT ![x] = NoMail]
    /\ UNCHANGED <<openRow, overdue, tries, accepted, outboxVars, delivered>>

-----------------------------------------------------------------------------
\* reclaimStalledSendingRows.
Reclaimed_None == {}
Reclaimed == {m \in Mails : mail[m] = "sending" /\ m \in stalled}

ReclaimStalled(x) ==
    /\ at[x] = "reclaim"
    /\ mail' = [m \in Mails |-> IF m \in Reclaimed THEN "pending" ELSE mail[m]]
    /\ stalled' = stalled \ Reclaimed
    /\ at' = [at EXCEPT ![x] = "claim"]
    /\ UNCHANGED <<openRow, overdue, roundVars, attempts, waiting, delivered, faultVars>>

\* runDispatcher's claim: one UPDATE over what is due, SKIP LOCKED.
Due == {m \in Mails : mail[m] = "pending" /\ m \notin waiting}

ClaimDue(x) ==
    /\ at[x] = "claim"
    /\ at' = [at EXCEPT ![x] = "loop"]
    /\ batch' = [batch EXCEPT ![x] = Due]
    /\ mail' = [m \in Mails |-> IF m \in Due THEN "sending" ELSE mail[m]]
    /\ attempts' = [m \in Mails |->
                       IF m \in Due THEN attempts[m] + 1 ELSE attempts[m]]
    /\ tries' = [tries EXCEPT ![x] = attempts']
    /\ stalled' = stalled \ Due
    /\ UNCHANGED <<openRow, overdue, sending, accepted, waiting, delivered, faultVars>>

\* The next row of the batch goes to the mail server, and sendEmail says whether
\* it was taken.
Send(x, m, told) ==
    /\ at[x] = "loop" /\ sending[x] = NoMail
    /\ m \in batch[x] \cap Addressed
    /\ sending' = [sending EXCEPT ![x] = m]
    /\ accepted' = [accepted EXCEPT ![x] = told]
    /\ UNCHANGED <<runVars, batch, tries, outboxVars>>

SendMail(x, m, ok) ==
    /\ Send(x, m, ok)
    /\ delivered' = [delivered EXCEPT ![m] = @ + (IF ok THEN 1 ELSE 0)]
    /\ UNCHANGED faultVars

\* The server takes the mail and the socket times out, or breaks, before the
\* answer: sendEmail reports a failure.
LoseAnswer(x, m) ==
    /\ faults < MaxFaults
    /\ Send(x, m, FALSE)
    /\ delivered' = [delivered EXCEPT ![m] = @ + 1]
    /\ faults' = faults + 1
    /\ unmarked' = [unmarked EXCEPT ![m] = @ + 1]
    /\ UNCHANGED overruns

\* Row m of the batch of x gets a status, whatever its status is by now.
Record(x, m, status) ==
    /\ mail' = [mail EXCEPT ![m] = status]
    /\ stalled' = stalled \ {m}
    /\ batch' = [batch EXCEPT ![x] = @ \ {m}]
    /\ sending' = [sending EXCEPT ![x] = NoMail]
    /\ UNCHANGED <<runVars, tries, accepted, attempts, delivered>>

SkipMail(x, m) ==
    /\ at[x] = "loop" /\ sending[x] = NoMail
    /\ m \in batch[x] \ Addressed
    /\ Record(x, m, "skipped")
    /\ UNCHANGED <<waiting, faultVars>>

RecordSent(x) ==
    /\ sending[x] # NoMail /\ accepted[x]
    /\ Record(x, sending[x], "sent")
    /\ UNCHANGED <<waiting, faultVars>>

\* markRetryOrFailed: back to the queue later, or given up.
RetryOrFail(x, m) ==
    \/ /\ tries[x][m] >= MaxAttempts
       /\ Record(x, m, "failed")
       /\ UNCHANGED waiting
    \/ /\ tries[x][m] < MaxAttempts
       /\ Record(x, m, "pending")
       /\ waiting' = waiting \cup {m}

RecordFailure(x) ==
    /\ sending[x] # NoMail /\ ~ accepted[x]
    /\ RetryOrFail(x, sending[x])
    /\ UNCHANGED faultVars

\* The rows the run may be writing "sent" or "skipped" to.
InWriting(x) ==
    IF sending[x] = NoMail THEN batch[x] \ Addressed
    ELSE IF accepted[x] THEN {sending[x]} ELSE {}

\* That UPDATE throws, and the catch block retries the row.
RecordThrows(x) ==
    /\ RunFails(x)
    /\ \E m \in InWriting(x) : RetryOrFail(x, m)

\* The reclaim or the claim throws, or markRetryOrFailed does: the job fails
\* with the rest of its batch still "sending", and runJob records the error.
JobThrows(x) ==
    /\ at[x] \in {"reclaim", "claim"} \/ sending[x] # NoMail \/ InWriting(x) # {}
    /\ RunFails(x)
    /\ CloseRow(x)
    /\ UNCHANGED <<outboxVars, delivered>>

\* Five minutes pass for a row that is "sending".
Stall(m) ==
    /\ mail[m] = "sending" /\ m \notin stalled
    /\ stalled' = stalled \cup {m}
    /\ UNCHANGED <<runVars, roundVars, mail, attempts, waiting, delivered, faultVars>>

\* The back-off of a row is over.
Ripen(m) ==
    /\ m \in waiting
    /\ waiting' = waiting \ {m}
    /\ UNCHANGED <<runVars, roundVars, mail, attempts, stalled, delivered, faultVars>>

-----------------------------------------------------------------------------
WorkersInit ==
    /\ openRow = NoSlot /\ overdue = FALSE
    /\ at = [x \in Slots |-> "idle"]
    /\ batch = [x \in Slots |-> {}]
    /\ tries = [x \in Slots |-> [m \in Mails |-> 0]]
    /\ sending = [x \in Slots |-> NoMail]
    /\ accepted = [x \in Slots |-> FALSE]
    /\ mail = [m \in Mails |-> "pending"]
    /\ attempts = [m \in Mails |-> 0]
    /\ stalled = {} /\ waiting = {}
    /\ delivered = [m \in Mails |-> 0]
    /\ faults = 0 /\ overruns = 0
    /\ unmarked = [m \in Mails |-> 0]

Advance(x) ==
    \/ ReclaimStalled(x) \/ ClaimDue(x)
    \/ \E m \in Mails : SendMail(x, m, TRUE) \/ SendMail(x, m, FALSE) \/ SkipMail(x, m)
    \/ RecordSent(x) \/ RecordFailure(x) \/ FinishRun(x)

WorkersNext ==
    \/ \E x \in Slots :
          \/ StartRun(x) \/ Advance(x)
          \/ RecordThrows(x) \/ JobThrows(x) \/ CrashRun(x)
          \/ \E m \in Mails : LoseAnswer(x, m)
    \/ \E m \in Mails : Stall(m) \/ Ripen(m)
    \/ AgeOfDead \/ Overrun \/ Sweep

WorkersSpec == WorkersInit /\ [][WorkersNext]_workerVars

-----------------------------------------------------------------------------
\* A mail goes out once, and once more at most for each time the server took it
\* and no record of that was made, and for each run that outlived the thirty
\* minutes after which the sweep lets another start.
DeliveredOnce ==
    \A m \in Mails : delivered[m] <= 1 + unmarked[m] + overruns

\* Once the job has started every row ends: sent, skipped for want of a
\* recipient, or failed after MAX_ATTEMPTS, whatever runs die on the way and
\* leave their job_runs row open and their rows "sending".
EveryMailEnds == openRow # NoSlot ~> \A m \in Mails : mail[m] \in Terminal
=============================================================================
