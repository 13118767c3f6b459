------------------------------- MODULE SignIn -------------------------------
(***************************************************************************)
(* What a user proves to get a session: the password, under the lockout      *)
(* counter; a TOTP code, under the latch of the last step used; a backup       *)
(* code; the link of a password reset.  Each of them is used up or counted       *)
(* when it is judged, but only the backup code in the statement that judges        *)
(* it: the others read a row, judge, and write later, with no lock between.          *)
(***************************************************************************)
EXTENDS Naturals, FiniteSets

CONSTANTS
    Attempts,    \* logins of one account under way at once
    Threshold,   \* LOCKOUT_THRESHOLD
    MaxGuesses,  \* bound on failed_login_count
    Challenges,  \* mfaChallenge and confirmPasswordReset calls under way at once
    MaxStep,     \* bound on the TOTP step, Unix seconds / 30
    BackupCodes  \* backup codes that are ever drawn

ASSUME SignInAssumption ==
    /\ IsFiniteSet(Attempts) /\ Attempts # {} /\ Threshold \in Nat \ {0}
    /\ MaxGuesses \in Nat /\ MaxStep \in Nat

VARIABLES
    failed,     \* users.failed_login_count
    locked,     \* users.locked_until lies ahead
    seen,       \* the count an attempt has read, while its password is judged
    guesses,    \* passwords judged wrong since a lock or a reset
    now,        \* the current TOTP step
    lastStep,   \* user_mfa_factors.last_used_step, 0 for NULL
    challenge,  \* the step a challenge has matched, and the latch it read
    passed,   \* how often the code of a step has given a session
    rewound,    \* the latch was written by a call that had not read its value
    undrawn,    \* backup codes not drawn yet
    unused,     \* backup codes with consumed_at NULL
    spent,      \* how often a backup code has given a session
    link,       \* the reset link: fresh or consumed
    resetting,  \* confirmations that have found the link fresh
    resets,     \* passwords set with the link
    together    \* two confirmations found the link fresh together

passwordVars == <<failed, locked, seen, guesses>>
totpVars == <<now, lastStep, challenge, passed, rewound>>
backupVars == <<undrawn, unused, spent>>
resetVars == <<link, resetting, resets, together>>
signInVars == <<passwordVars, totpVars, backupVars, resetVars>>

NoSnapshot == MaxGuesses + 1
NoMatch == [step |-> 0, read |-> 0]
\* Uses are counted up to two.
Once(n) == IF n = 2 THEN 2 ELSE n + 1

-----------------------------------------------------------------------------
\* login: the row is read; a locked account is refused here.
ReadUser(a) ==
    /\ seen[a] = NoSnapshot /\ ~ locked
    /\ seen' = [seen EXCEPT ![a] = failed]
    /\ UNCHANGED <<failed, locked, guesses, totpVars, backupVars, resetVars>>

\* The counter grows in SQL; whether to lock was decided on the count read.
CountFailure_Stale(a) == failed' = seen[a] + 1
CountFailure(a) == failed' = failed + 1

WrongPassword(a) ==
    /\ seen[a] # NoSnapshot /\ failed < MaxGuesses
    /\ CountFailure(a)
    /\ LET lock == seen[a] + 1 >= Threshold IN
       /\ locked' = (locked \/ lock)
       /\ guesses' = IF lock THEN 0 ELSE guesses + 1
    /\ seen' = [seen EXCEPT ![a] = NoSnapshot]
    /\ UNCHANGED <<totpVars, backupVars, resetVars>>

\* A success resets the counter and the lock, if it had read a count.
RightPassword(a) ==
    /\ seen[a] # NoSnapshot
    /\ \/ /\ seen[a] # 0
          /\ failed' = 0 /\ locked' = FALSE /\ guesses' = 0
       \/ /\ seen[a] = 0
          /\ UNCHANGED <<failed, locked, guesses>>
    /\ seen' = [seen EXCEPT ![a] = NoSnapshot]
    /\ UNCHANGED <<totpVars, backupVars, resetVars>>

\* ACCOUNT_FROZEN is thrown after the password and before the reset.
Frozen(a) ==
    /\ seen[a] # NoSnapshot
    /\ seen' = [seen EXCEPT ![a] = NoSnapshot]
    /\ UNCHANGED <<failed, locked, guesses, totpVars, backupVars, resetVars>>

\* LOCKOUT_WINDOW_SEC pass; the counter stays.
LockEnds ==
    /\ locked /\ locked' = FALSE
    /\ UNCHANGED <<failed, seen, guesses, totpVars, backupVars, resetVars>>

-----------------------------------------------------------------------------
\* verifyTotpCodeWithStep: the current step and one to each side.
InWindow(s) == s \in 1 .. MaxStep /\ s + 1 >= now /\ s <= now + 1

\* mfaChallenge: the factor is read, the code matched, a used step refused.
Reused_Older(s) == lastStep > s
Reused(s) == lastStep >= s

MatchStep(c, s) ==
    /\ challenge[c] = NoMatch /\ InWindow(s) /\ ~ Reused(s)
    /\ challenge' = [challenge EXCEPT ![c] = [step |-> s, read |-> lastStep]]
    /\ UNCHANGED <<passwordVars, now, lastStep, passed, rewound, backupVars, resetVars>>

\* The latch is written by the factor's id, and the session issued.
LatchStep(c) ==
    /\ challenge[c] # NoMatch
    /\ lastStep' = challenge[c].step
    /\ rewound' = (rewound \/ lastStep # challenge[c].read)
    /\ passed' = [passed EXCEPT ![challenge[c].step] = Once(@)]
    /\ challenge' = [challenge EXCEPT ![c] = NoMatch]
    /\ UNCHANGED <<passwordVars, now, backupVars, resetVars>>

\* regenerateMfaBackupCodes: every row is deleted, a new set inserted.
RegenerateCodes(set) ==
    /\ undrawn' = undrawn \ set
    /\ unused' = set
    /\ UNCHANGED <<spent, passwordVars, totpVars, resetVars>>

\* mfaVerifyEnrollment sets the latch without asking for it.  The codes it then
\* draws and the sessions it revokes are commits of their own, with other steps
\* between: RegenerateCodes, and BeginSweep of Sessions.
VerifyEnrollment(s) ==
    /\ InWindow(s)
    /\ lastStep' = s /\ rewound' = (rewound \/ s < lastStep)
    /\ UNCHANGED <<passwordVars, now, challenge, passed, backupVars, resetVars>>

Tick ==
    /\ now < MaxStep /\ now' = now + 1
    /\ UNCHANGED <<passwordVars, lastStep, challenge, passed, rewound,
                   backupVars, resetVars>>

-----------------------------------------------------------------------------
\* consumeMfaBackupCode: one UPDATE over the unused rows.
Consumable(k) == k \in unused

ConsumeCode(k) ==
    /\ Consumable(k)
    /\ unused' = unused \ {k}
    /\ spent' = [spent EXCEPT ![k] = Once(@)]
    /\ UNCHANGED <<undrawn, passwordVars, totpVars, resetVars>>

\* confirmPasswordReset: the link is read, then consumed by id.
ReadLink(c) ==
    /\ link = "fresh" /\ c \notin resetting
    /\ resetting' = resetting \cup {c}
    /\ together' = (together \/ resetting # {})
    /\ UNCHANGED <<passwordVars, totpVars, backupVars, link, resets>>

SetPassword(c) ==
    /\ c \in resetting
    /\ link' = "consumed" /\ resets' = Once(resets)
    /\ resetting' = resetting \ {c}
    /\ UNCHANGED <<passwordVars, totpVars, backupVars, together>>

-----------------------------------------------------------------------------
SignInInit ==
    /\ failed = 0 /\ locked = FALSE /\ guesses = 0
    /\ seen = [a \in Attempts |-> NoSnapshot]
    /\ now = 1 /\ lastStep = 0 /\ rewound = FALSE
    /\ challenge = [c \in Challenges |-> NoMatch]
    /\ passed = [s \in 1 .. MaxStep |-> 0]
    /\ undrawn = BackupCodes /\ unused = {}
    /\ spent = [k \in BackupCodes |-> 0]
    /\ link = "fresh" /\ resetting = {} /\ resets = 0 /\ together = FALSE

PasswordNext ==
    \/ \E a \in Attempts :
          ReadUser(a) \/ WrongPassword(a) \/ RightPassword(a) \/ Frozen(a)
    \/ LockEnds

FactorNext ==
    \/ \E c \in Challenges, s \in 1 .. MaxStep : MatchStep(c, s)
    \/ \E c \in Challenges : LatchStep(c)
    \/ \E set \in SUBSET undrawn : RegenerateCodes(set)
    \/ \E s \in 1 .. MaxStep : VerifyEnrollment(s)
    \/ Tick
    \/ \E k \in BackupCodes : ConsumeCode(k)

ResetNext == \E c \in Challenges : ReadLink(c) \/ SetPassword(c)

SignInNext == PasswordNext \/ FactorNext \/ ResetNext

SignInSpec == SignInInit /\ [][SignInNext]_signInVars

-----------------------------------------------------------------------------
\* The lockout takes hold in spite of the stale count it is decided on: no more
\* wrong passwords than the threshold allows, and one for each login that was
\* under way with an older count, are judged without a lock or a success.
LockoutTakesHold == guesses <= Threshold + Cardinality(Attempts) - 2

\* A code, a backup code and a reset link each work once.  The code of a step
\* works again only after the latch was overwritten by a call that had not
\* read it, or moved back by a repeated enrolment; a link only for
\* confirmations that found it fresh together.
UsedOnce ==
    /\ \A s \in 1 .. MaxStep : passed[s] > 1 => rewound
    /\ \A k \in BackupCodes : spent[k] <= 1
    /\ resets > 1 => together
=============================================================================
