------------------------------ MODULE Sessions ------------------------------
(***************************************************************************)
(* The sessions of one user: the refresh tokens of the API and the browser   *)
(* whose tabs share the cookie that carries one.  A tab that meets a 401      *)
(* takes the browser-wide lock, posts its cookie to /auth/refresh, and is       *)
(* logged out of the page when that fails; a lost connection is retried with     *)
(* the cookie the jar then holds, while the first call may still run.              *)
(*                                                                          *)
(* The API rotates a token in a transaction that locks its row, but issues the    *)
(* new one outside it: issueTokens inserts through the pool, so the new row is      *)
(* there before the COMMIT that revokes the old one, and stays if there is none.     *)
(* Revoking everything (a password change, MFA changes, logout everywhere) is one     *)
(* UPDATE that takes the rows of its snapshot one after the other.                      *)
(***************************************************************************)
EXTENDS Naturals, FiniteSets

CONSTANTS
    MaxTokens,  \* refresh_tokens rows a behaviour may insert
    Tabs,       \* tabs of the user's browser
    Calls,      \* /auth/refresh requests under way at once
    Locking,    \* whether the browser has navigator.locks
    MaxLosses,  \* connections lost and rotations aborted in a behaviour
    Retries,    \* further attempts of fetchWithRetry
    NoTab, NoCall

ASSUME SessionsAssumption ==
    /\ MaxTokens \in Nat \ {0} /\ Locking \in BOOLEAN
    /\ MaxLosses \in Nat /\ Retries \in Nat
    /\ NoTab \notin Tabs /\ NoCall \notin Calls

\* Rows are numbered in the order of their insertion.
Tokens == 1 .. MaxTokens
NoToken == 0

VARIABLES
    token,      \* refresh_tokens: unused, active or revoked
    rowLock,    \* the rotation that holds the row's lock
    call,       \* how far a request is in the API
    old,        \* the token a request presented
    new,        \* the token issued to it
    client,     \* the tab that waits for it
    cookie,     \* the token in the cookie jar
    tab,        \* what a tab is doing about its session
    retried,    \* retries of the refresh a tab is making
    sweep,      \* whether revokeAllForUser is running
    todo,       \* rows of its snapshot it has not come to
    taken,      \* rows it has revoked and not committed
    older,      \* every row that was active when a sweep began
    logins,     \* tokens issued by a login or a challenge
    lost,       \* connections lost
    aborted,    \* rotations rolled back
    ended       \* the user has logged out or revoked everything

apiVars == <<token, rowLock, call, old, new>>
browserVars == <<client, cookie, tab, retried>>
sweepVars == <<sweep, todo, taken, older>>
tallyVars == <<logins, lost, aborted, ended>>
sessionVars == <<apiVars, browserVars, sweepVars, tallyVars>>

Fresh(t) == token[t] = "unused" /\ \A q \in 1 .. t - 1 : token[q] # "unused"
Active == {t \in Tokens : token[t] = "active"}
Unlocked(t) == rowLock[t] = NoCall /\ t \notin taken

-----------------------------------------------------------------------------
\* login ends in issueTokens, and the cookies go to the jar; so does mfaChallenge,
\* which a tab that is signed in calls: the token it had stays as it is.
Login(b, t) ==
    /\ tab[b] \in {"cleared", "idle"} /\ Fresh(t)
    /\ tab[b] = "idle" => cookie # NoToken
    /\ token' = [token EXCEPT ![t] = "active"]
    /\ cookie' = t
    /\ tab' = [tab EXCEPT ![b] = "idle"]
    /\ logins' = logins + 1
    /\ UNCHANGED <<rowLock, call, old, new, client, retried, sweepVars,
                   lost, aborted, ended>>

\* api() is answered 401 and calls refreshOnce, which asks for the lock.
Expired(b) ==
    /\ tab[b] = "idle"
    /\ tab' = [tab EXCEPT ![b] = "waiting"]
    /\ UNCHANGED <<apiVars, client, cookie, retried, sweepVars, tallyVars>>

\* navigator.locks: nobody else is in performRefresh.
MayPost_NoLock(b) == TRUE
MayPost(b) == Locking => \A o \in Tabs \ {b} : tab[o] # "posting"

Post(b, c) ==
    /\ call[c] = "free" /\ cookie # NoToken
    /\ call' = [call EXCEPT ![c] = "sent"]
    /\ old' = [old EXCEPT ![c] = cookie]
    /\ client' = [client EXCEPT ![c] = b]
    /\ tab' = [tab EXCEPT ![b] = "posting"]
    /\ UNCHANGED <<token, rowLock, new, cookie, sweepVars, tallyVars>>

\* performRefresh sends the cookie.
PostRefresh(b, c) ==
    /\ tab[b] = "waiting" /\ MayPost(b)
    /\ Post(b, c)
    /\ retried' = [retried EXCEPT ![b] = 0]

\* fetchWithRetry posts again, with the cookie the jar holds now.
PostAgain(b, c) ==
    /\ tab[b] = "posting" /\ \A o \in Calls : client[o] # b
    /\ retried[b] < Retries
    /\ Post(b, c)
    /\ retried' = [retried EXCEPT ![b] = @ + 1]

\* No cookie (MISSING_REFRESH), or no retry left: the tab is signed out.
GiveUp(b) ==
    /\ \/ tab[b] = "waiting" /\ MayPost(b) /\ cookie = NoToken
       \/ /\ tab[b] = "posting" /\ \A o \in Calls : client[o] # b
          /\ retried[b] = Retries \/ cookie = NoToken
    /\ tab' = [tab EXCEPT ![b] = "cleared"]
    /\ UNCHANGED <<apiVars, client, cookie, retried, sweepVars, tallyVars>>

-----------------------------------------------------------------------------
\* findActiveRefreshTokenForUpdate: the row's lock, then its state.
CanRotate_NoLock(c) == token[old[c]] = "active"
CanRotate(c) == Unlocked(old[c]) /\ token[old[c]] = "active"

LockRow(c) ==
    /\ call[c] = "sent" /\ CanRotate(c)
    /\ rowLock' = [rowLock EXCEPT ![old[c]] = c]
    /\ call' = [call EXCEPT ![c] = "rotating"]
    /\ UNCHANGED <<token, old, new, browserVars, sweepVars, tallyVars>>

\* A token that is known and not active: every row of the user is revoked, and
\* the UnauthorizedError thrown next rolls that back.
RefuseReuse(c) ==
    /\ call[c] = "sent" /\ Unlocked(old[c])
    /\ token[old[c]] = "revoked"
    /\ call' = [call EXCEPT ![c] = "refused"]
    /\ UNCHANGED <<token, rowLock, old, new, browserVars, sweepVars, tallyVars>>

\* issueTokens, through the pool: committed at once.
Issue(c, t) ==
    /\ call[c] = "rotating" /\ Fresh(t)
    /\ token' = [token EXCEPT ![t] = "active"]
    /\ new' = [new EXCEPT ![c] = t]
    /\ call' = [call EXCEPT ![c] = "issued"]
    /\ UNCHANGED <<rowLock, old, browserVars, sweepVars, tallyVars>>

CommitRotation(c) ==
    /\ call[c] = "issued"
    /\ token' = [token EXCEPT ![old[c]] = "revoked"]
    /\ rowLock' = [rowLock EXCEPT ![old[c]] = NoCall]
    /\ call' = [call EXCEPT ![c] = "done"]
    /\ UNCHANGED <<old, new, browserVars, sweepVars, tallyVars>>

\* The transaction is rolled back: the old token lives on.
AbortRotation(c) ==
    /\ call[c] \in {"rotating", "issued"} /\ lost + aborted < MaxLosses
    /\ aborted' = aborted + 1
    /\ rowLock' = [rowLock EXCEPT ![old[c]] = NoCall]
    /\ call' = [call EXCEPT ![c] = "refused"]
    /\ UNCHANGED <<token, old, new, browserVars, sweepVars, logins, lost, ended>>

\* The request is over.
Release(c) ==
    /\ call' = [call EXCEPT ![c] = "free"]
    /\ old' = [old EXCEPT ![c] = NoToken]
    /\ new' = [new EXCEPT ![c] = NoToken]
    /\ UNCHANGED <<token, rowLock>>

\* The answer arrives: a new cookie, or setTokens(null).
Deliver(c) ==
    /\ call[c] \in {"done", "refused"} /\ client[c] # NoTab
    /\ \/ /\ call[c] = "done"
          /\ cookie' = new[c]
          /\ tab' = [tab EXCEPT ![client[c]] = "idle"]
       \/ /\ call[c] = "refused"
          /\ tab' = [tab EXCEPT ![client[c]] = "cleared"]
          /\ UNCHANGED cookie
    /\ client' = [client EXCEPT ![c] = NoTab]
    /\ Release(c)
    /\ UNCHANGED <<retried, sweepVars, tallyVars>>

\* The connection breaks; the request, if it has arrived, goes on without it.
Lose(c) ==
    /\ call[c] # "free" /\ client[c] # NoTab /\ lost + aborted < MaxLosses
    /\ lost' = lost + 1
    /\ client' = [client EXCEPT ![c] = NoTab]
    /\ UNCHANGED <<apiVars, cookie, tab, retried, sweepVars, logins, aborted, ended>>

\* Nobody waits for the answer any more.
Discard(c) ==
    /\ call[c] \in {"done", "refused"} /\ client[c] = NoTab
    /\ Release(c)
    /\ UNCHANGED <<browserVars, sweepVars, tallyVars>>

-----------------------------------------------------------------------------
\* logout of this device: one UPDATE by hash, and the cookies are cleared.
Logout(b) ==
    /\ tab[b] = "idle" /\ cookie # NoToken /\ Unlocked(cookie)
    /\ token' = [token EXCEPT ![cookie] = "revoked"]
    /\ cookie' = NoToken
    /\ tab' = [tab EXCEPT ![b] = "cleared"]
    /\ ended' = TRUE
    /\ UNCHANGED <<rowLock, call, old, new, client, retried, sweepVars,
                   logins, lost, aborted>>

\* revokeAllForUser, one UPDATE: its snapshot, its rows as their locks come
\* free, its commit.
BeginSweep ==
    /\ ~ sweep /\ Active # {}
    /\ sweep' = TRUE /\ todo' = Active /\ taken' = {}
    /\ older' = older \cup Active
    /\ ended' = TRUE
    /\ UNCHANGED <<apiVars, browserVars, logins, lost, aborted>>

RowFree_SkipLocked(t) == TRUE
RowFree(t) == rowLock[t] = NoCall

SweepRow(t) ==
    /\ t \in todo /\ RowFree(t)
    /\ todo' = todo \ {t}
    /\ taken' = IF token[t] = "active" /\ rowLock[t] = NoCall
                THEN taken \cup {t} ELSE taken
    /\ UNCHANGED <<apiVars, browserVars, sweep, older, tallyVars>>

EndSweep ==
    /\ sweep /\ todo = {}
    /\ token' = [t \in Tokens |-> IF t \in taken THEN "revoked" ELSE token[t]]
    /\ sweep' = FALSE /\ taken' = {}
    /\ UNCHANGED <<rowLock, call, old, new, browserVars, todo, older, tallyVars>>

-----------------------------------------------------------------------------
\* The user has logged in, and every tab has seen it.
SessionsInit ==
    /\ token = [t \in Tokens |-> IF t = 1 THEN "active" ELSE "unused"]
    /\ rowLock = [t \in Tokens |-> NoCall]
    /\ call = [c \in Calls |-> "free"]
    /\ old = [c \in Calls |-> NoToken] /\ new = [c \in Calls |-> NoToken]
    /\ client = [c \in Calls |-> NoTab]
    /\ cookie = 1
    /\ tab = [b \in Tabs |-> "idle"]
    /\ retried = [b \in Tabs |-> 0]
    /\ sweep = FALSE /\ todo = {} /\ taken = {} /\ older = {}
    /\ logins = 1 /\ lost = 0 /\ aborted = 0 /\ ended = FALSE

SessionsNext ==
    \/ \E b \in Tabs :
          \/ \E t \in Tokens : Login(b, t)
          \/ Expired(b) \/ GiveUp(b) \/ Logout(b)
          \/ \E c \in Calls : PostRefresh(b, c) \/ PostAgain(b, c)
    \/ \E c \in Calls :
          \/ LockRow(c) \/ RefuseReuse(c) \/ CommitRotation(c) \/ AbortRotation(c)
          \/ \E t \in Tokens : Issue(c, t)
          \/ Deliver(c) \/ Lose(c) \/ Discard(c)
    \/ \E t \in Tokens : SweepRow(t)
    \/ BeginSweep \/ EndSweep

SessionsSpec == SessionsInit /\ [][SessionsNext]_sessionVars

-----------------------------------------------------------------------------
\* However many tabs and retries race for a rotation, a login or a challenge
\* leaves at most one token that can still be rotated, and one more for each rotation that
\* was rolled back after it had issued its token.
OneLiveToken ==
    Cardinality({t \in Active : Unlocked(t)}) <= logins + aborted

\* What was issued before the user changed the password (or MFA, or logged out
\* everywhere) is dead once the sweep is over, rotations in flight included.
OlderTokensDead == \A t \in older : token[t] = "active" => sweep

\* With the browser-wide lock no tab that refreshes is signed out while the
\* session lives: it takes a lost connection, a rolled back rotation or the end
\* of the session.
TabsSurviveRotation ==
    Locking =>
        \A b \in Tabs : tab[b] = "cleared" => lost + aborted > 0 \/ ended
=============================================================================
