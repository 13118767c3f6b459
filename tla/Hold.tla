-------------------------------- MODULE Hold --------------------------------
(***************************************************************************)
(* What a reservation on an account promises, whatever flow makes it: money *)
(* is set aside only while it is there, and every hold ends once, either    *)
(* captured, which pays it from the account, or released, which does not.   *)
(***************************************************************************)
EXTENDS Integers, FiniteSets, Functions

CONSTANTS
    Accounts,   \* who can hold money
    Holds,      \* the reservations a behaviour may make
    HolderOf,   \* the account of a hold
    AmountOf,   \* its amount, positive
    Opening     \* the money in each account at first

VARIABLES funds, held, captured, released

holdVars == <<funds, held, captured, released>>

SetAside(u) == SumFunctionOnSet(AmountOf, {h \in held : HolderOf[h] = u})

HoldInit ==
    /\ funds = Opening
    /\ held = {}
    /\ captured = {}
    /\ released = {}

Place(h) ==
    /\ h \notin held \cup captured \cup released
    /\ SetAside(HolderOf[h]) + AmountOf[h] <= funds[HolderOf[h]]
    /\ held' = held \cup {h}
    /\ UNCHANGED <<funds, captured, released>>

Capture(h) ==
    /\ h \in held
    /\ held' = held \ {h}
    /\ captured' = captured \cup {h}
    /\ funds' = [funds EXCEPT ![HolderOf[h]] = @ - AmountOf[h]]
    /\ UNCHANGED released

Release(H) ==
    /\ H \subseteq held
    /\ held' = held \ H
    /\ released' = released \cup H
    /\ UNCHANGED <<funds, captured>>

\* Another flow credits the account, or debits what is not set aside.
Move(u) ==
    /\ funds'[u] >= SetAside(u)
    /\ funds' = [funds EXCEPT ![u] = funds'[u]]
    /\ UNCHANGED <<held, captured, released>>

HoldNext ==
    \/ \E h \in Holds : Place(h) \/ Capture(h)
    \/ \E H \in SUBSET Holds : Release(H)
    \/ \E u \in Accounts : Move(u)

HoldSpec == HoldInit /\ [][HoldNext]_holdVars
=============================================================================
