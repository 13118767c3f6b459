------------------------------ MODULE Cashout ------------------------------
(***************************************************************************)
(* Cash-out of a commerce merchant: a request sets amount and fee aside on  *)
(* merchants.cashout_reserved_amount, the callback of the payer is to settle  *)
(* it.  The balance it is set aside from is the settlement balance, which       *)
(* flows A and B go on moving without a look at what is reserved.                *)
(*                                                                          *)
(* finalizeMerchantCashoutCallback takes the merchant row it has just locked    *)
(* apart twice ([m] and then m[0]), finds nothing, and throws: whatever the      *)
(* callback says, the session and the reservation stay as they are.  The code      *)
(* after that throw is not reached and is not modelled.                             *)
(***************************************************************************)
EXTENDS Settlements, FiniteSets, Functions

CONSTANTS
    Cashouts,    \* cash-out requests, by the session each would create
    CashoutOf,   \* the merchant a request is for
    TotalOf,     \* its amount and its fee
    Move         \* the spend (> 0) or credit (< 0) a transaction posts to a book

ASSUME CashoutAssumption ==
    /\ CashoutOf \in [Cashouts -> Commerce]
    /\ TotalOf \in [Cashouts -> Nat \ {0}]
    /\ Move \in [Refs -> [merchant : Commerce, change : Int]]
    /\ IsFiniteSet(Cashouts)

VARIABLES
    cashout,         \* merchant_cashout_sessions.status, or how far the request is
    cashoutReserved, \* merchants.cashout_reserved_amount
    answered         \* sessions a callback has come for

cashoutVars == <<settlementVars, cashout, cashoutReserved, answered>>

Available(m) == settlement[m] - cashoutReserved[m]

-----------------------------------------------------------------------------
\* requestMerchantCashout up to its transaction: an unlocked read.
CheckCashout(c) ==
    /\ cashout[c] = "new"
    /\ cashout' = [cashout EXCEPT ![c] =
           IF TotalOf[c] <= Available(CashoutOf[c]) THEN "checked" ELSE "refused"]
    /\ UNCHANGED <<settlementVars, cashoutReserved, answered>>

\* Its transaction, which holds the merchant's row from the read to COMMIT.
StillCovers_AsChecked(c) == TRUE
StillCovers(c) == TotalOf[c] <= Available(CashoutOf[c])

ReserveCashout(c) ==
    /\ cashout[c] = "checked" /\ StillCovers(c)
    /\ cashout' = [cashout EXCEPT ![c] = "pending"]
    /\ cashoutReserved' = [cashoutReserved EXCEPT ![CashoutOf[c]] = @ + TotalOf[c]]
    /\ UNCHANGED <<settlementVars, answered>>

RefuseCashout(c) ==
    /\ cashout[c] = "checked" /\ ~ StillCovers(c)
    /\ cashout' = [cashout EXCEPT ![c] = "refused"]
    /\ UNCHANGED <<settlementVars, cashoutReserved, answered>>

\* finalizeMerchantCashoutCallback, success or failed: MERCHANT_NOT_FOUND,
\* which the webhook answers with a 500.
CashoutCallback(c) ==
    /\ cashout[c] = "pending"
    /\ answered' = answered \cup {c}
    /\ UNCHANGED <<settlementVars, cashout, cashoutReserved>>

\* Flows A and B post to the same balance; flow B down to the credit limit.
Posted(m) == {settlementLog[m][i].ref : i \in 1 .. Len(settlementLog[m])}

BookMoves(ref) ==
    LET m == Move[ref].merchant
        change == Move[ref].change
    IN  /\ ref \notin Posted(m)
        /\ change < 0 => CreditLeft(m) >= -change
        /\ PostSettlement(m, change,
                          IF change < 0 THEN "merchant_credit" ELSE "spend", ref)
        /\ UNCHANGED <<creditLimit, cashout, cashoutReserved, answered>>

-----------------------------------------------------------------------------
CashoutInit ==
    /\ SettlementInit
    /\ cashout = [c \in Cashouts |-> "new"]
    /\ cashoutReserved = [m \in Commerce |-> 0]
    /\ answered = {}

CashoutNext ==
    \/ \E c \in Cashouts : \/ CheckCashout(c) \/ ReserveCashout(c)
                           \/ RefuseCashout(c) \/ CashoutCallback(c)
    \/ \E ref \in Refs : BookMoves(ref)

CashoutSpec == CashoutInit /\ [][CashoutNext]_cashoutVars

-----------------------------------------------------------------------------
\* What a merchant has ever had on its book.
TakenIn(m) ==
    SumFunction([i \in 1 .. Len(settlementLog[m]) |-> Clamp(settlementLog[m][i].change)])

\* What is set aside is the sum of the open sessions (the integrity check
\* merchant_cashout_reserve_vs_sessions), and requests at the same moment never
\* set the same money aside twice: together they stay within what the merchant
\* took in, although each first looked at the balance without a lock and
\* credits have drawn on it since.
CashoutCovered ==
    \A m \in Commerce :
        LET Open == {c \in Cashouts : CashoutOf[c] = m /\ cashout[c] = "pending"}
        IN  /\ cashoutReserved[m] = SumFunctionOnSet(TotalOf, Open)
            /\ cashoutReserved[m] <= TakenIn(m)

\* "callback settles balance + settlement log": a session is not open any more
\* once the payer has called back.
CallbackSettles == \A c \in answered : cashout[c] # "pending"
=============================================================================
