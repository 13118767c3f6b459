--------------------------- MODULE CommerceProofs ---------------------------
(***************************************************************************)
(* The theorems of flows A and B, for any number of members, merchants,      *)
(* codes and credits: what is reserved is the active codes, a code pays once, *)
(* and money is conserved but for the commissions.                            *)
(***************************************************************************)
EXTENDS Commerce, Sums

-----------------------------------------------------------------------------
\* The last tier that is met is one of them.
LEMMA MaxIn ==
  ASSUME NEW S, IsFiniteSet(S), S # {}, S \subseteq Nat
  PROVE  Max(S) \in S
<1> DEFINE Above(i) == {j \in S : j > i}
           Uppers == {t \in SUBSET S : \E i \in S : t = Above(i)}
<1>1. PICK t \in Uppers : \A r \in Uppers : ~ (r \subseteq t /\ r # t)
  <2>1. Uppers \subseteq SUBSET S
    OBVIOUS
  <2>2. \A i \in S : Above(i) \in Uppers
    OBVIOUS
  <2>3. Uppers # {}
    <3> HIDE DEF Uppers, Above
    <3> QED BY <2>2
  <2> HIDE DEF Uppers, Above
  <2>4. IsFiniteSet(S)
    OBVIOUS
  <2> QED BY ONLY <2>1, <2>3, <2>4, SmallestSubset
<1>2. PICK i \in S : t = Above(i)
  BY <1>1
<1>3. ASSUME NEW j \in S, j > i PROVE FALSE
  <2>1. Above(j) \in Uppers
    OBVIOUS
  <2>2. Above(j) \subseteq Above(i)
    <3>1. \A k \in S : k > j => k > i
      BY <1>3
    <3> QED BY <3>1
  <2>3. j \in Above(i) /\ j \notin Above(j)
    BY <1>3
  <2> HIDE DEF Above, Uppers
  <2> QED BY <1>1, <1>2, <2>1, <2>2, <2>3
<1>4. \A j \in S : i >= j
  BY <1>3
<1> QED BY <1>4 DEF Max

LEMMA EligibleIn ==
  ASSUME NEW points, NEW turnover
  PROVE  Eligible(points, turnover) \in 1 .. Len(Tiers)
<1> DEFINE met == {i \in 1 .. Len(Tiers) : /\ points >= Tiers[i].minPoints
                                           /\ turnover >= Tiers[i].minTurnover}
<1>1. met \subseteq 1 .. Len(Tiers) /\ met \subseteq Nat
  OBVIOUS
<1>2. IsFiniteSet(met)
  <2>1. Len(Tiers) \in Int
    BY CommerceAssumption
  <2>2. IsFiniteSet(1 .. Len(Tiers))
    BY <2>1, FS_Interval
  <2> HIDE DEF met
  <2> QED BY <1>1, <2>2, FS_Subset
<1>3. met # {} => Max(met) \in met
  <2> HIDE DEF met
  <2> QED BY <1>1, <1>2, MaxIn
<1>4. 1 \in 1 .. Len(Tiers)
  BY CommerceAssumption
<1>5. Eligible(points, turnover) = IF met = {} THEN 1 ELSE Max(met)
  BY DEF Eligible
<1> HIDE DEF met
<1> QED BY <1>1, <1>3, <1>4, <1>5

\* A row that is appended is the last one.
LEMMA AppendAbout ==
  ASSUME NEW T, NEW rows \in Seq(T), NEW row \in T
  PROVE  RowsAbout(Append(rows, row), row.ref) = RowsAbout(rows, row.ref) \cup {Len(rows) + 1}
BY DEF RowsAbout

LEMMA AppendOther ==
  ASSUME NEW T, NEW rows \in Seq(T), NEW row \in T, NEW r, row.ref # r
  PROVE  RowsAbout(Append(rows, row), r) = RowsAbout(rows, r)
BY DEF RowsAbout

-----------------------------------------------------------------------------
\* Types, with what the code's steps rely on besides: a creation in progress
\* is of a code that does not exist yet.
CommerceTypeOK ==
    /\ TypeOK
    /\ IsFiniteSet(spendPoints)
    /\ \A c \in counted : cstatus[c] = "unused"

\* What the constants are, in the form the steps below use it.
LEMMA CodeConstants ==
  ASSUME NEW c \in Codes
  PROVE  /\ c \in Refs /\ c \notin Credits /\ Holder[c] \in Members
         /\ CodeAmount[c] \in Nat /\ CodeAmount[c] > 0
         /\ \A m \in Commerce : CommerceFee[m][c] \in Nat
BY CommerceAssumption

LEMMA CreditConstants ==
  ASSUME NEW k \in Credits
  PROVE  /\ k \in Refs /\ k \notin Codes /\ CreditTo[k] \in Members
         /\ CreditAmount[k] \in Nat /\ CreditAmount[k] > 0
         /\ \A m \in Commerce : CommerceFee[m][k] \in Nat
BY CommerceAssumption

LEMMA FiniteConstants ==
  /\ IsFiniteSet(Codes) /\ IsFiniteSet(Credits)
  /\ IsFiniteSet(Members) /\ IsFiniteSet(Commerce)
BY CommerceAssumption

LEMMA ReturnedNat ==
  ASSUME NEW due \in SUBSET Codes, NEW u
  PROVE  Returned(u, due) \in Nat
<1>1. IsFiniteSet({c \in due : Holder[c] = u})
  BY FiniteConstants, FS_Subset
<1> QED BY <1>1, SumNat, CodeConstants DEF Returned

LEMMA TypeStep == CommerceTypeOK /\ [Next]_vars => CommerceTypeOK'
<1> SUFFICES ASSUME CommerceTypeOK, [Next]_vars PROVE CommerceTypeOK'
  OBVIOUS
<1> USE DEF CommerceTypeOK, TypeOK, AccountsTypeOK, SettlementTypeOK
<1>1. ASSUME NEW c \in Codes, CountCodes(c) \/ AbortCode(c) \/ CodeDue(c)
      PROVE  CommerceTypeOK'
  BY <1>1 DEF CountCodes, AbortCode, CodeDue, Active, accountVars, settlementVars,
              codeVars, loyaltyVars
<1>2. ASSUME NEW c \in Codes, NEW points \in PointChoices, CreateCode(c, points)
      PROVE  CommerceTypeOK'
  <2>1. points \in Nat /\ Holder[c] \in Members /\ CodeAmount[c] \in Int
    BY CodeConstants, CommerceAssumption
  <2>2. /\ reserved' = [reserved EXCEPT ![Holder[c]] = reserved[Holder[c]] + CodeAmount[c]]
        /\ cstatus' = [cstatus EXCEPT ![c] = "active"]
        /\ codePoints' = [codePoints EXCEPT ![c] = points]
        /\ counted' = counted \ {c}
        /\ UNCHANGED <<balance, txns, locked, settlementVars, consumedBy, cdue,
                       creditedBy, loyaltyVars>>
    BY <1>2 DEF CreateCode
  <2>3. reserved' \in [Members -> Int] /\ codePoints' \in [Codes -> Nat]
    BY <2>1, <2>2
  <2>4. cstatus' \in [Codes -> CodeStatuses] /\ \A d \in counted' : cstatus'[d] = "unused"
    BY <2>2 DEF CodeStatuses
  <2> QED BY <2>2, <2>3, <2>4 DEF settlementVars, loyaltyVars
<1>3. ASSUME NEW c \in Codes, CancelCode(c)
      PROVE  CommerceTypeOK'
  BY <1>3, CodeConstants DEF CancelCode, StillActive, ReleaseReserved, Clamp, CodeStatuses,
              settlementVars, loyaltyVars
<1>4. ASSUME NEW c \in Codes, NEW m \in Commerce, ConsumeCode(c, m)
      PROVE  CommerceTypeOK'
  <2> DEFINE u == Holder[c]
             row == [type |-> "spend", ref |-> c, change |-> -CodeAmount[c],
                     after |-> balance[u] + -CodeAmount[c]]
             entry == LogRow("spend", c, NetOf(m, c), settlement[m])
  <2>1. u \in Members /\ row \in TxRow /\ CodeAmount[c] \in Int
    BY CodeConstants DEF TxRow, TxTypes
  <2>2. NetOf(m, c) \in Int /\ entry \in SettlementRow
    BY CodeConstants DEF NetOf, LogRow, SettlementRow, SettlementReasons
  <2>3. /\ balance' \in [Members -> Int] /\ reserved' \in [Members -> Int]
        /\ locked' \in SUBSET Members /\ creditLimit' \in [Commerce -> Nat]
    <3>1. /\ balance' = [balance EXCEPT ![u] = balance[u] - CodeAmount[c]]
          /\ reserved' = [reserved EXCEPT ![u] = Clamp(reserved[u] - CodeAmount[c])]
          /\ UNCHANGED <<locked, creditLimit>>
      BY <1>4 DEF ConsumeCode, ReleaseReserved
    <3>2. Clamp(reserved[u] - CodeAmount[c]) \in Int /\ balance[u] - CodeAmount[c] \in Int
      BY <2>1 DEF Clamp
    <3> HIDE DEF u
    <3> QED BY <3>1, <3>2
  <2>4. txns' \in [Members -> Seq(TxRow)]
    <3>1. txns' = [txns EXCEPT ![u] = Append(txns[u], row)]
      BY <1>4 DEF ConsumeCode, AppendTx
    <3> HIDE DEF u, row
    <3> QED BY <2>1, <3>1
  <2>5. /\ settlement' \in [Commerce -> Int]
        /\ settlementLog' \in [Commerce -> Seq(SettlementRow)]
    <3>1. /\ settlementLog' = [settlementLog EXCEPT ![m] = Append(settlementLog[m], entry)]
          /\ settlement' = [settlement EXCEPT ![m] = settlement[m] + NetOf(m, c)]
      BY <1>4 DEF ConsumeCode, PostSettlement
    <3> HIDE DEF entry
    <3> QED BY <2>2, <3>1
  <2>6. /\ totalPoints' \in [Members -> Nat] /\ spendPoints' \in SUBSET (Codes \X Nat)
        /\ IsFiniteSet(spendPoints')
    <3>1. totalPoints' = [totalPoints EXCEPT ![u] = totalPoints[u] + codePoints[c]]
      BY <1>4 DEF ConsumeCode, AwardPoints
    <3>2. \/ spendPoints' = spendPoints
          \/ spendPoints' = spendPoints \cup {<<c, codePoints[c]>>}
      BY <1>4 DEF ConsumeCode
    <3>3. IsFiniteSet(spendPoints')
      <4>1. IsFiniteSet(spendPoints) /\ IsFiniteSet(spendPoints \cup {<<c, codePoints[c]>>})
        BY FS_AddElement
      <4> QED BY <3>2, <4>1
    <3>4. totalPoints' \in [Members -> Nat]
      BY <2>1, <3>1
    <3>5. <<c, codePoints[c]>> \in Codes \X Nat
      OBVIOUS
    <3> QED BY <3>2, <3>3, <3>4, <3>5
  <2>7. tier' \in [Members -> 1 .. Len(Tiers)]
    BY <1>4, EligibleIn DEF ConsumeCode, MaybeUpgradeTier
  <2>8. /\ cstatus' \in [Codes -> CodeStatuses]
        /\ consumedBy' \in [Codes -> Commerce \cup {NoOne}]
        /\ UNCHANGED <<codePoints, cdue, counted, creditedBy>>
        /\ \A d \in counted' : cstatus'[d] = "unused"
    BY <1>4 DEF ConsumeCode, StillActive, CodeStatuses
  <2> HIDE DEF u, row, entry
  <2> QED BY <2>3, <2>4, <2>5, <2>6, <2>7, <2>8
<1>5. ASSUME ExpireCodes
      PROVE  CommerceTypeOK'
  <2>1. DueCodes \in SUBSET Codes /\ \A d \in DueCodes : cstatus[d] = "active"
    BY DEF DueCodes, Active
  <2>2. cstatus' = [c \in Codes |-> IF c \in DueCodes THEN "expired" ELSE cstatus[c]]
    BY <1>5 DEF ExpireCodes
  <2>3. cstatus' \in [Codes -> CodeStatuses] /\ \A d \in counted : cstatus'[d] = "unused"
    BY <2>1, <2>2 DEF CodeStatuses
  <2>4. reserved' \in [Members -> Int]
    <3>1. \A u \in Members : Clamp(reserved[u] - Returned(u, DueCodes)) \in Int
      <4>1. \A u \in Members : reserved[u] \in Int /\ Returned(u, DueCodes) \in Nat
        BY <2>1, ReturnedNat
      <4> QED BY <4>1 DEF Clamp
    <3>2. reserved' = [u \in Members |-> Clamp(reserved[u] - Returned(u, DueCodes))]
      BY <1>5 DEF ExpireCodes
    <3> QED BY <3>1, <3>2
  <2> QED BY <1>5, <2>3, <2>4 DEF ExpireCodes, settlementVars, loyaltyVars
<1>6. ASSUME NEW k \in Credits, NEW m \in Commerce, CreditMember(k, m)
      PROVE  CommerceTypeOK'
  <2> DEFINE u == CreditTo[k]
             total == CreditAmount[k] + CommerceFee[m][k]
             row == [type |-> "merchant_credit", ref |-> k, change |-> CreditAmount[k],
                     after |-> balance[u] + CreditAmount[k]]
             entry == LogRow("merchant_credit", k, -total, settlement[m])
  <2>1. u \in Members /\ row \in TxRow /\ CreditAmount[k] \in Int
    BY CreditConstants DEF TxRow, TxTypes
  <2>2. -total \in Int /\ entry \in SettlementRow
    BY CreditConstants DEF LogRow, SettlementRow, SettlementReasons
  <2>3. txns' = [txns EXCEPT ![u] = Append(txns[u], row)]
    BY <1>6 DEF CreditMember, AppendTx
  <2>4. /\ settlementLog' = [settlementLog EXCEPT ![m] = Append(settlementLog[m], entry)]
        /\ settlement' = [settlement EXCEPT ![m] = settlement[m] + -total]
    BY <1>6 DEF CreditMember, PostSettlement
  <2>5. /\ balance' = [balance EXCEPT ![u] = balance[u] + CreditAmount[k]]
        /\ creditedBy' = [creditedBy EXCEPT ![k] = m]
        /\ UNCHANGED <<reserved, locked, creditLimit, codeVars, cdue, counted, loyaltyVars>>
    BY <1>6 DEF CreditMember
  <2> HIDE DEF u, row, entry, total
  <2>6. AccountsTypeOK'
    BY <2>1, <2>3, <2>5
  <2>7. SettlementTypeOK'
    BY <2>2, <2>4, <2>5
  <2> QED BY <2>5, <2>6, <2>7 DEF codeVars, loyaltyVars
<1>7. CASE UNCHANGED vars
  BY <1>7 DEF vars, accountVars, settlementVars, commerceVars, codeVars, loyaltyVars
<1> QED BY <1>1, <1>2, <1>3, <1>4, <1>5, <1>6, <1>7 DEF Next

LEMMA TypeInit == Init => CommerceTypeOK
<1> SUFFICES ASSUME Init PROVE CommerceTypeOK
  OBVIOUS
<1> USE DEF Init, AccountsInit, SettlementInit, CommerceInit
<1>1. AccountsTypeOK
  <2>1. ASSUME NEW u \in Members
        PROVE  [type |-> "adjustment", ref |-> NoRef, change |-> OpeningBalance[u],
                after |-> OpeningBalance[u]] \in TxRow
    BY AccountsAssumption DEF TxRow, TxTypes
  <2> QED BY <2>1, AccountsAssumption DEF AccountsTypeOK
<1>2. SettlementTypeOK
  <2>1. ASSUME NEW m \in Commerce
        PROVE  LogRow("manual_settlement", NoRef, OpeningSettlement[m], 0) \in SettlementRow
    BY SettlementAssumption DEF LogRow, SettlementRow, SettlementReasons
  <2> QED BY <2>1, SettlementAssumption DEF SettlementTypeOK
<1>3. 1 \in 1 .. Len(Tiers)
  BY CommerceAssumption
<1> QED BY <1>1, <1>2, <1>3, FS_EmptySet DEF CommerceTypeOK, TypeOK, CodeStatuses

\* Every reachable state of flows A and B is well typed.
THEOREM CommerceTypes == Spec => []CommerceTypeOK
BY TypeInit, TypeStep, PTL DEF Spec

-----------------------------------------------------------------------------
\* Steps that pay nothing.
LEMMA QuietStep ==
  ASSUME CommerceTypeOK,
         \/ \E c \in Codes : \/ CountCodes(c) \/ AbortCode(c) \/ CodeDue(c)
                             \/ CancelCode(c)
                             \/ \E points \in PointChoices : CreateCode(c, points)
         \/ ExpireCodes
         \/ UNCHANGED vars
  PROVE  /\ UNCHANGED <<balance, txns, settlement, creditLimit, settlementLog,
                        consumedBy, creditedBy, totalPoints, spendPoints>>
         /\ \A d \in Codes : cstatus'[d] = "consumed" <=> cstatus[d] = "consumed"
<1> USE DEF CommerceTypeOK, TypeOK
<1>1. ASSUME NEW c \in Codes, CountCodes(c) \/ AbortCode(c) \/ CodeDue(c)
      PROVE  UNCHANGED <<balance, txns, settlementVars, codeVars, creditedBy, loyaltyVars>>
  BY <1>1 DEF CountCodes, AbortCode, CodeDue, accountVars
<1>2. ASSUME NEW c \in Codes, CancelCode(c)
      PROVE  /\ cstatus[c] = "active" /\ cstatus' = [cstatus EXCEPT ![c] = "cancelled"]
             /\ UNCHANGED <<balance, txns, settlementVars, consumedBy, creditedBy, loyaltyVars>>
  BY <1>2 DEF CancelCode, StillActive
<1>3. ASSUME NEW c \in Codes, NEW points \in PointChoices, CreateCode(c, points)
      PROVE  /\ cstatus[c] = "unused" /\ cstatus' = [cstatus EXCEPT ![c] = "active"]
             /\ UNCHANGED <<balance, txns, settlementVars, consumedBy, creditedBy, loyaltyVars>>
  BY <1>3 DEF CreateCode
<1>4. ASSUME ExpireCodes
      PROVE  /\ \A d \in Codes : cstatus'[d] = "consumed" <=> cstatus[d] = "consumed"
             /\ UNCHANGED <<balance, txns, settlementVars, consumedBy, creditedBy, loyaltyVars>>
  BY <1>4 DEF ExpireCodes, DueCodes, Active
<1>5. UNCHANGED vars
         => UNCHANGED <<balance, txns, settlementVars, codeVars, creditedBy, loyaltyVars>>
  BY DEF vars, accountVars, commerceVars
<1> QED BY <1>1, <1>2, <1>3, <1>4, <1>5 DEF settlementVars, codeVars, loyaltyVars

\* What a purchase and a credit write, row by row.
LEMMA ConsumeEffect ==
  ASSUME CommerceTypeOK, NEW c \in Codes, NEW m \in Commerce, ConsumeCode(c, m)
  PROVE  LET u == Holder[c]
             row == [type |-> "spend", ref |-> c, change |-> -CodeAmount[c],
                     after |-> balance[u] + -CodeAmount[c]]
             entry == LogRow("spend", c, CodeAmount[c] - CommerceFee[m][c], settlement[m])
         IN  /\ cstatus[c] = "active" /\ CodeAmount[c] - CommerceFee[m][c] >= 0
             /\ row \in TxRow /\ entry \in SettlementRow
             /\ balance' = [balance EXCEPT ![u] = balance[u] - CodeAmount[c]]
             /\ reserved' = [reserved EXCEPT ![u] = Clamp(reserved[u] - CodeAmount[c])]
             /\ txns' = [txns EXCEPT ![u] = Append(txns[u], row)]
             /\ settlement' = [settlement EXCEPT
                                 ![m] = settlement[m] + (CodeAmount[c] - CommerceFee[m][c])]
             /\ settlementLog' = [settlementLog EXCEPT ![m] = Append(settlementLog[m], entry)]
             /\ totalPoints' = [totalPoints EXCEPT ![u] = totalPoints[u] + codePoints[c]]
             /\ spendPoints' = spendPoints \cup
                   (IF codePoints[c] > 0 THEN {<<c, codePoints[c]>>} ELSE {})
             /\ cstatus' = [cstatus EXCEPT ![c] = "consumed"]
             /\ consumedBy' = [consumedBy EXCEPT ![c] = m]
             /\ UNCHANGED <<creditLimit, creditedBy>>
<1>1. Holder[c] \in Members /\ CodeAmount[c] \in Nat /\ CommerceFee[m][c] \in Nat /\ c \in Refs
  BY CodeConstants
<1>2. balance[Holder[c]] \in Int /\ settlement[m] \in Int
  BY <1>1 DEF CommerceTypeOK, TypeOK, AccountsTypeOK, SettlementTypeOK
<1>3. [type |-> "spend", ref |-> c, change |-> -CodeAmount[c],
       after |-> balance[Holder[c]] + -CodeAmount[c]] \in TxRow
  BY <1>1, <1>2 DEF TxRow, TxTypes
<1>4. LogRow("spend", c, CodeAmount[c] - CommerceFee[m][c], settlement[m]) \in SettlementRow
  BY <1>1, <1>2 DEF LogRow, SettlementRow, SettlementReasons
<1> QED BY <1>3, <1>4 DEF ConsumeCode, StillActive, NetOf, ReleaseReserved, AppendTx,
                          PostSettlement, AwardPoints

LEMMA CreditEffect ==
  ASSUME CommerceTypeOK, NEW k \in Credits, NEW m \in Commerce, CreditMember(k, m)
  PROVE  LET u == CreditTo[k]
             total == CreditAmount[k] + CommerceFee[m][k]
             row == [type |-> "merchant_credit", ref |-> k, change |-> CreditAmount[k],
                     after |-> balance[u] + CreditAmount[k]]
             entry == LogRow("merchant_credit", k, -total, settlement[m])
         IN  /\ creditedBy[k] = NoOne /\ total <= CreditLeft(m)
             /\ row \in TxRow /\ entry \in SettlementRow
             /\ balance' = [balance EXCEPT ![u] = balance[u] + CreditAmount[k]]
             /\ txns' = [txns EXCEPT ![u] = Append(txns[u], row)]
             /\ settlement' = [settlement EXCEPT ![m] = settlement[m] + -total]
             /\ settlementLog' = [settlementLog EXCEPT ![m] = Append(settlementLog[m], entry)]
             /\ creditedBy' = [creditedBy EXCEPT ![k] = m]
             /\ UNCHANGED <<reserved, creditLimit, cstatus, consumedBy,
                            totalPoints, spendPoints>>
<1>1. CreditTo[k] \in Members /\ CreditAmount[k] \in Nat /\ CommerceFee[m][k] \in Nat /\ k \in Refs
  BY CreditConstants
<1>2. balance[CreditTo[k]] \in Int /\ settlement[m] \in Int
  BY <1>1 DEF CommerceTypeOK, TypeOK, AccountsTypeOK, SettlementTypeOK
<1>3. [type |-> "merchant_credit", ref |-> k, change |-> CreditAmount[k],
       after |-> balance[CreditTo[k]] + CreditAmount[k]] \in TxRow
  BY <1>1, <1>2 DEF TxRow, TxTypes
<1>4. LogRow("merchant_credit", k, -(CreditAmount[k] + CommerceFee[m][k]), settlement[m])
         \in SettlementRow
  BY <1>1, <1>2 DEF LogRow, SettlementRow, SettlementReasons
<1> QED BY <1>3, <1>4 DEF CreditMember, BookCovers, AppendTx, PostSettlement,
                          codeVars, loyaltyVars

-----------------------------------------------------------------------------
\* The rows of each table about a code: one of each when it is consumed, and
\* none before.
PaidRows(c) == RowsAbout(txns[Holder[c]], c)
PostedRows(m, c) == RowsAbout(settlementLog[m], c)

PaidExactly(c) ==
    IF cstatus[c] = "consumed"
    THEN /\ consumedBy[c] \in Commerce
         /\ \E i : PaidRows(c) = {i}
         /\ \E i : PostedRows(consumedBy[c], c) = {i}
         /\ \A m \in Commerce \ {consumedBy[c]} : PostedRows(m, c) = {}
    ELSE PaidRows(c) = {} /\ \A m \in Commerce : PostedRows(m, c) = {}

CodesPaid == \A c \in Codes : PaidExactly(c)

LEMMA CodesPaidInit == Init => CodesPaid
<1> SUFFICES ASSUME Init, NEW c \in Codes PROVE PaidExactly(c)
  BY DEF CodesPaid
<1>1. Holder[c] \in Members /\ c # NoRef
  BY CodeConstants, LedgerAssumption
<1>2. cstatus[c] # "consumed"
  BY DEF Init, CommerceInit
<1>3. PaidRows(c) = {}
  BY <1>1 DEF Init, AccountsInit, PaidRows, RowsAbout
<1>4. \A m \in Commerce : PostedRows(m, c) = {}
  BY <1>1 DEF Init, SettlementInit, PostedRows, RowsAbout, LogRow
<1> QED BY <1>2, <1>3, <1>4 DEF PaidExactly

LEMMA CodesPaidStep == CommerceTypeOK /\ CodesPaid /\ [Next]_vars => CodesPaid'
<1> SUFFICES ASSUME CommerceTypeOK, CodesPaid, [Next]_vars, NEW d \in Codes
             PROVE  PaidExactly(d)'
  BY DEF CodesPaid
<1> USE DEF CommerceTypeOK, TypeOK, AccountsTypeOK, SettlementTypeOK
<1>1. PaidExactly(d) /\ Holder[d] \in Members
  BY CodeConstants DEF CodesPaid
<1>2. ASSUME UNCHANGED <<txns, settlementLog, consumedBy>>,
             cstatus'[d] = "consumed" <=> cstatus[d] = "consumed"
      PROVE  PaidExactly(d)'
  BY <1>1, <1>2 DEF PaidExactly, PaidRows, PostedRows
<1>3. ASSUME NEW c \in Codes, NEW m \in Commerce, ConsumeCode(c, m)
      PROVE  PaidExactly(d)'
  <2> DEFINE u == Holder[c]
             row == [type |-> "spend", ref |-> c, change |-> -CodeAmount[c],
                     after |-> balance[u] + -CodeAmount[c]]
             entry == LogRow("spend", c, CodeAmount[c] - CommerceFee[m][c], settlement[m])
  <2>1. /\ cstatus[c] = "active" /\ row \in TxRow /\ entry \in SettlementRow
        /\ txns' = [txns EXCEPT ![u] = Append(txns[u], row)]
        /\ settlementLog' = [settlementLog EXCEPT ![m] = Append(settlementLog[m], entry)]
        /\ cstatus' = [cstatus EXCEPT ![c] = "consumed"]
        /\ consumedBy' = [consumedBy EXCEPT ![c] = m]
    BY <1>3, ConsumeEffect
  <2>2. row.ref = c /\ entry.ref = c /\ u \in Members
    BY CodeConstants DEF LogRow
  <2> HIDE DEF row, entry, u
  <2>3. CASE d = c
    <3>1. PaidRows(c) = {} /\ \A n \in Commerce : PostedRows(n, c) = {}
      BY <1>1, <2>1, <2>3 DEF PaidExactly
    <3>2. txns'[u] = Append(txns[u], row) /\ txns[u] \in Seq(TxRow)
      BY <2>1, <2>2
    <3>3. PaidRows(c)' = {Len(txns[u]) + 1}
      <4>1. RowsAbout(Append(txns[u], row), c) = RowsAbout(txns[u], c) \cup {Len(txns[u]) + 1}
        <5>1. txns[u] \in Seq(TxRow) /\ row \in TxRow
          BY <2>1, <3>2
        <5>2. RowsAbout(Append(txns[u], row), row.ref)
                 = RowsAbout(txns[u], row.ref) \cup {Len(txns[u]) + 1}
          BY ONLY <5>1, AppendAbout
        <5> QED BY <2>2, <5>2
      <4>2. RowsAbout(txns[u], c) = {}
        BY <3>1 DEF PaidRows, u
      <4> QED BY <3>2, <4>1, <4>2 DEF PaidRows, u
    <3>4. settlementLog'[m] = Append(settlementLog[m], entry)
             /\ settlementLog[m] \in Seq(SettlementRow)
      BY <2>1
    <3>5. PostedRows(m, c)' = {Len(settlementLog[m]) + 1}
      <4>1. RowsAbout(Append(settlementLog[m], entry), c)
               = RowsAbout(settlementLog[m], c) \cup {Len(settlementLog[m]) + 1}
        <5>1. settlementLog[m] \in Seq(SettlementRow) /\ entry \in SettlementRow
          BY <2>1, <3>4
        <5>2. RowsAbout(Append(settlementLog[m], entry), entry.ref)
                 = RowsAbout(settlementLog[m], entry.ref) \cup {Len(settlementLog[m]) + 1}
          BY ONLY <5>1, AppendAbout
        <5> QED BY <2>2, <5>2
      <4>2. RowsAbout(settlementLog[m], c) = {}
        BY <3>1 DEF PostedRows
      <4> QED BY <3>4, <4>1, <4>2 DEF PostedRows
    <3>6. \A n \in Commerce \ {m} : PostedRows(n, c)' = {}
      BY <2>1, <3>1 DEF PostedRows
    <3>7. cstatus'[c] = "consumed" /\ consumedBy'[c] = m
      BY <2>1
    <3> QED BY <2>3, <3>3, <3>5, <3>6, <3>7 DEF PaidExactly
  <2>4. CASE d # c
    <3>1. RowsAbout(Append(txns[u], row), d) = RowsAbout(txns[u], d)
      BY <2>1, <2>2, <2>4, AppendOther
    <3>2. PaidRows(d)' = PaidRows(d)
      BY <1>1, <2>1, <2>2, <3>1 DEF PaidRows
    <3>3. RowsAbout(Append(settlementLog[m], entry), d) = RowsAbout(settlementLog[m], d)
      BY <2>1, <2>2, <2>4, AppendOther
    <3>4. \A n \in Commerce : PostedRows(n, d)' = PostedRows(n, d)
      BY <2>1, <3>3 DEF PostedRows
    <3>5. cstatus'[d] = cstatus[d] /\ consumedBy'[d] = consumedBy[d]
      BY <2>1, <2>4
    <3> QED BY <1>1, <3>2, <3>4, <3>5 DEF PaidExactly
  <2> QED BY <2>3, <2>4
<1>4. ASSUME NEW k \in Credits, NEW m \in Commerce, CreditMember(k, m)
      PROVE  PaidExactly(d)'
  <2> DEFINE u == CreditTo[k]
             total == CreditAmount[k] + CommerceFee[m][k]
             row == [type |-> "merchant_credit", ref |-> k, change |-> CreditAmount[k],
                     after |-> balance[u] + CreditAmount[k]]
             entry == LogRow("merchant_credit", k, -total, settlement[m])
  <2>1. /\ row \in TxRow /\ entry \in SettlementRow
        /\ txns' = [txns EXCEPT ![u] = Append(txns[u], row)]
        /\ settlementLog' = [settlementLog EXCEPT ![m] = Append(settlementLog[m], entry)]
        /\ UNCHANGED <<cstatus, consumedBy>>
    BY <1>4, CreditEffect
  <2>2. row.ref # d /\ entry.ref # d /\ u \in Members
    BY CreditConstants DEF LogRow
  <2> HIDE DEF row, entry, u
  <2>3. RowsAbout(Append(txns[u], row), d) = RowsAbout(txns[u], d)
    BY <2>1, <2>2, AppendOther
  <2>4. PaidRows(d)' = PaidRows(d)
    BY <1>1, <2>1, <2>2, <2>3 DEF PaidRows
  <2>5. RowsAbout(Append(settlementLog[m], entry), d) = RowsAbout(settlementLog[m], d)
    BY <2>1, <2>2, AppendOther
  <2>6. \A n \in Commerce : PostedRows(n, d)' = PostedRows(n, d)
    BY <2>1, <2>5 DEF PostedRows
  <2> QED BY <1>1, <2>1, <2>4, <2>6 DEF PaidExactly
<1> HIDE DEF CommerceTypeOK, TypeOK, AccountsTypeOK, SettlementTypeOK
<1>5. ASSUME \/ \E c \in Codes : \/ CountCodes(c) \/ AbortCode(c) \/ CodeDue(c)
                                 \/ CancelCode(c)
                                 \/ \E points \in PointChoices : CreateCode(c, points)
             \/ ExpireCodes
             \/ UNCHANGED vars
      PROVE  PaidExactly(d)'
  BY <1>2, <1>5, QuietStep
<1> QED BY <1>3, <1>4, <1>5 DEF Next

-----------------------------------------------------------------------------
\* The points of a member are those of its consumed codes, each once.
PointRows(u) == {row \in spendPoints : Holder[row[1]] = u}
PointSum(u) == SumFunctionOnSet([row \in PointRows(u) |-> row[2]], PointRows(u))
PointsAwarded ==
    /\ \A row \in spendPoints : cstatus[row[1]] = "consumed"
    /\ \A u \in Members : totalPoints[u] = PointSum(u)

LEMMA PointsInit == Init => PointsAwarded
BY SumEmpty DEF Init, CommerceInit, PointsAwarded, PointSum, PointRows

LEMMA PointsStep == CommerceTypeOK /\ PointsAwarded /\ [Next]_vars => PointsAwarded'
<1> SUFFICES ASSUME CommerceTypeOK, PointsAwarded, [Next]_vars PROVE PointsAwarded'
  OBVIOUS
<1>1. ASSUME UNCHANGED <<totalPoints, spendPoints>>,
             \A d \in Codes : cstatus'[d] = "consumed" <=> cstatus[d] = "consumed"
      PROVE  PointsAwarded'
  <2>1. \A row \in spendPoints : row[1] \in Codes
    BY DEF CommerceTypeOK, TypeOK
  <2> QED BY <1>1, <2>1 DEF PointsAwarded, PointSum, PointRows
<1>2. ASSUME NEW c \in Codes, NEW m \in Commerce, ConsumeCode(c, m)
      PROVE  PointsAwarded'
  <2> DEFINE new == <<c, codePoints[c]>>
             u == Holder[c]
  <2>1. /\ cstatus[c] = "active" /\ cstatus' = [cstatus EXCEPT ![c] = "consumed"]
        /\ totalPoints' = [totalPoints EXCEPT ![u] = totalPoints[u] + codePoints[c]]
        /\ spendPoints' = spendPoints \cup (IF codePoints[c] > 0 THEN {new} ELSE {})
    BY <1>2, ConsumeEffect
  <2>2. /\ \A row \in spendPoints : row[1] \in Codes /\ row[2] \in Nat
        /\ IsFiniteSet(spendPoints) /\ codePoints[c] \in Nat
        /\ totalPoints \in [Members -> Nat] /\ cstatus \in [Codes -> CodeStatuses]
    BY DEF CommerceTypeOK, TypeOK
  <2>3. u \in Members /\ new[1] = c /\ new[2] = codePoints[c]
    BY CodeConstants
  <2> HIDE DEF new, u
  <2>4. \A row \in spendPoints' : cstatus'[row[1]] = "consumed"
    BY <2>1, <2>2, <2>3 DEF PointsAwarded
  <2>5. new \notin spendPoints
    BY <2>1, <2>3 DEF PointsAwarded
  <2>6. ASSUME NEW v \in Members PROVE totalPoints'[v] = PointSum(v)'
    <3>1. CASE v = u /\ codePoints[c] > 0
      <4> DEFINE old == [row \in PointRows(v) |-> row[2]]
                 now == [row \in PointRows(v) \cup {new} |-> row[2]]
      <4>1. PointRows(v)' = PointRows(v) \cup {new}
        BY <2>1, <2>3, <3>1 DEF PointRows, u
      <4>2. IsFiniteSet(PointRows(v)) /\ new \notin PointRows(v)
        BY <2>2, <2>5, FS_Subset DEF PointRows
      <4>3. now[new] = codePoints[c] /\ codePoints[c] \in Int
        BY <2>2, <2>3
      <4>4. \A row \in PointRows(v) : old[row] \in Int /\ now[row] = old[row]
        BY <2>2 DEF PointRows
      <4>5. SumFunctionOnSet(now, PointRows(v) \cup {new})
               = codePoints[c] + SumFunctionOnSet(old, PointRows(v))
        <5> HIDE DEF now, old
        <5> QED BY <4>2, <4>3, <4>4, SumGrow
      <4>6. PointSum(v)' = SumFunctionOnSet(now, PointRows(v) \cup {new})
        BY <4>1 DEF PointSum
      <4>7. totalPoints[v] = SumFunctionOnSet(old, PointRows(v))
        BY DEF PointsAwarded, PointSum
      <4> HIDE DEF now, old
      <4> QED BY <2>1, <2>2, <3>1, <4>5, <4>6, <4>7
    <3>2. CASE v # u \/ ~ codePoints[c] > 0
      <4>1. PointRows(v)' = PointRows(v)
        BY <2>1, <2>3, <3>2 DEF PointRows, u
      <4>2. totalPoints'[v] = totalPoints[v]
        BY <2>1, <2>2, <3>2
      <4> QED BY <4>1, <4>2 DEF PointsAwarded, PointSum
    <3> QED BY <3>1, <3>2
  <2> QED BY <2>4, <2>6 DEF PointsAwarded
<1>3. ASSUME NEW k \in Credits, NEW m \in Commerce, CreditMember(k, m)
      PROVE  PointsAwarded'
  BY <1>1, <1>3, CreditEffect
<1>4. ASSUME \/ \E c \in Codes : \/ CountCodes(c) \/ AbortCode(c) \/ CodeDue(c)
                                 \/ CancelCode(c)
                                 \/ \E points \in PointChoices : CreateCode(c, points)
             \/ ExpireCodes
             \/ UNCHANGED vars
      PROVE  PointsAwarded'
  BY <1>1, <1>4, QuietStep
<1> QED BY <1>2, <1>3, <1>4 DEF Next

\* A code pays once, in both books, and awards the points it reserved, in
\* every interleaving of flows A and B.
THEOREM CodesConsumedOnce == Spec => []ConsumedOnce
<1>1. CommerceTypeOK /\ CodesPaid /\ PointsAwarded => ConsumedOnce
  <2> SUFFICES ASSUME CommerceTypeOK, CodesPaid, PointsAwarded PROVE ConsumedOnce
    OBVIOUS
  <2>1. ASSUME NEW S, \E i : S = {i} PROVE Cardinality(S) = 1
    BY <2>1, FS_Singleton
  <2>2. \A u \in Members : totalPoints[u] = SumFunction([row \in
           {r \in spendPoints : Holder[r[1]] = u} |-> row[2]])
    BY DEF PointsAwarded, PointSum, PointRows, SumFunction
  <2> QED BY <2>1, <2>2 DEF ConsumedOnce, CodesPaid, PaidExactly, PaidRows, PostedRows
<1> QED BY <1>1, TypeInit, TypeStep, CodesPaidInit, CodesPaidStep, PointsInit, PointsStep,
           PTL DEF Spec

-----------------------------------------------------------------------------
\* What is reserved on an account is its active codes, and is covered.
HoldsCovered ==
    \A u \in Members : /\ reserved[u] = ReservedForCodes(u)
                       /\ reserved[u] <= balance[u]

LEMMA HoldsInit == Init => HoldsCovered
<1> SUFFICES ASSUME Init, NEW u \in Members
             PROVE  reserved[u] = ReservedForCodes(u) /\ reserved[u] <= balance[u]
  BY DEF HoldsCovered
<1>1. ActiveOf(u) = {}
  BY DEF Init, CommerceInit, ActiveOf, Active
<1>2. reserved[u] = 0 /\ balance[u] \in Nat
  BY AccountsAssumption DEF Init, AccountsInit
<1> QED BY <1>1, <1>2, SumEmpty DEF ReservedForCodes

LEMMA ActiveFinite ==
  ASSUME NEW u
  PROVE  /\ IsFiniteSet(ActiveOf(u)) /\ ActiveOf(u) \subseteq Codes
         /\ \A c \in ActiveOf(u) : CodeAmount[c] \in Nat
         /\ ReservedForCodes(u) \in Nat
<1>1. IsFiniteSet(ActiveOf(u)) /\ ActiveOf(u) \subseteq Codes
  BY FiniteConstants, FS_Subset DEF ActiveOf, Active
<1>2. \A c \in ActiveOf(u) : CodeAmount[c] \in Nat
  BY <1>1, CodeConstants
<1> QED BY <1>1, <1>2, SumNat DEF ReservedForCodes

\* An active code that ends gives back what it set aside, and no more.
LEMMA EndOne ==
  ASSUME CommerceTypeOK, HoldsCovered, NEW c \in Codes, cstatus[c] = "active",
         NEW status, status # "active", cstatus' = [cstatus EXCEPT ![c] = status],
         reserved' = [reserved EXCEPT ![Holder[c]] = Clamp(reserved[Holder[c]] - CodeAmount[c])]
  PROVE  /\ \A u \in Members : reserved'[u] = ReservedForCodes(u)'
         /\ reserved' = [reserved EXCEPT ![Holder[c]] = reserved[Holder[c]] - CodeAmount[c]]
<1>1. /\ cstatus \in [Codes -> CodeStatuses] /\ reserved \in [Members -> Int]
      /\ Holder[c] \in Members
  BY CodeConstants DEF CommerceTypeOK, TypeOK, AccountsTypeOK
<1>2. c \in ActiveOf(Holder[c])
  BY DEF ActiveOf, Active
<1>3. \A u \in Members : ActiveOf(u)' = IF u = Holder[c] THEN ActiveOf(u) \ {c} ELSE ActiveOf(u)
  BY <1>1 DEF ActiveOf, Active
<1>4. ReservedForCodes(Holder[c])
         = CodeAmount[c] + SumFunctionOnSet(CodeAmount, ActiveOf(Holder[c]) \ {c})
  BY <1>2, ActiveFinite, SumRemove DEF ReservedForCodes
<1>5. SumFunctionOnSet(CodeAmount, ActiveOf(Holder[c]) \ {c}) \in Nat
  <2>1. IsFiniteSet(ActiveOf(Holder[c]) \ {c})
    BY ActiveFinite, FS_Subset
  <2> QED BY <2>1, ActiveFinite, SumNat
<1>6. Clamp(reserved[Holder[c]] - CodeAmount[c]) = reserved[Holder[c]] - CodeAmount[c]
         /\ reserved[Holder[c]] - CodeAmount[c]
               = SumFunctionOnSet(CodeAmount, ActiveOf(Holder[c]) \ {c})
  BY <1>1, <1>4, <1>5, CodeConstants DEF Clamp, HoldsCovered
<1>7. ASSUME NEW u \in Members PROVE reserved'[u] = ReservedForCodes(u)'
  <2>1. CASE u = Holder[c]
    BY <1>1, <1>3, <1>6, <2>1 DEF ReservedForCodes
  <2>2. CASE u # Holder[c]
    BY <1>1, <1>3, <2>2 DEF ReservedForCodes, HoldsCovered
  <2> QED BY <2>1, <2>2
<1> QED BY <1>6, <1>7

LEMMA HoldsStep ==
  CommerceTypeOK /\ CommerceTypeOK' /\ HoldsCovered /\ [Next]_vars => HoldsCovered'
<1> SUFFICES ASSUME CommerceTypeOK, CommerceTypeOK', HoldsCovered, [Next]_vars
             PROVE  HoldsCovered'
  OBVIOUS
<1>0. /\ cstatus \in [Codes -> CodeStatuses] /\ reserved \in [Members -> Int]
      /\ balance \in [Members -> Int]
  BY DEF CommerceTypeOK, TypeOK, AccountsTypeOK
<1>1. ASSUME UNCHANGED <<balance, reserved, cstatus>> PROVE HoldsCovered'
  BY <1>1 DEF HoldsCovered, ReservedForCodes, ActiveOf, Active
<1>2. ASSUME NEW c \in Codes, CountCodes(c) \/ AbortCode(c) \/ CodeDue(c)
      PROVE  HoldsCovered'
  BY <1>1, <1>2 DEF CountCodes, AbortCode, CodeDue, accountVars, codeVars
<1>3. ASSUME NEW c \in Codes, NEW points \in PointChoices, CreateCode(c, points)
      PROVE  HoldsCovered'
  <2> DEFINE h == Holder[c]
  <2>1. /\ cstatus[c] = "unused" /\ CodeAmount[c] <= balance[h] - reserved[h]
        /\ cstatus' = [cstatus EXCEPT ![c] = "active"]
        /\ reserved' = [reserved EXCEPT ![h] = reserved[h] + CodeAmount[c]]
        /\ balance' = balance
    BY <1>3 DEF CreateCode, FundsCover, Available, CommerceTypeOK
  <2>2. h \in Members /\ CodeAmount[c] \in Nat
    BY CodeConstants
  <2>3. \A u \in Members : ActiveOf(u)' = IF u = h THEN ActiveOf(u) \cup {c} ELSE ActiveOf(u)
    BY <1>0, <2>1 DEF ActiveOf, Active
  <2>4. c \notin ActiveOf(h)
    BY <2>1 DEF ActiveOf, Active
  <2>5. SumFunctionOnSet(CodeAmount, ActiveOf(h) \cup {c})
           = CodeAmount[c] + SumFunctionOnSet(CodeAmount, ActiveOf(h))
    <3>1. \A i \in ActiveOf(h) \cup {c} : CodeAmount[i] \in Int
      BY <2>2, ActiveFinite
    <3> QED BY <2>4, <3>1, ActiveFinite, SumAdd
  <2>6. reserved[h] = SumFunctionOnSet(CodeAmount, ActiveOf(h))
    BY <2>2 DEF HoldsCovered, ReservedForCodes
  <2>7. ASSUME NEW u \in Members
        PROVE  reserved'[u] = ReservedForCodes(u)' /\ reserved'[u] <= balance'[u]
    <3>1. CASE u = h
      <4>1. reserved'[u] = CodeAmount[c] + reserved[h] /\ balance[h] \in Int /\ reserved[h] \in Int
        BY <1>0, <2>1, <2>2, <3>1
      <4>2. ReservedForCodes(u)' = SumFunctionOnSet(CodeAmount, ActiveOf(h) \cup {c})
        BY <2>3, <3>1 DEF ReservedForCodes
      <4> HIDE DEF h
      <4> QED BY <2>1, <2>2, <2>5, <2>6, <3>1, <4>1, <4>2
    <3>2. CASE u # h
      BY <1>0, <2>1, <2>3, <3>2 DEF ReservedForCodes, HoldsCovered
    <3> QED BY <3>1, <3>2
  <2> QED BY <2>7 DEF HoldsCovered
<1>4. ASSUME NEW c \in Codes, CancelCode(c) PROVE HoldsCovered'
  <2>1. /\ cstatus[c] = "active" /\ cstatus' = [cstatus EXCEPT ![c] = "cancelled"]
        /\ reserved' = [reserved EXCEPT ![Holder[c]]
                          = Clamp(reserved[Holder[c]] - CodeAmount[c])]
        /\ balance' = balance
    BY <1>4 DEF CancelCode, StillActive, ReleaseReserved
  <2>2. /\ \A u \in Members : reserved'[u] = ReservedForCodes(u)'
        /\ reserved' = [reserved EXCEPT ![Holder[c]] = reserved[Holder[c]] - CodeAmount[c]]
    BY <2>1, EndOne
  <2>3. \A u \in Members : reserved'[u] <= balance'[u]
    BY <1>0, <2>1, <2>2, CodeConstants DEF HoldsCovered
  <2> QED BY <2>2, <2>3 DEF HoldsCovered
<1>5. ASSUME NEW c \in Codes, NEW m \in Commerce, ConsumeCode(c, m) PROVE HoldsCovered'
  <2>1. /\ cstatus[c] = "active" /\ cstatus' = [cstatus EXCEPT ![c] = "consumed"]
        /\ reserved' = [reserved EXCEPT ![Holder[c]]
                          = Clamp(reserved[Holder[c]] - CodeAmount[c])]
        /\ balance' = [balance EXCEPT ![Holder[c]] = balance[Holder[c]] - CodeAmount[c]]
    BY <1>5, ConsumeEffect
  <2>2. /\ \A u \in Members : reserved'[u] = ReservedForCodes(u)'
        /\ reserved' = [reserved EXCEPT ![Holder[c]] = reserved[Holder[c]] - CodeAmount[c]]
    BY <2>1, EndOne
  <2>3. \A u \in Members : reserved'[u] <= balance'[u]
    BY <1>0, <2>1, <2>2, CodeConstants DEF HoldsCovered
  <2> QED BY <2>2, <2>3 DEF HoldsCovered
<1>6. ASSUME ExpireCodes PROVE HoldsCovered'
  <2> DEFINE Due(u) == {c \in DueCodes : Holder[c] = u}
  <2>1. /\ cstatus' = [c \in Codes |-> IF c \in DueCodes THEN "expired" ELSE cstatus[c]]
        /\ reserved' = [u \in Members |-> Clamp(reserved[u] - Returned(u, DueCodes))]
        /\ balance' = balance
    BY <1>6 DEF ExpireCodes
  <2>2. ASSUME NEW u \in Members
        PROVE  reserved'[u] = ReservedForCodes(u)' /\ reserved'[u] <= balance'[u]
    <3>1. /\ ActiveOf(u) = ActiveOf(u)' \cup Due(u) /\ ActiveOf(u)' \cap Due(u) = {}
      BY <2>1 DEF ActiveOf, Active, DueCodes
    <3>2. /\ IsFiniteSet(ActiveOf(u)') /\ IsFiniteSet(Due(u))
          /\ \A c \in ActiveOf(u)' \cup Due(u) : CodeAmount[c] \in Nat
      BY <3>1, ActiveFinite, FS_Subset
    <3>3. SumFunctionOnSet(CodeAmount, ActiveOf(u)' \cup Due(u))
             = SumFunctionOnSet(CodeAmount, ActiveOf(u)') + SumFunctionOnSet(CodeAmount, Due(u))
      <4> HIDE DEF Due
      <4> QED BY <3>1, <3>2, SumUnion
    <3>4. /\ SumFunctionOnSet(CodeAmount, ActiveOf(u)') \in Nat
          /\ SumFunctionOnSet(CodeAmount, Due(u)) \in Nat
      <4> HIDE DEF Due
      <4> QED BY <3>2, SumNat
    <3>5. reserved[u] = SumFunctionOnSet(CodeAmount, ActiveOf(u)') + Returned(u, DueCodes)
      BY <3>1, <3>3 DEF HoldsCovered, ReservedForCodes, Returned
    <3>6. Returned(u, DueCodes) \in Nat
      BY <3>4 DEF Returned
    <3>7. reserved'[u] = SumFunctionOnSet(CodeAmount, ActiveOf(u)')
             /\ reserved'[u] <= reserved[u]
      BY <2>1, <3>4, <3>5, <3>6 DEF Clamp
    <3>8. reserved[u] <= balance[u] /\ balance[u] \in Int /\ reserved[u] \in Int
      BY <1>0 DEF HoldsCovered
    <3>9. ReservedForCodes(u)' = SumFunctionOnSet(CodeAmount, ActiveOf(u)')
      BY DEF ReservedForCodes
    <3> QED BY <2>1, <3>4, <3>7, <3>8, <3>9
  <2> QED BY <2>2 DEF HoldsCovered
<1>7. ASSUME NEW k \in Credits, NEW m \in Commerce, CreditMember(k, m) PROVE HoldsCovered'
  <2>1. /\ balance' = [balance EXCEPT ![CreditTo[k]] = balance[CreditTo[k]] + CreditAmount[k]]
        /\ UNCHANGED <<reserved, cstatus>>
    BY <1>7, CreditEffect
  <2>2. \A u \in Members : balance'[u] >= balance[u]
    BY <1>0, <2>1, CreditConstants
  <2>3. \A u \in Members : ReservedForCodes(u)' = ReservedForCodes(u)
    BY <2>1 DEF ReservedForCodes, ActiveOf, Active
  <2>4. balance' \in [Members -> Int]
    BY DEF CommerceTypeOK, TypeOK, AccountsTypeOK
  <2> QED BY <1>0, <2>1, <2>2, <2>3, <2>4 DEF HoldsCovered
<1>8. CASE UNCHANGED vars
  BY <1>1, <1>8 DEF vars, accountVars, commerceVars, codeVars
<1> QED BY <1>2, <1>3, <1>4, <1>5, <1>6, <1>7, <1>8 DEF Next

\* What is reserved on an account is exactly its active codes: no interleaving
\* of creations, purchases, cancels and the expiry job leaks a reservation or
\* releases one twice, although every release is clamped at zero.  And the
\* CHECK constraints on the account never fire.
THEOREM ReservedIsActiveCodes ==
  Spec => [](AccountsSound /\ \A u \in Members : reserved[u] = ReservedForCodes(u))
<1>1. CommerceTypeOK /\ HoldsCovered =>
         AccountsSound /\ \A u \in Members : reserved[u] = ReservedForCodes(u)
  <2> SUFFICES ASSUME HoldsCovered
               PROVE  AccountsSound /\ \A u \in Members : reserved[u] = ReservedForCodes(u)
    OBVIOUS
  <2>1. \A u \in Members : ReservedForCodes(u) >= 0
    BY ActiveFinite
  <2> QED BY <2>1 DEF HoldsCovered, AccountsSound
<1> QED BY <1>1, TypeInit, TypeStep, HoldsInit, HoldsStep, PTL DEF Spec

-----------------------------------------------------------------------------
\* The commissions taken so far.
ConsumedCodes == {c \in Codes : cstatus[c] = "consumed"}
CreditedRequests == {k \in Credits : creditedBy[k] # NoOne}
CodeFees == [c \in ConsumedCodes |-> CommerceFee[consumedBy[c]][c]]
CreditFees == [k \in CreditedRequests |-> CommerceFee[creditedBy[k]][k]]

LEMMA FeesTyped ==
  ASSUME CommerceTypeOK, CodesPaid
  PROVE  /\ IsFiniteSet(ConsumedCodes) /\ IsFiniteSet(CreditedRequests)
         /\ \A c \in ConsumedCodes : CodeFees[c] \in Int
         /\ \A k \in CreditedRequests : CreditFees[k] \in Int
         /\ SumFunctionOnSet(CodeFees, ConsumedCodes) \in Int
         /\ SumFunctionOnSet(CreditFees, CreditedRequests) \in Int
<1>1. IsFiniteSet(ConsumedCodes) /\ IsFiniteSet(CreditedRequests)
  BY FiniteConstants, FS_Subset DEF ConsumedCodes, CreditedRequests
<1>2. \A c \in ConsumedCodes : CodeFees[c] \in Int
  BY CodeConstants DEF CodesPaid, PaidExactly, ConsumedCodes, CodeFees
<1>3. \A k \in CreditedRequests : CreditFees[k] \in Int
  <2>1. \A k \in CreditedRequests : k \in Credits /\ creditedBy[k] \in Commerce
    BY DEF CommerceTypeOK, TypeOK, CreditedRequests
  <2> QED BY <2>1, CreditConstants DEF CreditFees
<1> QED BY <1>1, <1>2, <1>3, SumInt

LEMMA BooksTyped ==
  ASSUME CommerceTypeOK
  PROVE  /\ SumFunctionOnSet(balance, Members) \in Int
         /\ SumFunctionOnSet(settlement, Commerce) \in Int
         /\ \A u \in Members : balance[u] \in Int
         /\ \A m \in Commerce : settlement[m] \in Int
<1>1. /\ \A u \in Members : balance[u] \in Int
      /\ \A m \in Commerce : settlement[m] \in Int
  BY DEF CommerceTypeOK, TypeOK, AccountsTypeOK, SettlementTypeOK
<1> QED BY <1>1, FiniteConstants, SumInt

OpeningMoney == SumFunctionOnSet(OpeningBalance, Members)
                   + SumFunctionOnSet(OpeningSettlement, Commerce)
MoneyHeld ==
    SumFunctionOnSet(balance, Members) + SumFunctionOnSet(settlement, Commerce)
       = OpeningMoney - SumFunctionOnSet(CodeFees, ConsumedCodes)
                      - SumFunctionOnSet(CreditFees, CreditedRequests)

LEMMA OpeningMoneyInt ==
  /\ OpeningMoney \in Int
  /\ SumFunctionOnSet(OpeningBalance, Members) \in Int
  /\ SumFunctionOnSet(OpeningSettlement, Commerce) \in Int
<1>1. /\ \A u \in Members : OpeningBalance[u] \in Int
      /\ \A m \in Commerce : OpeningSettlement[m] \in Int
  BY AccountsAssumption, SettlementAssumption
<1> QED BY <1>1, FiniteConstants, SumInt DEF OpeningMoney

LEMMA MoneyInit == Init => MoneyHeld
<1> SUFFICES ASSUME Init PROVE MoneyHeld
  OBVIOUS
<1>1. ConsumedCodes = {} /\ CreditedRequests = {}
  BY DEF Init, CommerceInit, ConsumedCodes, CreditedRequests
<1>2. /\ SumFunctionOnSet(CodeFees, ConsumedCodes) = 0
      /\ SumFunctionOnSet(CreditFees, CreditedRequests) = 0
  BY <1>1, SumEmpty
<1>3. balance = OpeningBalance /\ settlement = OpeningSettlement
  BY DEF Init, AccountsInit, SettlementInit
<1> QED BY <1>2, <1>3, OpeningMoneyInt DEF MoneyHeld, OpeningMoney

LEMMA MoneyStep ==
  /\ CommerceTypeOK /\ CommerceTypeOK' /\ CodesPaid /\ MoneyHeld /\ [Next]_vars
  => MoneyHeld'
<1> SUFFICES ASSUME CommerceTypeOK, CommerceTypeOK', CodesPaid, MoneyHeld, [Next]_vars
             PROVE  MoneyHeld'
  OBVIOUS
<1> DEFINE Bal == SumFunctionOnSet(balance, Members)
           Set == SumFunctionOnSet(settlement, Commerce)
           FeesA == SumFunctionOnSet(CodeFees, ConsumedCodes)
           FeesB == SumFunctionOnSet(CreditFees, CreditedRequests)
<1>1. Bal \in Int /\ Set \in Int /\ FeesA \in Int /\ FeesB \in Int
         /\ OpeningMoney \in Int /\ Bal + Set = OpeningMoney - FeesA - FeesB
  BY BooksTyped, FeesTyped, OpeningMoneyInt DEF MoneyHeld
<1>2. ASSUME UNCHANGED <<balance, settlement, consumedBy, creditedBy>>,
             \A d \in Codes : cstatus'[d] = "consumed" <=> cstatus[d] = "consumed"
      PROVE  MoneyHeld'
  <2>1. ConsumedCodes' = ConsumedCodes /\ CreditedRequests' = CreditedRequests
    BY <1>2 DEF ConsumedCodes, CreditedRequests
  <2>2. CodeFees' = CodeFees /\ CreditFees' = CreditFees
    BY <1>2, <2>1 DEF CodeFees, CreditFees
  <2> QED BY <1>2, <2>1, <2>2 DEF MoneyHeld
<1>3. ASSUME NEW c \in Codes, NEW m \in Commerce, ConsumeCode(c, m) PROVE MoneyHeld'
  <2> DEFINE fee == CommerceFee[m][c]
             u == Holder[c]
             amount == CodeAmount[c]
  <2>1. /\ cstatus[c] = "active" /\ cstatus' = [cstatus EXCEPT ![c] = "consumed"]
        /\ consumedBy' = [consumedBy EXCEPT ![c] = m]
        /\ balance' = [balance EXCEPT ![u] = balance[u] - amount]
        /\ settlement' = [settlement EXCEPT ![m] = settlement[m] + (amount - fee)]
        /\ UNCHANGED creditedBy
    BY <1>3, ConsumeEffect
  <2>2. /\ u \in Members /\ amount \in Int /\ fee \in Int
        /\ cstatus \in [Codes -> CodeStatuses] /\ balance \in [Members -> Int]
        /\ consumedBy \in [Codes -> Commerce \cup {NoOne}] /\ settlement \in [Commerce -> Int]
    <3>1. u \in Members /\ amount \in Int /\ fee \in Int
      BY CodeConstants
    <3>2. /\ cstatus \in [Codes -> CodeStatuses] /\ balance \in [Members -> Int]
          /\ consumedBy \in [Codes -> Commerce \cup {NoOne}] /\ settlement \in [Commerce -> Int]
      BY DEF CommerceTypeOK, TypeOK, AccountsTypeOK, SettlementTypeOK
    <3> QED BY <3>1, <3>2
  <2> HIDE DEF fee, u, amount
  <2>3. Bal' = Bal - amount
    <3>1. /\ \A i \in Members : balance[i] \in Int /\ balance'[i] \in Int
          /\ \A i \in Members \ {u} : balance[i] = balance'[i]
          /\ balance'[u] - balance[u] = -amount
      BY <2>1, <2>2
    <3>2. Bal' = Bal + (balance'[u] - balance[u])
      BY <2>2, <3>1, FiniteConstants, SumChange
    <3> QED BY <1>1, <2>2, <3>1, <3>2
  <2>4. Set' = Set + (amount - fee)
    <3>1. /\ \A i \in Commerce : settlement[i] \in Int /\ settlement'[i] \in Int
          /\ \A i \in Commerce \ {m} : settlement[i] = settlement'[i]
          /\ settlement'[m] - settlement[m] = amount - fee
      BY <2>1, <2>2
    <3>2. Set' = Set + (settlement'[m] - settlement[m])
      BY <3>1, FiniteConstants, SumChange
    <3> QED BY <3>1, <3>2
  <2>5. FeesA' = fee + FeesA
    <3>1. ConsumedCodes' = ConsumedCodes \cup {c} /\ c \notin ConsumedCodes
      BY <2>1, <2>2 DEF ConsumedCodes
    <3>2. CodeFees'[c] = fee
      BY <2>1, <2>2, <3>1 DEF CodeFees, fee
    <3>3. \A i \in ConsumedCodes : CodeFees'[i] = CodeFees[i]
      BY <2>1, <2>2, <3>1 DEF CodeFees, ConsumedCodes
    <3>4. SumFunctionOnSet(CodeFees', ConsumedCodes \cup {c})
             = CodeFees'[c] + SumFunctionOnSet(CodeFees, ConsumedCodes)
      BY <2>2, <3>1, <3>2, <3>3, FeesTyped, SumGrow
    <3> QED BY <3>1, <3>2, <3>4
  <2>6. FeesB' = FeesB
    BY <2>1 DEF CreditFees, CreditedRequests
  <2> HIDE DEF Bal, Set, FeesA, FeesB
  <2>7. OpeningMoney' = OpeningMoney
    BY DEF OpeningMoney
  <2>8. Bal' + Set' = OpeningMoney - FeesA' - FeesB'
    BY <1>1, <2>2, <2>3, <2>4, <2>5, <2>6
  <2> QED BY <2>7, <2>8 DEF MoneyHeld, Bal, Set, FeesA, FeesB
<1>4. ASSUME NEW k \in Credits, NEW m \in Commerce, CreditMember(k, m) PROVE MoneyHeld'
  <2> DEFINE fee == CommerceFee[m][k]
             u == CreditTo[k]
             amount == CreditAmount[k]
  <2>1. /\ creditedBy[k] = NoOne /\ creditedBy' = [creditedBy EXCEPT ![k] = m]
        /\ balance' = [balance EXCEPT ![u] = balance[u] + amount]
        /\ settlement' = [settlement EXCEPT ![m] = settlement[m] + -(amount + fee)]
        /\ UNCHANGED <<cstatus, consumedBy>>
    BY <1>4, CreditEffect
  <2>2. /\ u \in Members /\ amount \in Int /\ fee \in Int /\ m # NoOne
        /\ balance \in [Members -> Int] /\ settlement \in [Commerce -> Int]
        /\ creditedBy \in [Credits -> Commerce \cup {NoOne}]
    <3>1. u \in Members /\ amount \in Int /\ fee \in Int
      BY CreditConstants
    <3>2. m # NoOne
      BY CommerceAssumption
    <3>3. /\ balance \in [Members -> Int] /\ settlement \in [Commerce -> Int]
          /\ creditedBy \in [Credits -> Commerce \cup {NoOne}]
      BY DEF CommerceTypeOK, TypeOK, AccountsTypeOK, SettlementTypeOK
    <3> QED BY <3>1, <3>2, <3>3
  <2> HIDE DEF fee, u, amount
  <2>3. Bal' = Bal + amount
    <3>1. /\ \A i \in Members : balance[i] \in Int /\ balance'[i] \in Int
          /\ \A i \in Members \ {u} : balance[i] = balance'[i]
          /\ balance'[u] - balance[u] = amount
      BY <2>1, <2>2
    <3>2. Bal' = Bal + (balance'[u] - balance[u])
      BY <2>2, <3>1, FiniteConstants, SumChange
    <3> QED BY <1>1, <2>2, <3>1, <3>2
  <2>4. Set' = Set - (amount + fee)
    <3>1. /\ \A i \in Commerce : settlement[i] \in Int /\ settlement'[i] \in Int
          /\ \A i \in Commerce \ {m} : settlement[i] = settlement'[i]
          /\ settlement'[m] - settlement[m] = -(amount + fee)
      BY <2>1, <2>2
    <3>2. Set' = Set + (settlement'[m] - settlement[m])
      BY <3>1, FiniteConstants, SumChange
    <3> QED BY <1>1, <2>2, <3>1, <3>2
  <2>5. FeesB' = fee + FeesB
    <3>1. CreditedRequests' = CreditedRequests \cup {k} /\ k \notin CreditedRequests
      BY <2>1, <2>2 DEF CreditedRequests
    <3>2. CreditFees'[k] = fee
      BY <2>1, <2>2, <3>1 DEF CreditFees, fee
    <3>3. \A i \in CreditedRequests : CreditFees'[i] = CreditFees[i]
      BY <2>1, <2>2, <3>1 DEF CreditFees, CreditedRequests
    <3>4. SumFunctionOnSet(CreditFees', CreditedRequests \cup {k})
             = CreditFees'[k] + SumFunctionOnSet(CreditFees, CreditedRequests)
      BY <2>2, <3>1, <3>2, <3>3, FeesTyped, SumGrow
    <3> QED BY <3>1, <3>2, <3>4
  <2>6. FeesA' = FeesA
    BY <2>1 DEF CodeFees, ConsumedCodes
  <2> HIDE DEF Bal, Set, FeesA, FeesB
  <2>7. OpeningMoney' = OpeningMoney
    BY DEF OpeningMoney
  <2>8. Bal' + Set' = OpeningMoney - FeesA' - FeesB'
    BY <1>1, <2>2, <2>3, <2>4, <2>5, <2>6
  <2> QED BY <2>7, <2>8 DEF MoneyHeld, Bal, Set, FeesA, FeesB
<1>5. ASSUME \/ \E c \in Codes : \/ CountCodes(c) \/ AbortCode(c) \/ CodeDue(c)
                                 \/ CancelCode(c)
                                 \/ \E points \in PointChoices : CreateCode(c, points)
             \/ ExpireCodes
             \/ UNCHANGED vars
      PROVE  MoneyHeld'
  BY <1>2, <1>5, QuietStep
<1> QED BY <1>3, <1>4, <1>5 DEF Next

\* Members and merchants together hold what they held at first less the
\* commissions, for any amounts, fees and order of purchases and credits.
THEOREM MoneyIsConserved == Spec => []MoneyConserved
<1>1. CommerceTypeOK /\ CodesPaid /\ MoneyHeld => MoneyConserved
  <2> SUFFICES ASSUME CommerceTypeOK, CodesPaid, MoneyHeld PROVE MoneyConserved
    OBVIOUS
  <2> DEFINE Bal == SumFunctionOnSet(balance, Members)
             Set == SumFunctionOnSet(settlement, Commerce)
             Bal0 == SumFunctionOnSet(OpeningBalance, Members)
             Set0 == SumFunctionOnSet(OpeningSettlement, Commerce)
             FeesA == SumFunctionOnSet(CodeFees, ConsumedCodes)
             FeesB == SumFunctionOnSet(CreditFees, CreditedRequests)
  <2>1. /\ Bal0 \in Int /\ Set0 \in Int /\ FeesA \in Int /\ FeesB \in Int
        /\ Bal + Set = (Bal0 + Set0) - FeesA - FeesB
    BY FeesTyped, OpeningMoneyInt DEF MoneyHeld, OpeningMoney
  <2>2. MoneyConserved <=> Bal + Set = Bal0 + Set0 - FeesA - FeesB
    BY DEF MoneyConserved, CodeFees, CreditFees, ConsumedCodes, CreditedRequests, SumFunction
  <2> HIDE DEF Bal, Set, Bal0, Set0, FeesA, FeesB
  <2> QED BY <2>1, <2>2
<1> QED BY <1>1, TypeInit, TypeStep, CodesPaidInit, CodesPaidStep, MoneyInit, MoneyStep,
           PTL DEF Spec

-----------------------------------------------------------------------------
\* The hold that the codes of flow A implement.
H == INSTANCE Hold WITH
        Accounts <- Members, Holds <- Codes, HolderOf <- Holder,
        AmountOf <- CodeAmount, Opening <- OpeningBalance, funds <- balance,
        held <- Active, captured <- Ended({"consumed"}),
        released <- Ended({"cancelled", "expired"})

\* The instance has a sum of its own, which is the one of the module.
LEMMA HoldSums ==
  ASSUME NEW f, NEW S
  PROVE  H!SumFunctionOnSet(f, S) = SumFunctionOnSet(f, S)
<1>1. H!SumFunctionOnSet(f, S) = (CHOOSE g : Adds(f, g, S))[S]
  BY Zenon DEF H!SumFunctionOnSet, H!FoldFunctionOnSet, H!MapThenFoldSet, Adds, Pick
<1> QED BY <1>1, SumUnfold

LEMMA HoldInitially == Init => H!HoldInit
BY DEF Init, AccountsInit, CommerceInit, H!HoldInit, Active, Ended

LEMMA HoldStep ==
  CommerceTypeOK /\ HoldsCovered /\ HoldsCovered' /\ [Next]_vars
     => [H!HoldNext]_(H!holdVars)
<1> SUFFICES ASSUME CommerceTypeOK, HoldsCovered, HoldsCovered', [Next]_vars
             PROVE  [H!HoldNext]_(H!holdVars)
  OBVIOUS
<1> DEFINE Captured == Ended({"consumed"})
           Released == Ended({"cancelled", "expired"})
<1>0. /\ cstatus \in [Codes -> CodeStatuses] /\ balance \in [Members -> Int]
      /\ \A u \in Members : ReservedForCodes(u) = H!SetAside(u)
  <2>1. cstatus \in [Codes -> CodeStatuses] /\ balance \in [Members -> Int]
    BY DEF CommerceTypeOK, TypeOK, AccountsTypeOK
  <2>2. \A u \in Members : ReservedForCodes(u) = H!SetAside(u)
    <3> SUFFICES ASSUME NEW u \in Members PROVE ReservedForCodes(u) = H!SetAside(u)
      OBVIOUS
    <3>1. ReservedForCodes(u) = SumFunctionOnSet(CodeAmount, {h \in Active : Holder[h] = u})
      BY DEF ReservedForCodes, ActiveOf
    <3>2. H!SetAside(u) = H!SumFunctionOnSet(CodeAmount, {h \in Active : Holder[h] = u})
      BY DEF H!SetAside
    <3> QED BY <3>1, <3>2, HoldSums
  <2> QED BY <2>1, <2>2
<1>1. ASSUME UNCHANGED <<balance, cstatus>> PROVE UNCHANGED H!holdVars
  BY <1>1 DEF H!holdVars, Active, Ended
<1>2. ASSUME NEW c \in Codes, CountCodes(c) \/ AbortCode(c) \/ CodeDue(c)
      PROVE  UNCHANGED H!holdVars
  BY <1>1, <1>2 DEF CountCodes, AbortCode, CodeDue, accountVars, codeVars
<1>3. ASSUME NEW c \in Codes, NEW points \in PointChoices, CreateCode(c, points)
      PROVE  H!Place(c)
  <2>1. /\ cstatus[c] = "unused" /\ CodeAmount[c] <= balance[Holder[c]] - reserved[Holder[c]]
        /\ cstatus' = [cstatus EXCEPT ![c] = "active"] /\ balance' = balance
    BY <1>3 DEF CreateCode, FundsCover, Available, CommerceTypeOK
  <2>2. c \notin Active \cup Captured \cup Released
    BY <2>1 DEF Active, Ended
  <2>3. Active' = Active \cup {c} /\ Captured' = Captured /\ Released' = Released
    BY <1>0, <2>1, <2>2 DEF Active, Ended
  <2>4. H!SetAside(Holder[c]) + CodeAmount[c] <= balance[Holder[c]]
    <3>1. /\ Holder[c] \in Members /\ CodeAmount[c] \in Int
          /\ balance[Holder[c]] \in Int /\ H!SetAside(Holder[c]) \in Int
          /\ reserved[Holder[c]] = H!SetAside(Holder[c])
      BY <1>0, CodeConstants, ActiveFinite DEF HoldsCovered
    <3> QED BY <2>1, <3>1
  <2> QED BY <2>1, <2>2, <2>3, <2>4 DEF H!Place
<1>4. ASSUME NEW c \in Codes, CancelCode(c) PROVE H!Release({c})
  <2>1. /\ cstatus[c] = "active" /\ cstatus' = [cstatus EXCEPT ![c] = "cancelled"]
        /\ balance' = balance
    BY <1>4 DEF CancelCode, StillActive
  <2>2. c \in Active /\ c \notin Captured
    BY <2>1 DEF Active, Ended
  <2>3. Active' = Active \ {c} /\ Captured' = Captured /\ Released' = Released \cup {c}
    BY <1>0, <2>1, <2>2 DEF Active, Ended
  <2> QED BY <2>1, <2>2, <2>3 DEF H!Release
<1>5. ASSUME NEW c \in Codes, NEW m \in Commerce, ConsumeCode(c, m) PROVE H!Capture(c)
  <2>1. /\ cstatus[c] = "active" /\ cstatus' = [cstatus EXCEPT ![c] = "consumed"]
        /\ balance' = [balance EXCEPT ![Holder[c]] = balance[Holder[c]] - CodeAmount[c]]
    BY <1>5, ConsumeEffect
  <2>2. c \in Active /\ c \notin Released
    BY <2>1 DEF Active, Ended
  <2>3. Active' = Active \ {c} /\ Captured' = Captured \cup {c} /\ Released' = Released
    BY <1>0, <2>1, <2>2 DEF Active, Ended
  <2> QED BY <2>1, <2>2, <2>3 DEF H!Capture
<1>6. ASSUME ExpireCodes PROVE H!Release(DueCodes) /\ DueCodes \in SUBSET Codes
  <2>1. /\ cstatus' = [c \in Codes |-> IF c \in DueCodes THEN "expired" ELSE cstatus[c]]
        /\ balance' = balance
    BY <1>6 DEF ExpireCodes
  <2>2. DueCodes \subseteq Active
    BY DEF DueCodes
  <2>3. Active' = Active \ DueCodes
    BY <2>1, <2>2 DEF Active
  <2>4. Captured' = Captured
    BY <2>1, <2>2 DEF Active, Ended
  <2>5. Released' = Released \cup DueCodes
    BY <2>1, <2>2 DEF Active, Ended
  <2> QED BY <2>1, <2>2, <2>3, <2>4, <2>5 DEF H!Release, Active
<1>7. ASSUME NEW k \in Credits, NEW m \in Commerce, CreditMember(k, m)
      PROVE  H!Move(CreditTo[k]) /\ CreditTo[k] \in Members
  <2>1. /\ balance' = [balance EXCEPT ![CreditTo[k]] = balance[CreditTo[k]] + CreditAmount[k]]
        /\ UNCHANGED cstatus
    BY <1>7, CreditEffect
  <2>2. CreditTo[k] \in Members
    BY CreditConstants
  <2>3. H!SetAside(CreditTo[k])' = H!SetAside(CreditTo[k])
    BY <2>1 DEF H!SetAside, Active
  <2>4. balance'[CreditTo[k]] >= H!SetAside(CreditTo[k])
    <3>1. /\ balance[CreditTo[k]] \in Int /\ CreditAmount[k] \in Nat
          /\ H!SetAside(CreditTo[k]) \in Int
          /\ H!SetAside(CreditTo[k]) <= balance[CreditTo[k]]
      BY <1>0, <2>2, CreditConstants, ActiveFinite DEF HoldsCovered
    <3> QED BY <1>0, <2>1, <2>2, <3>1
  <2>5. balance' = [balance EXCEPT ![CreditTo[k]] = balance'[CreditTo[k]]]
    BY <1>0, <2>1, <2>2
  <2> QED BY <2>1, <2>2, <2>4, <2>5 DEF H!Move, Active, Ended
<1>8. UNCHANGED vars => UNCHANGED H!holdVars
  BY <1>1 DEF vars, accountVars, commerceVars, codeVars
<1> QED BY <1>2, <1>3, <1>4, <1>5, <1>6, <1>7, <1>8 DEF Next, H!HoldNext

\* Codes keep the promise of a hold: placed only on money that is there,
\* ended once, by a purchase that pays or a release that does not, while
\* merchant credits move the rest of the account.
THEOREM CodesAreHolds == Spec => H!HoldSpec
BY TypeInit, TypeStep, HoldsInit, HoldsStep, HoldInitially, HoldStep,
   PTL DEF Spec, H!HoldSpec
=============================================================================
