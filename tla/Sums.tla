-------------------------------- MODULE Sums --------------------------------
(***************************************************************************)
(* Facts about sums over a finite set, for the proofs about books, pools    *)
(* and shares: SumFunctionOnSet(f, S) of the community modules, which adds  *)
(* f[i] for the i in S.  It is a fold, so the first lemmas establish the     *)
(* equation it is defined by; the rest is what the proofs cite: what a sum  *)
(* of one element more, one less or one changed is, and when two agree.     *)
(***************************************************************************)
EXTENDS Integers, Functions, FiniteSetTheorems, WellFoundedInduction, TLAPS

Pick(s) == CHOOSE x \in s : TRUE
Adds(f, g, S) ==
    g = [s \in SUBSET S |-> IF s = {} THEN 0 ELSE f[Pick(s)] + g[s \ {Pick(s)}]]

\* The sum is the value at S of a function that adds the elements of every
\* subset of S.
LEMMA SumUnfold ==
  ASSUME NEW f, NEW S
  PROVE  SumFunctionOnSet(f, S) = (CHOOSE g : Adds(f, g, S))[S]
BY Zenon DEF SumFunctionOnSet, FoldFunctionOnSet, MapThenFoldSet, Adds, Pick

\* Every non-empty collection of subsets of a finite set has a smallest one:
\* the form of induction the lemmas below use.
LEMMA SmallestSubset ==
  ASSUME NEW S, IsFiniteSet(S), NEW T, T \subseteq SUBSET S, T # {}
  PROVE  \E m \in T : \A t \in T : ~ (t \subseteq m /\ t # m)
<1>1. IsWellFoundedOn(StrictSubsetOrdering(S), FiniteSubsetsOf(S))
  BY FS_StrictSubsetOrderingWellFounded
<1>2. T \subseteq FiniteSubsetsOf(S)
  BY FS_FiniteSubsetsOfFinite
<1>3. PICK m \in T : \A t \in T : ~ (<<t, m>> \in StrictSubsetOrdering(S))
  BY <1>1, <1>2, WFMin
<1>4. ASSUME NEW t \in T, t \subseteq m, t # m PROVE FALSE
  <2>1. <<t, m>> \in (SUBSET S) \X (SUBSET S)
    OBVIOUS
  <2> QED BY <1>3, <1>4, <2>1 DEF StrictSubsetOrdering
<1> QED BY <1>3, <1>4

LEMMA PickIn == ASSUME NEW s, s # {} PROVE Pick(s) \in s
BY DEF Pick

LEMMA AddsAt ==
  ASSUME NEW f, NEW g, NEW S, Adds(f, g, S), NEW s \in SUBSET S
  PROVE  g[s] = IF s = {} THEN 0 ELSE f[Pick(s)] + g[s \ {Pick(s)}]
BY Zenon DEF Adds

\* Two such functions agree where both are defined.
LEMMA AddsUnique ==
  ASSUME NEW f, NEW S, IsFiniteSet(S), NEW g, NEW h, NEW T,
         Adds(f, g, S), Adds(f, h, T), NEW s, s \subseteq S, s \subseteq T
  PROVE  g[s] = h[s]
<1> DEFINE Differ == {t \in SUBSET S : t \subseteq T /\ g[t] # h[t]}
<1> SUFFICES ASSUME s \in Differ PROVE FALSE
  OBVIOUS
<1>1. PICK m \in Differ : \A t \in Differ : ~ (t \subseteq m /\ t # m)
  <2>1. Differ \subseteq SUBSET S /\ Differ # {}
    OBVIOUS
  <2> HIDE DEF Differ
  <2> QED BY <2>1, SmallestSubset
<1>2. m # {}
  BY AddsAt
<1>3. m \ {Pick(m)} \subseteq m /\ m \ {Pick(m)} # m
  BY <1>2, PickIn
<1>4. g[m \ {Pick(m)}] = h[m \ {Pick(m)}]
  BY <1>1, <1>3
<1>5. g[m] = f[Pick(m)] + g[m \ {Pick(m)}] /\ h[m] = f[Pick(m)] + h[m \ {Pick(m)}]
  BY <1>1, <1>2, AddsAt
<1> QED BY <1>1, <1>4, <1>5

\* There is one for every finite set.
LEMMA AddsExists ==
  ASSUME NEW f, NEW S, IsFiniteSet(S)
  PROVE  \E g : Adds(f, g, S)
<1> DEFINE Lacking == {t \in SUBSET S : ~ \E g : Adds(f, g, t)}
           G(t) == CHOOSE g : Adds(f, g, t)
<1> SUFFICES ASSUME S \in Lacking PROVE FALSE
  OBVIOUS
<1>1. PICK m \in Lacking : \A t \in Lacking : ~ (t \subseteq m /\ t # m)
  <2>1. Lacking \subseteq SUBSET S /\ Lacking # {}
    OBVIOUS
  <2> HIDE DEF Lacking
  <2> QED BY <2>1, SmallestSubset
<1> DEFINE Below(t) == IF t = {} THEN 0 ELSE f[Pick(t)] + G(t \ {Pick(t)})[t \ {Pick(t)}]
           g == [t \in SUBSET m |-> Below(t)]
<1>2. ASSUME NEW t \in SUBSET m, t # m PROVE Adds(f, G(t), t)
  BY <1>1, <1>2
<1>3. ASSUME NEW t \in SUBSET m, t # {}
      PROVE  G(t \ {Pick(t)})[t \ {Pick(t)}] = g[t \ {Pick(t)}]
  <2> DEFINE u == t \ {Pick(t)}
  <2>1. u \in SUBSET m /\ u # m
    BY <1>3, PickIn
  <2>2. Adds(f, G(u), u)
    BY <1>2, <2>1
  <2>3. CASE u = {}
    BY <2>1, <2>2, <2>3, AddsAt
  <2>4. CASE u # {}
    <3> DEFINE v == u \ {Pick(u)}
    <3>1. v \in SUBSET m /\ v # m /\ v \subseteq u
      BY <2>1, <2>4, PickIn
    <3>2. Adds(f, G(v), v)
      BY <1>2, <3>1
    <3>3. IsFiniteSet(u)
      BY <2>1, <1>1, FS_Subset
    <3>4. G(u)[v] = G(v)[v]
      <4> HIDE DEF G, u, v
      <4> QED BY <2>2, <3>1, <3>2, <3>3, AddsUnique
    <3>5. G(u)[u] = f[Pick(u)] + G(u)[v]
      <4>1. u \in SUBSET u
        OBVIOUS
      <4> HIDE DEF G, u
      <4> QED BY <2>2, <2>4, <4>1, AddsAt
    <3>6. g[u] = f[Pick(u)] + G(v)[v]
      BY <2>1, <2>4
    <3> QED BY <3>4, <3>5, <3>6
  <2> QED BY <2>3, <2>4
<1>4. \A t \in SUBSET m :
         Below(t) = IF t = {} THEN 0 ELSE f[Pick(t)] + g[t \ {Pick(t)}]
  <2> HIDE DEF g, G
  <2> QED BY <1>3
<1>5. Adds(f, g, m)
  <2>1. g = [t \in SUBSET m |-> IF t = {} THEN 0 ELSE f[Pick(t)] + g[t \ {Pick(t)}]]
    <3> HIDE DEF Below
    <3> QED BY <1>4
  <2> QED BY <2>1, Zenon DEF Adds
<1> QED BY <1>1, <1>5

-----------------------------------------------------------------------------
\* The two cases of the recursion.
LEMMA SumEmpty == ASSUME NEW f PROVE SumFunctionOnSet(f, {}) = 0
<1>1. \E g : Adds(f, g, {})
  BY AddsExists, FS_EmptySet
<1>2. Adds(f, CHOOSE g : Adds(f, g, {}), {})
  BY <1>1
<1> QED BY <1>2, SumUnfold, AddsAt

LEMMA SumStep ==
  ASSUME NEW f, NEW S, IsFiniteSet(S), S # {}
  PROVE  SumFunctionOnSet(f, S)
            = f[Pick(S)] + SumFunctionOnSet(f, S \ {Pick(S)})
<1> DEFINE R == S \ {Pick(S)}
           G(T) == CHOOSE g : Adds(f, g, T)
<1>1. Adds(f, G(S), S)
  BY AddsExists
<1>2. Adds(f, G(R), R)
  BY AddsExists, FS_Subset
<1>3. G(S)[R] = G(R)[R]
  BY <1>1, <1>2, AddsUnique
<1>4. G(S)[S] = f[Pick(S)] + G(S)[R]
  BY <1>1, AddsAt
<1> QED BY <1>3, <1>4, SumUnfold

\* A sum of integers is an integer, of naturals a natural.
LEMMA SumInt ==
  ASSUME NEW f, NEW S, IsFiniteSet(S), \A i \in S : f[i] \in Int
  PROVE  SumFunctionOnSet(f, S) \in Int
<1> DEFINE Bad == {t \in SUBSET S : SumFunctionOnSet(f, t) \notin Int}
<1> SUFFICES ASSUME S \in Bad PROVE FALSE
  OBVIOUS
<1>1. PICK m \in Bad : \A t \in Bad : ~ (t \subseteq m /\ t # m)
  <2>1. Bad \subseteq SUBSET S /\ Bad # {}
    OBVIOUS
  <2> HIDE DEF Bad
  <2> QED BY <2>1, SmallestSubset
<1>2. m # {}
  BY SumEmpty
<1>3. Pick(m) \in m /\ IsFiniteSet(m)
  BY <1>2, PickIn, FS_Subset
<1>4. SumFunctionOnSet(f, m \ {Pick(m)}) \in Int
  BY <1>1, <1>3
<1> QED BY <1>2, <1>3, <1>4, SumStep

LEMMA SumNat ==
  ASSUME NEW f, NEW S, IsFiniteSet(S), \A i \in S : f[i] \in Nat
  PROVE  SumFunctionOnSet(f, S) \in Nat
<1> DEFINE Bad == {t \in SUBSET S : SumFunctionOnSet(f, t) \notin Nat}
<1> SUFFICES ASSUME S \in Bad PROVE FALSE
  OBVIOUS
<1>1. PICK m \in Bad : \A t \in Bad : ~ (t \subseteq m /\ t # m)
  <2>1. Bad \subseteq SUBSET S /\ Bad # {}
    OBVIOUS
  <2> HIDE DEF Bad
  <2> QED BY <2>1, SmallestSubset
<1>2. m # {}
  BY SumEmpty
<1>3. Pick(m) \in m /\ IsFiniteSet(m)
  BY <1>2, PickIn, FS_Subset
<1>4. SumFunctionOnSet(f, m \ {Pick(m)}) \in Nat
  BY <1>1, <1>3
<1> QED BY <1>2, <1>3, <1>4, SumStep

\* Any element may be taken out first: the order of a sum does not matter.
LEMMA SumRemove ==
  ASSUME NEW f, NEW S, IsFiniteSet(S), \A i \in S : f[i] \in Int, NEW x \in S
  PROVE  SumFunctionOnSet(f, S) = f[x] + SumFunctionOnSet(f, S \ {x})
<1> DEFINE Sum(t) == SumFunctionOnSet(f, t)
           Bad == {t \in SUBSET S : \E y \in t : Sum(t) # f[y] + Sum(t \ {y})}
<1> SUFFICES ASSUME S \in Bad PROVE FALSE
  OBVIOUS
<1>1. PICK m \in Bad : \A t \in Bad : ~ (t \subseteq m /\ t # m)
  <2>1. Bad \subseteq SUBSET S /\ Bad # {}
    OBVIOUS
  <2> HIDE DEF Bad
  <2> QED BY <2>1, SmallestSubset
<1>2. PICK y \in m : Sum(m) # f[y] + Sum(m \ {y})
  BY <1>1
<1> DEFINE p == Pick(m)
           rest == (m \ {y}) \ {p}
<1>3. m # {} /\ p \in m /\ IsFiniteSet(m)
  BY <1>2, PickIn, FS_Subset
<1>4. Sum(m) = f[p] + Sum(m \ {p})
  BY <1>3, SumStep
<1>5. p # y
  BY <1>2, <1>4
<1>6. Sum(m \ {p}) = f[y] + Sum(rest)
  <2>1. m \ {p} \notin Bad
    BY <1>1, <1>3
  <2>2. (m \ {p}) \ {y} = rest
    OBVIOUS
  <2> QED BY <2>1, <2>2, <1>2, <1>5
<1>7. Sum(m \ {y}) = f[p] + Sum(rest)
  <2>1. m \ {y} \notin Bad
    BY <1>1, <1>2
  <2> QED BY <2>1, <1>3, <1>5
<1>8. f[p] \in Int /\ f[y] \in Int /\ Sum(rest) \in Int
  <2>1. IsFiniteSet(rest)
    BY <1>3, FS_Subset
  <2> QED BY <1>2, <1>3, <2>1, SumInt
<1> HIDE DEF Sum, p, rest
<1> QED BY <1>2, <1>4, <1>6, <1>7, <1>8

\* One element more.
LEMMA SumAdd ==
  ASSUME NEW f, NEW S, IsFiniteSet(S), NEW x, x \notin S,
         \A i \in S \cup {x} : f[i] \in Int
  PROVE  /\ SumFunctionOnSet(f, S \cup {x}) = f[x] + SumFunctionOnSet(f, S)
         /\ SumFunctionOnSet(f, S) \in Int
<1>1. IsFiniteSet(S \cup {x}) /\ (S \cup {x}) \ {x} = S
  BY FS_AddElement
<1> QED BY <1>1, SumRemove, SumInt

\* A sum depends on nothing but the values it adds.
LEMMA SumSame ==
  ASSUME NEW f, NEW g, NEW S, IsFiniteSet(S), \A i \in S : f[i] = g[i]
  PROVE  SumFunctionOnSet(f, S) = SumFunctionOnSet(g, S)
<1> DEFINE Bad == {t \in SUBSET S : SumFunctionOnSet(f, t) # SumFunctionOnSet(g, t)}
<1> SUFFICES ASSUME S \in Bad PROVE FALSE
  OBVIOUS
<1>1. PICK m \in Bad : \A t \in Bad : ~ (t \subseteq m /\ t # m)
  <2>1. Bad \subseteq SUBSET S /\ Bad # {}
    OBVIOUS
  <2> HIDE DEF Bad
  <2> QED BY <2>1, SmallestSubset
<1>2. m # {}
  BY SumEmpty
<1>3. Pick(m) \in m /\ IsFiniteSet(m)
  BY <1>2, PickIn, FS_Subset
<1>4. SumFunctionOnSet(f, m \ {Pick(m)}) = SumFunctionOnSet(g, m \ {Pick(m)})
  BY <1>1, <1>3
<1> QED BY <1>2, <1>3, <1>4, SumStep

\* The same where the function is another one after the step: an element
\* more, or one less, and the others as they were.
LEMMA SumGrow ==
  ASSUME NEW f, NEW g, NEW S, IsFiniteSet(S), NEW x, x \notin S,
         g[x] \in Int, \A i \in S : f[i] \in Int /\ g[i] = f[i]
  PROVE  SumFunctionOnSet(g, S \cup {x}) = g[x] + SumFunctionOnSet(f, S)
<1>1. \A i \in S \cup {x} : g[i] \in Int
  OBVIOUS
<1>2. SumFunctionOnSet(g, S \cup {x}) = g[x] + SumFunctionOnSet(g, S)
  BY <1>1, SumAdd
<1>3. SumFunctionOnSet(g, S) = SumFunctionOnSet(f, S)
  BY SumSame
<1> QED BY <1>2, <1>3

LEMMA SumShrink ==
  ASSUME NEW f, NEW g, NEW S, IsFiniteSet(S), NEW x \in S,
         \A i \in S : f[i] \in Int, \A i \in S \ {x} : g[i] = f[i]
  PROVE  SumFunctionOnSet(f, S) = f[x] + SumFunctionOnSet(g, S \ {x})
<1>1. SumFunctionOnSet(f, S) = f[x] + SumFunctionOnSet(f, S \ {x})
  BY SumRemove
<1>2. SumFunctionOnSet(g, S \ {x}) = SumFunctionOnSet(f, S \ {x})
  BY SumSame, FS_Subset
<1> QED BY <1>1, <1>2

\* One element changed.
LEMMA SumChange ==
  ASSUME NEW f, NEW g, NEW S, IsFiniteSet(S), NEW x \in S,
         \A i \in S : f[i] \in Int /\ g[i] \in Int,
         \A i \in S \ {x} : f[i] = g[i]
  PROVE  SumFunctionOnSet(g, S) = SumFunctionOnSet(f, S) + (g[x] - f[x])
<1>1. SumFunctionOnSet(f, S \ {x}) = SumFunctionOnSet(g, S \ {x})
  BY SumSame, FS_Subset
<1>2. SumFunctionOnSet(f, S) = f[x] + SumFunctionOnSet(f, S \ {x})
  BY SumRemove
<1>3. SumFunctionOnSet(g, S) = g[x] + SumFunctionOnSet(g, S \ {x})
  BY SumRemove
<1>4. SumFunctionOnSet(f, S \ {x}) \in Int
  BY SumInt, FS_Subset
<1> QED BY <1>1, <1>2, <1>3, <1>4

\* Two sets that have nothing in common.
LEMMA SumUnion ==
  ASSUME NEW f, NEW S, NEW T, IsFiniteSet(S), IsFiniteSet(T), S \cap T = {},
         \A i \in S \cup T : f[i] \in Int
  PROVE  SumFunctionOnSet(f, S \cup T)
            = SumFunctionOnSet(f, S) + SumFunctionOnSet(f, T)
<1> DEFINE Sum(t) == SumFunctionOnSet(f, t)
           Bad == {t \in SUBSET T : Sum(S \cup t) # Sum(S) + Sum(t)}
<1> SUFFICES ASSUME T \in Bad PROVE FALSE
  OBVIOUS
<1>1. PICK m \in Bad : \A t \in Bad : ~ (t \subseteq m /\ t # m)
  <2>1. Bad \subseteq SUBSET T /\ Bad # {}
    OBVIOUS
  <2> HIDE DEF Bad
  <2> QED BY <2>1, SmallestSubset
<1>2. Sum(S) \in Int
  BY SumInt
<1>3. m # {}
  <2>1. S \cup {} = S /\ Sum({}) = 0
    BY SumEmpty
  <2>2. Sum(S \cup {}) = Sum(S) + Sum({})
    <3> HIDE DEF Sum
    <3> QED BY <1>2, <2>1
  <2> QED BY <2>2
<1> DEFINE p == Pick(m)
           rest == m \ {p}
<1>4. p \in m /\ IsFiniteSet(m) /\ IsFiniteSet(rest) /\ IsFiniteSet(S \cup m)
  BY <1>1, <1>3, PickIn, FS_Subset, FS_Union
<1>5. Sum(S \cup rest) = Sum(S) + Sum(rest)
  BY <1>1, <1>4
<1>6. Sum(m) = f[p] + Sum(rest)
  BY <1>1, <1>4, SumRemove
<1>7. Sum(S \cup m) = f[p] + Sum(S \cup rest)
  <2>1. (S \cup m) \ {p} = S \cup rest
    BY <1>1, <1>4
  <2> QED BY <1>1, <1>4, <2>1, SumRemove
<1>8. f[p] \in Int /\ Sum(rest) \in Int
  BY <1>1, <1>4, SumInt
<1>9. Sum(S \cup m) # Sum(S) + Sum(m)
  BY <1>1
<1> HIDE DEF Sum, p, rest
<1> QED BY <1>2, <1>5, <1>6, <1>7, <1>8, <1>9

\* A part of a set of naturals adds up to no more than the whole.
LEMMA SumPart ==
  ASSUME NEW f, NEW S, IsFiniteSet(S), \A i \in S : f[i] \in Nat,
         NEW T, T \subseteq S
  PROVE  SumFunctionOnSet(f, T) <= SumFunctionOnSet(f, S)
<1>1. IsFiniteSet(T) /\ IsFiniteSet(S \ T)
  BY FS_Subset
<1>2. SumFunctionOnSet(f, T \cup (S \ T))
         = SumFunctionOnSet(f, T) + SumFunctionOnSet(f, S \ T)
  BY <1>1, SumUnion
<1>3. SumFunctionOnSet(f, T) \in Nat /\ SumFunctionOnSet(f, S \ T) \in Nat
  BY <1>1, SumNat
<1>4. T \cup (S \ T) = S
  OBVIOUS
<1>5. SumFunctionOnSet(f, S)
         = SumFunctionOnSet(f, T) + SumFunctionOnSet(f, S \ T)
  BY <1>2, <1>4
<1> QED BY <1>3, <1>5

\* Smaller values add up to no more.
LEMMA SumMonotonic ==
  ASSUME NEW f, NEW g, NEW S, IsFiniteSet(S),
         \A i \in S : f[i] \in Int /\ g[i] \in Int /\ f[i] <= g[i]
  PROVE  SumFunctionOnSet(f, S) <= SumFunctionOnSet(g, S)
<1> DEFINE Bad == {t \in SUBSET S : ~ (SumFunctionOnSet(f, t) <= SumFunctionOnSet(g, t))}
<1> SUFFICES ASSUME S \in Bad PROVE FALSE
  OBVIOUS
<1>1. PICK m \in Bad : \A t \in Bad : ~ (t \subseteq m /\ t # m)
  <2>1. Bad \subseteq SUBSET S /\ Bad # {}
    OBVIOUS
  <2> HIDE DEF Bad
  <2> QED BY <2>1, SmallestSubset
<1>2. m # {}
  <2>1. SumFunctionOnSet(f, {}) = 0 /\ SumFunctionOnSet(g, {}) = 0
    BY SumEmpty
  <2>2. SumFunctionOnSet(f, {}) <= SumFunctionOnSet(g, {})
    BY <2>1
  <2> QED BY <2>2
<1>3. Pick(m) \in m /\ IsFiniteSet(m) /\ IsFiniteSet(m \ {Pick(m)})
  BY <1>2, PickIn, FS_Subset
<1>4. SumFunctionOnSet(f, m \ {Pick(m)}) <= SumFunctionOnSet(g, m \ {Pick(m)})
  BY <1>1, <1>3
<1>5. /\ SumFunctionOnSet(f, m \ {Pick(m)}) \in Int
      /\ SumFunctionOnSet(g, m \ {Pick(m)}) \in Int
  BY <1>3, SumInt
<1> QED BY <1>2, <1>3, <1>4, <1>5, SumStep

\* Zeros add up to zero.
LEMMA SumZero ==
  ASSUME NEW f, NEW S, IsFiniteSet(S), \A i \in S : f[i] = 0
  PROVE  SumFunctionOnSet(f, S) = 0
<1> DEFINE Bad == {t \in SUBSET S : SumFunctionOnSet(f, t) # 0}
<1> SUFFICES ASSUME S \in Bad PROVE FALSE
  OBVIOUS
<1>1. PICK m \in Bad : \A t \in Bad : ~ (t \subseteq m /\ t # m)
  <2>1. Bad \subseteq SUBSET S /\ Bad # {}
    OBVIOUS
  <2> HIDE DEF Bad
  <2> QED BY <2>1, SmallestSubset
<1>2. m # {}
  BY SumEmpty
<1>3. Pick(m) \in m /\ IsFiniteSet(m)
  BY <1>2, PickIn, FS_Subset
<1>4. SumFunctionOnSet(f, m \ {Pick(m)}) = 0
  BY <1>1, <1>3
<1> QED BY <1>2, <1>3, <1>4, SumStep

\* The sum of sums, taken value by value.
LEMMA SumPlus ==
  ASSUME NEW f, NEW g, NEW h, NEW S, IsFiniteSet(S),
         \A i \in S : f[i] \in Int /\ g[i] \in Int /\ h[i] = f[i] + g[i]
  PROVE  SumFunctionOnSet(h, S) = SumFunctionOnSet(f, S) + SumFunctionOnSet(g, S)
<1> DEFINE Bad == {t \in SUBSET S : SumFunctionOnSet(h, t)
                       # SumFunctionOnSet(f, t) + SumFunctionOnSet(g, t)}
<1> SUFFICES ASSUME S \in Bad PROVE FALSE
  OBVIOUS
<1>1. PICK m \in Bad : \A t \in Bad : ~ (t \subseteq m /\ t # m)
  <2>1. Bad \subseteq SUBSET S /\ Bad # {}
    OBVIOUS
  <2> HIDE DEF Bad
  <2> QED BY <2>1, SmallestSubset
<1>2. m # {}
  <2>1. /\ SumFunctionOnSet(f, {}) = 0 /\ SumFunctionOnSet(g, {}) = 0
        /\ SumFunctionOnSet(h, {}) = 0
    BY SumEmpty
  <2>2. SumFunctionOnSet(h, {}) = SumFunctionOnSet(f, {}) + SumFunctionOnSet(g, {})
    BY <2>1
  <2> QED BY <2>2
<1> DEFINE p == Pick(m)
           rest == m \ {Pick(m)}
<1>3. p \in m /\ p \in S /\ IsFiniteSet(m) /\ IsFiniteSet(rest)
  BY <1>2, PickIn, FS_Subset
<1>4. SumFunctionOnSet(h, rest) = SumFunctionOnSet(f, rest) + SumFunctionOnSet(g, rest)
  BY <1>1, <1>3
<1>5. SumFunctionOnSet(f, rest) \in Int /\ SumFunctionOnSet(g, rest) \in Int
  BY <1>3, SumInt
<1>6. /\ SumFunctionOnSet(f, m) = f[p] + SumFunctionOnSet(f, rest)
      /\ SumFunctionOnSet(g, m) = g[p] + SumFunctionOnSet(g, rest)
      /\ SumFunctionOnSet(h, m) = h[p] + SumFunctionOnSet(h, rest)
  BY <1>2, <1>3, SumStep
<1>7. f[p] \in Int /\ g[p] \in Int /\ h[p] = f[p] + g[p]
  BY <1>3
<1>8. SumFunctionOnSet(h, m) # SumFunctionOnSet(f, m) + SumFunctionOnSet(g, m)
  BY <1>1
<1> HIDE DEF p, rest
<1> QED BY <1>4, <1>5, <1>6, <1>7, <1>8

\* A factor of every value is a factor of the sum.
LEMMA SumScaled ==
  ASSUME NEW f, NEW g, NEW k \in Int, NEW S, IsFiniteSet(S),
         \A i \in S : f[i] \in Int /\ g[i] = k * f[i]
  PROVE  SumFunctionOnSet(g, S) = k * SumFunctionOnSet(f, S)
<1> DEFINE Bad == {t \in SUBSET S : SumFunctionOnSet(g, t) # k * SumFunctionOnSet(f, t)}
<1> SUFFICES ASSUME S \in Bad PROVE FALSE
  OBVIOUS
<1>1. PICK m \in Bad : \A t \in Bad : ~ (t \subseteq m /\ t # m)
  <2>1. Bad \subseteq SUBSET S /\ Bad # {}
    OBVIOUS
  <2> HIDE DEF Bad
  <2> QED BY <2>1, SmallestSubset
<1>2. m # {}
  <2>1. SumFunctionOnSet(f, {}) = 0 /\ SumFunctionOnSet(g, {}) = 0
    BY SumEmpty
  <2>2. SumFunctionOnSet(g, {}) = k * SumFunctionOnSet(f, {})
    BY <2>1
  <2> QED BY <2>2
<1> DEFINE p == Pick(m)
           rest == m \ {Pick(m)}
<1>3. p \in m /\ p \in S /\ IsFiniteSet(m) /\ IsFiniteSet(rest)
  BY <1>2, PickIn, FS_Subset
<1>4. SumFunctionOnSet(g, rest) = k * SumFunctionOnSet(f, rest)
  BY <1>1, <1>3
<1>5. SumFunctionOnSet(f, rest) \in Int
  BY <1>3, SumInt
<1>6. /\ SumFunctionOnSet(f, m) = f[p] + SumFunctionOnSet(f, rest)
      /\ SumFunctionOnSet(g, m) = g[p] + SumFunctionOnSet(g, rest)
  BY <1>2, <1>3, SumStep
<1>7. f[p] \in Int /\ g[p] = k * f[p]
  BY <1>3
<1>8. SumFunctionOnSet(g, m) # k * SumFunctionOnSet(f, m)
  BY <1>1
<1>9. \A x, y \in Int : k * (x + y) = k * x + k * y
  OBVIOUS
<1> HIDE DEF p, rest
<1> QED BY <1>4, <1>5, <1>6, <1>7, <1>8, <1>9

\* One value taken by all is added as often as there are elements.
LEMMA SumConst ==
  ASSUME NEW f, NEW k \in Int, NEW S, IsFiniteSet(S), \A i \in S : f[i] = k
  PROVE  SumFunctionOnSet(f, S) = k * Cardinality(S)
<1> DEFINE Bad == {t \in SUBSET S : SumFunctionOnSet(f, t) # k * Cardinality(t)}
<1> SUFFICES ASSUME S \in Bad PROVE FALSE
  OBVIOUS
<1>1. PICK m \in Bad : \A t \in Bad : ~ (t \subseteq m /\ t # m)
  <2>1. Bad \subseteq SUBSET S /\ Bad # {}
    OBVIOUS
  <2> HIDE DEF Bad
  <2> QED BY <2>1, SmallestSubset
<1>2. m # {}
  <2>1. SumFunctionOnSet(f, {}) = 0 /\ Cardinality({}) = 0
    BY SumEmpty, FS_EmptySet
  <2>2. SumFunctionOnSet(f, {}) = k * Cardinality({})
    BY <2>1
  <2> QED BY <2>2
<1> DEFINE p == Pick(m)
           rest == m \ {Pick(m)}
<1>3. p \in m /\ IsFiniteSet(m) /\ IsFiniteSet(rest)
  BY <1>2, PickIn, FS_Subset
<1>4. SumFunctionOnSet(f, rest) = k * Cardinality(rest)
  BY <1>1, <1>3
<1>5. Cardinality(m) = Cardinality(rest) + 1 /\ Cardinality(rest) \in Nat
  <2>1. Cardinality(rest) = Cardinality(m) - 1
    BY <1>3, FS_RemoveElement
  <2>2. Cardinality(m) \in Nat /\ Cardinality(rest) \in Nat
    BY <1>3, FS_CardinalityType
  <2> QED BY <2>1, <2>2
<1>6. SumFunctionOnSet(f, m) = f[p] + SumFunctionOnSet(f, rest)
  BY <1>2, <1>3, SumStep
<1>7. f[p] = k
  BY <1>3
<1>8. SumFunctionOnSet(f, m) # k * Cardinality(m)
  BY <1>1
<1>9. \A x \in Int : k * (x + 1) = k + k * x
  OBVIOUS
<1> HIDE DEF p, rest
<1> QED BY <1>4, <1>5, <1>6, <1>7, <1>8, <1>9

-----------------------------------------------------------------------------
\* Division with remainder, for any positive divisor.
LEMMA DivBounds ==
  ASSUME NEW n \in Nat \ {0}, NEW a \in Int
  PROVE  /\ a \div n \in Int
         /\ n * (a \div n) <= a /\ a < n * (a \div n) + n
<1>1. a \div n \in Int
  OBVIOUS
<1>2. n * (a \div n) <= a
  OBVIOUS
<1>3. a < n * (a \div n) + n
  OBVIOUS
<1> QED BY <1>1, <1>2, <1>3

LEMMA DivUnique ==
  ASSUME NEW n \in Nat \ {0}, NEW q \in Int, NEW r \in Int, 0 <= r, r < n
  PROVE  (n * q + r) \div n = q /\ (n * q + r) % n = r
<1>1. (n * q + r) \div n = q
  OBVIOUS
<1>2. (n * q + r) % n = r
  OBVIOUS
<1> QED BY <1>1, <1>2

LEMMA DivRest ==
  ASSUME NEW n \in Nat \ {0}, NEW a \in Int
  PROVE  a = n * (a \div n) + (a % n)
OBVIOUS

\* The ranks that get one more: a remainder handed out one by one is handed
\* out to the unit.
LEMMA RoundRobin ==
  ASSUME NEW n \in Nat \ {0}, NEW left \in Nat, NEW e,
         \A i \in 1 .. n : e[i] = (left + n - i) \div n
  PROVE  SumFunctionOnSet(e, 1 .. n) = left
<1> DEFINE q == left \div n
           r == left % n
           base == [i \in 1 .. n |-> q]
           more == [i \in 1 .. n |-> IF i <= r THEN 1 ELSE 0]
<1>1. q \in Int /\ r \in Int /\ 0 <= r /\ r < n /\ left = n * q + r
  <2>1. left % n \in Int /\ 0 <= left % n /\ left % n < n
    OBVIOUS
  <2> QED BY <2>1, DivBounds, DivRest
<1> HIDE DEF q, r
<1>2. ASSUME NEW i \in 1 .. n PROVE e[i] = base[i] + more[i]
  <2>1. CASE i <= r
    <3>1. left + n - i = n * (q + 1) + (r - i)
      BY <1>1
    <3>2. r - i \in Int /\ 0 <= r - i /\ r - i < n /\ q + 1 \in Int
      BY <1>1, <2>1
    <3>3. (n * (q + 1) + (r - i)) \div n = q + 1
      BY <3>2, DivUnique
    <3> QED BY <1>1, <2>1, <3>1, <3>3
  <2>2. CASE ~ (i <= r)
    <3>1. left + n - i = n * q + (r + n - i)
      BY <1>1
    <3>2. r + n - i \in Int /\ 0 <= r + n - i /\ r + n - i < n
      BY <1>1, <2>2
    <3>3. (n * q + (r + n - i)) \div n = q
      BY <1>1, <3>2, DivUnique
    <3> QED BY <1>1, <2>2, <3>1, <3>3
  <2> QED BY <2>1, <2>2
<1>3. IsFiniteSet(1 .. n) /\ Cardinality(1 .. n) = n
  BY FS_Interval
<1>4. \A i \in 1 .. n : base[i] = q /\ base[i] \in Int /\ more[i] \in Int
  BY <1>1
<1> HIDE DEF base, more
<1>5. SumFunctionOnSet(base, 1 .. n) = q * n
  <2>1. \A i \in 1 .. n : base[i] = q
    BY <1>4
  <2>2. SumFunctionOnSet(base, 1 .. n) = q * Cardinality(1 .. n)
    BY <1>1, <1>3, <2>1, SumConst
  <2> QED BY <1>3, <2>2
<1>6. SumFunctionOnSet(more, 1 .. n) = r
  <2> DEFINE few == {i \in 1 .. n : i <= r}
             none == (1 .. n) \ few
  <2>1. few = 1 .. r
    BY <1>1
  <2>2. IsFiniteSet(few) /\ Cardinality(few) = r
    <3>1. IsFiniteSet(1 .. r)
      BY <1>1, FS_Interval
    <3>2. Cardinality(1 .. r) = r
      BY <1>1, FS_Interval
    <3> QED BY <2>1, <3>1, <3>2
  <2>3. (\A i \in few : more[i] = 1) /\ (\A i \in none : more[i] = 0)
    BY DEF more
  <2>4. few \cup none = 1 .. n /\ few \cap none = {} /\ none \subseteq 1 .. n
    OBVIOUS
  <2> HIDE DEF few, none
  <2>5. IsFiniteSet(none)
    BY <1>3, <2>4, FS_Subset
  <2>6. SumFunctionOnSet(more, few) = r
    <3>1. SumFunctionOnSet(more, few) = 1 * Cardinality(few)
      BY <2>2, <2>3, SumConst
    <3> QED BY <1>1, <2>2, <3>1
  <2>7. SumFunctionOnSet(more, none) = 0
    BY <2>3, <2>5, SumZero
  <2>8. \A i \in few \cup none : more[i] \in Int
    BY <2>3
  <2>9. SumFunctionOnSet(more, few \cup none)
           = SumFunctionOnSet(more, few) + SumFunctionOnSet(more, none)
    BY <2>2, <2>4, <2>5, <2>8, SumUnion
  <2>10. SumFunctionOnSet(more, 1 .. n) = r + 0
    BY <2>4, <2>6, <2>7, <2>9
  <2> QED BY <1>1, <2>10
<1>7. SumFunctionOnSet(e, 1 .. n)
         = SumFunctionOnSet(base, 1 .. n) + SumFunctionOnSet(more, 1 .. n)
  BY <1>2, <1>3, <1>4, SumPlus
<1>8. q * n = n * q
  BY <1>1
<1> QED BY <1>1, <1>5, <1>6, <1>7, <1>8
=============================================================================
