--------------------------- MODULE StorageTheorems ---------------------------
(***************************************************************************)
(* Laws of the recursive helpers of Storage.  SumFunction, the sum of an   *)
(* integer-valued function with a finite domain, takes the keys in an      *)
(* order that CHOOSE fixes: the laws say that the order does not matter.   *)
(* Kept, the elements of a sequence that belong to a set, builds its       *)
(* result as the contracts' loops do.  Induction, over finite sets and     *)
(* over lengths, is done by taking a smallest counterexample.              *)
(***************************************************************************)
EXTENDS Storage, SequenceTheorems, FiniteSetTheorems, WellFoundedInduction, TLAPS

\* The key that SumFunction takes next, and the partial sums it goes through.
Pick(s) == CHOOSE x \in s : TRUE

IsPartialSums(g, f, S) ==
    g = [s \in SUBSET S |-> IF s = {} THEN 0 ELSE f[Pick(s)] + g[s \ {Pick(s)}]]

PartialSums(f, S) == CHOOSE g : IsPartialSums(g, f, S)

\* Pick takes an element of a set that has one.
LEMMA PickIn == ASSUME NEW s, s # {} PROVE Pick(s) \in s
  BY DEF Pick

\* Among the subsets of a finite set, a nonempty collection has a smallest one.
LEMMA SmallestSubset ==
    ASSUME NEW S, IsFiniteSet(S), NEW T \in SUBSET (SUBSET S), T # {}
    PROVE  \E x \in T : \A y \in T : y \subseteq x => y = x
  <1>1. IsWellFoundedOn(StrictSubsetOrdering(S), SUBSET S)
    BY FS_StrictSubsetOrderingWellFounded, FS_FiniteSubsetsOfFinite
  <1>2. PICK x \in T : \A y \in T : ~(<<y, x>> \in StrictSubsetOrdering(S))
    BY <1>1, WFMin
  <1>3. ASSUME NEW y \in T, y \subseteq x, y # x PROVE FALSE
    <2>1. <<y, x>> \in StrictSubsetOrdering(S)
      BY <1>3 DEF StrictSubsetOrdering
    <2>2. QED
      BY <1>2, <2>1
  <1>4. QED
    BY <1>3

\* SumFunction is the last of the partial sums.
LEMMA SumIsLastPartial ==
    ASSUME NEW f, NEW S
    PROVE  SumFunctionOnSet(f, S) = PartialSums(f, S)[S]
  BY DEF SumFunctionOnSet, FoldFunctionOnSet, MapThenFoldSet, PartialSums, IsPartialSums, Pick

\* Partial sums, as an equation for every subset.
LEMMA PartialSumsEquation ==
    ASSUME NEW f, NEW S, NEW g, IsPartialSums(g, f, S), NEW s \in SUBSET S
    PROVE  g[s] = IF s = {} THEN 0 ELSE f[Pick(s)] + g[s \ {Pick(s)}]
  BY Zenon DEF IsPartialSums

\* Two tables of partial sums agree where the functions they sum agree.
LEMMA PartialSumsUnique ==
    ASSUME NEW S, IsFiniteSet(S), NEW A, NEW B, NEW f, NEW h, S \subseteq A, S \subseteq B,
           \A k \in S : f[k] = h[k],
           NEW g1, IsPartialSums(g1, f, A), NEW g2, IsPartialSums(g2, h, B)
    PROVE  g1[S] = g2[S]
  <1> DEFINE T == {s \in SUBSET S : g1[s] # g2[s]}
  <1> SUFFICES ASSUME T # {} PROVE FALSE
    OBVIOUS
  <1>1. PICK s \in T : \A y \in T : y \subseteq s => y = s
    <2>1. T \in SUBSET (SUBSET S)
      OBVIOUS
    <2> HIDE DEF T
    <2>2. QED
      BY <2>1, SmallestSubset
  <1>2. /\ g1[s] = IF s = {} THEN 0 ELSE f[Pick(s)] + g1[s \ {Pick(s)}]
        /\ g2[s] = IF s = {} THEN 0 ELSE h[Pick(s)] + g2[s \ {Pick(s)}]
    BY PartialSumsEquation
  <1>3. CASE s = {}
    BY <1>2, <1>3
  <1>4. CASE s # {}
    <2>1. Pick(s) \in s
      BY <1>4, PickIn
    <2>2. s \ {Pick(s)} \notin T
      BY <1>1, <2>1
    <2>3. g1[s \ {Pick(s)}] = g2[s \ {Pick(s)}] /\ f[Pick(s)] = h[Pick(s)]
      BY <2>1, <2>2
    <2>4. QED
      BY <1>2, <1>4, <2>3
  <1>5. QED
    BY <1>3, <1>4

\* Every finite set has a table of partial sums: one for each smaller set
\* is extended by the set itself.
LEMMA PartialSumsExist ==
    ASSUME NEW S, IsFiniteSet(S), NEW f
    PROVE  IsPartialSums(PartialSums(f, S), f, S)
  <1> DEFINE T == {s \in SUBSET S : ~ IsPartialSums(PartialSums(f, s), f, s)}
  <1> SUFFICES ASSUME T # {} PROVE FALSE
    OBVIOUS
  <1>1. PICK s \in T : \A y \in T : y \subseteq s => y = s
    <2>1. T \in SUBSET (SUBSET S)
      OBVIOUS
    <2> HIDE DEF T
    <2>2. QED
      BY <2>1, SmallestSubset
  <1>2. \A y \in SUBSET s : y # s => IsPartialSums(PartialSums(f, y), f, y)
    BY <1>1
  <1> DEFINE Before(y) == PartialSums(f, y)[y]
             g == [y \in SUBSET s |->
                     IF y = {} THEN 0 ELSE f[Pick(y)] + Before(y \ {Pick(y)})]
  <1>3. ASSUME NEW y \in SUBSET s, y # s PROVE g[y] = Before(y)
    <2>1. /\ IsPartialSums(PartialSums(f, y), f, y)
          /\ PartialSums(f, y)[y] = IF y = {} THEN 0
                 ELSE f[Pick(y)] + PartialSums(f, y)[y \ {Pick(y)}]
      BY <1>2, <1>3, PartialSumsEquation
    <2>2. CASE y = {}
      BY <2>1, <2>2
    <2>3. CASE y # {}
      <3> DEFINE z == y \ {Pick(y)}
      <3>1. z \in SUBSET s /\ z # s /\ z \subseteq y /\ IsFiniteSet(z)
        BY <1>3, <2>3, PickIn, FS_Subset
      <3>2. IsPartialSums(PartialSums(f, z), f, z)
        BY <1>2, <3>1
      <3>3. PartialSums(f, y)[z] = PartialSums(f, z)[z]
        BY <2>1, <3>1, <3>2, PartialSumsUnique
      <3>4. g[y] = f[Pick(y)] + Before(z)
        BY <2>3
      <3>5. QED
        BY <2>1, <2>3, <3>3, <3>4
    <2>4. QED
      BY <2>2, <2>3
  <1>4. ASSUME NEW y \in SUBSET s
        PROVE  g[y] = IF y = {} THEN 0 ELSE f[Pick(y)] + g[y \ {Pick(y)}]
    <2>1. CASE y # {}
      <3>1. y \ {Pick(y)} \in SUBSET s /\ y \ {Pick(y)} # s
        BY <2>1, PickIn
      <3>2. g[y \ {Pick(y)}] = Before(y \ {Pick(y)})
        BY <1>3, <3>1
      <3>3. QED
        BY <2>1, <3>2
    <2>2. QED
      BY <2>1
  <1> HIDE DEF Before
  <1>5. IsPartialSums(g, f, s)
    <2>1. g = [y \in SUBSET s |-> g[y]]
      OBVIOUS
    <2> HIDE DEF g
    <2>2. QED
      BY <1>4, <2>1 DEF IsPartialSums
  <1>6. IsPartialSums(PartialSums(f, s), f, s)
    BY <1>5, Zenon DEF PartialSums
  <1>7. QED
    BY <1>1, <1>6

-----------------------------------------------------------------------------
\* Summing over no key gives zero; over a nonempty set, one key and the rest.
LEMMA SumOnEmpty == ASSUME NEW f PROVE SumFunctionOnSet(f, {}) = 0
  <1>1. IsPartialSums(PartialSums(f, {}), f, {})
    BY PartialSumsExist, FS_EmptySet
  <1>2. PartialSums(f, {})[{}] = 0
    BY <1>1, PartialSumsEquation, {} \in SUBSET {}
  <1>3. QED
    BY <1>2, SumIsLastPartial

\* The sum depends on the values at the keys only.
LEMMA SumOnSame ==
    ASSUME NEW S, IsFiniteSet(S), NEW f, NEW h, \A k \in S : f[k] = h[k]
    PROVE  SumFunctionOnSet(f, S) = SumFunctionOnSet(h, S)
  <1>1. /\ IsPartialSums(PartialSums(f, S), f, S)
        /\ IsPartialSums(PartialSums(h, S), h, S)
    BY PartialSumsExist
  <1>2. PartialSums(f, S)[S] = PartialSums(h, S)[S]
    BY <1>1, PartialSumsUnique
  <1>3. QED
    BY <1>2, SumIsLastPartial

\* The first key taken out of the sum.
LEMMA SumOnPick ==
    ASSUME NEW S, IsFiniteSet(S), S # {}, NEW f
    PROVE  SumFunctionOnSet(f, S) = f[Pick(S)] + SumFunctionOnSet(f, S \ {Pick(S)})
  <1> DEFINE z == S \ {Pick(S)}
  <1>1. IsFiniteSet(z) /\ z \subseteq S
    BY FS_Subset
  <1>2. /\ IsPartialSums(PartialSums(f, S), f, S)
        /\ IsPartialSums(PartialSums(f, z), f, z)
    BY <1>1, PartialSumsExist
  <1>3. PartialSums(f, S)[z] = PartialSums(f, z)[z]
    BY <1>1, <1>2, PartialSumsUnique
  <1>4. PartialSums(f, S)[S] = f[Pick(S)] + PartialSums(f, S)[z]
    BY <1>2, PartialSumsEquation
  <1>5. QED
    BY <1>3, <1>4, SumIsLastPartial

\* A sum of integers is an integer.
LEMMA SumOnType ==
    ASSUME NEW S, IsFiniteSet(S), NEW f, \A k \in S : f[k] \in Int
    PROVE  SumFunctionOnSet(f, S) \in Int
  <1> DEFINE T == {s \in SUBSET S : SumFunctionOnSet(f, s) \notin Int}
  <1> SUFFICES ASSUME T # {} PROVE FALSE
    OBVIOUS
  <1>1. PICK s \in T : \A y \in T : y \subseteq s => y = s
    <2>1. T \in SUBSET (SUBSET S)
      OBVIOUS
    <2> HIDE DEF T
    <2>2. QED
      BY <2>1, SmallestSubset
  <1>2. s # {} /\ IsFiniteSet(s)
    <2>1. SumFunctionOnSet(f, {}) \in Int
      BY SumOnEmpty
    <2>2. QED
      BY <2>1, FS_Subset
  <1>3. Pick(s) \in s
    BY <1>2, PickIn
  <1>4. SumFunctionOnSet(f, s \ {Pick(s)}) \in Int
    BY <1>1, <1>3
  <1>5. SumFunctionOnSet(f, s) = f[Pick(s)] + SumFunctionOnSet(f, s \ {Pick(s)})
    BY <1>2, SumOnPick
  <1>6. QED
    BY <1>3, <1>4, <1>5

\* Any key can be taken out of the sum, not just the one SumFunction takes.
LEMMA SumOnTake ==
    ASSUME NEW S, IsFiniteSet(S), NEW f, \A k \in S : f[k] \in Int, NEW x \in S
    PROVE  SumFunctionOnSet(f, S) = f[x] + SumFunctionOnSet(f, S \ {x})
  <1> DEFINE Rest(s, y) == SumFunctionOnSet(f, s \ {y})
             T == {s \in SUBSET S : \E y \in s : SumFunctionOnSet(f, s) # f[y] + Rest(s, y)}
  <1> SUFFICES ASSUME T # {} PROVE FALSE
    OBVIOUS
  <1>1. PICK s \in T : \A y \in T : y \subseteq s => y = s
    <2>1. T \in SUBSET (SUBSET S)
      OBVIOUS
    <2> HIDE DEF T
    <2>2. QED
      BY <2>1, SmallestSubset
  <1>2. PICK y \in s : SumFunctionOnSet(f, s) # f[y] + Rest(s, y)
    BY <1>1
  <1>3. IsFiniteSet(s) /\ s \subseteq S
    BY FS_Subset
  <1> DEFINE c == Pick(s)
             d == (s \ {c}) \ {y}
  <1>4. c \in s /\ SumFunctionOnSet(f, s) = f[c] + SumFunctionOnSet(f, s \ {c})
    BY <1>3, PickIn, SumOnPick
  <1> HIDE DEF c
  <1>5. c # y
    BY <1>2, <1>4
  <1>6. /\ s \ {c} \notin T /\ s \ {y} \notin T
        /\ s \ {c} \in SUBSET S /\ s \ {y} \in SUBSET S
    BY <1>1, <1>3, <1>4
  <1>7. SumFunctionOnSet(f, s \ {c}) = f[y] + SumFunctionOnSet(f, d)
    BY <1>5, <1>6
  <1>8. SumFunctionOnSet(f, s \ {y}) = f[c] + SumFunctionOnSet(f, d)
    <2>1. (s \ {y}) \ {c} = d
      OBVIOUS
    <2>2. SumFunctionOnSet(f, s \ {y}) = f[c] + SumFunctionOnSet(f, (s \ {y}) \ {c})
      BY <1>4, <1>5, <1>6
    <2>3. QED
      BY <2>1, <2>2
  <1>9. f[c] \in Int /\ f[y] \in Int /\ SumFunctionOnSet(f, d) \in Int
    <2>1. IsFiniteSet(d) /\ \A k \in d : f[k] \in Int
      BY <1>3, FS_Subset
    <2>2. QED
      BY <1>3, <1>4, <2>1, SumOnType
  <1> HIDE DEF d
  <1>10. QED
    BY <1>2, <1>4, <1>7, <1>8, <1>9

-----------------------------------------------------------------------------
\* The same laws for a map and all of its keys, as the ledgers use them.

\* A finite map of integers, and one of naturals.
IntMap(f) == IsFiniteSet(DOMAIN f) /\ f \in [DOMAIN f -> Int]
NatMap(f) == IsFiniteSet(DOMAIN f) /\ f \in [DOMAIN f -> Nat]

\* g is f with the key x added.
AddsKey(g, f, x) ==
    /\ IntMap(f) /\ x \notin DOMAIN f
    /\ g \in [DOMAIN f \cup {x} -> Int]
    /\ \A k \in DOMAIN f : g[k] = f[k]

\* g is f but for the value at the key x.
ChangesKey(g, f, x) ==
    /\ IntMap(f) /\ x \in DOMAIN f
    /\ g \in [DOMAIN f -> Int]
    /\ \A k \in DOMAIN f \ {x} : g[k] = f[k]

\* h is the pointwise sum of f and g.
AddsUp(h, f, g) ==
    /\ IntMap(f) /\ IntMap(g)
    /\ DOMAIN g = DOMAIN f /\ DOMAIN h = DOMAIN f
    /\ \A k \in DOMAIN f : h[k] = f[k] + g[k]

\* An empty map sums to zero.
LEMMA SumEmpty == ASSUME NEW f, DOMAIN f = {} PROVE SumFunction(f) = 0
  BY SumOnEmpty DEF SumFunction

\* A finite map of integers has an integer sum.
LEMMA SumType == ASSUME NEW f, IntMap(f) PROVE SumFunction(f) \in Int
  BY SumOnType DEF SumFunction, IntMap

\* A map of naturals is one of integers.
LEMMA NatMapIsIntMap == ASSUME NEW f, NatMap(f) PROVE IntMap(f)
  BY DEF NatMap, IntMap

\* Adding a key to a map adds its value to the sum.
LEMMA SumAdd ==
    ASSUME NEW f, NEW x, NEW g, AddsKey(g, f, x)
    PROVE  /\ SumFunction(g) = SumFunction(f) + g[x]
           /\ IntMap(g) /\ SumFunction(f) \in Int /\ g[x] \in Int
  <1> DEFINE S == DOMAIN f
             U == S \cup {x}
  <1>1. /\ IntMap(f) /\ IsFiniteSet(S) /\ x \notin S /\ DOMAIN g = U
        /\ (\A k \in S : g[k] = f[k]) /\ \A k \in U : g[k] \in Int
    BY DEF AddsKey, IntMap
  <1>2. IsFiniteSet(U) /\ U \ {x} = S /\ x \in U
    BY <1>1, FS_AddElement
  <1>3. IntMap(g) /\ g[x] \in Int
    BY <1>1, <1>2 DEF AddsKey, IntMap
  <1> HIDE DEF S, U
  <1>4. SumFunctionOnSet(g, U) = g[x] + SumFunctionOnSet(g, U \ {x})
    BY <1>1, <1>2, SumOnTake
  <1>5. SumFunctionOnSet(g, S) = SumFunctionOnSet(f, S)
    BY <1>1, SumOnSame
  <1>6. SumFunction(g) = SumFunctionOnSet(g, U) /\ SumFunction(f) = SumFunctionOnSet(f, S)
    BY <1>1 DEF SumFunction, S
  <1>7. SumFunction(f) \in Int
    BY <1>1, SumType
  <1>8. SumFunction(g) = g[x] + SumFunction(f)
    BY <1>2, <1>4, <1>5, <1>6
  <1>9. QED
    BY <1>3, <1>7, <1>8

\* Changing the value at one key changes the sum by the difference.
LEMMA SumChange ==
    ASSUME NEW f, NEW x, NEW g, ChangesKey(g, f, x)
    PROVE  /\ SumFunction(g) = SumFunction(f) - f[x] + g[x]
           /\ IntMap(g) /\ SumFunction(f) \in Int /\ f[x] \in Int /\ g[x] \in Int
  <1> DEFINE r == [k \in DOMAIN f \ {x} |-> f[k]]
  <1>1. IntMap(f) /\ IntMap(g)
    BY DEF ChangesKey, IntMap
  <1>2. IsFiniteSet(DOMAIN r)
    BY FS_Subset DEF ChangesKey, IntMap
  <1>3. DOMAIN r \cup {x} = DOMAIN f
    BY DEF ChangesKey
  <1>4. AddsKey(f, r, x) /\ AddsKey(g, r, x)
    BY <1>2, <1>3 DEF AddsKey, ChangesKey, IntMap
  <1> HIDE DEF r
  <1>5. /\ SumFunction(f) = SumFunction(r) + f[x] /\ SumFunction(g) = SumFunction(r) + g[x]
        /\ SumFunction(r) \in Int /\ f[x] \in Int /\ g[x] \in Int
    BY <1>4, SumAdd
  <1>6. QED
    BY <1>1, <1>5

\* A finite map of naturals has a natural sum.
LEMMA SumNat ==
    ASSUME NEW f, NatMap(f)
    PROVE  SumFunction(f) \in Nat
  <1> DEFINE S == DOMAIN f
             T == {s \in SUBSET S : SumFunctionOnSet(f, s) \notin Nat}
  <1> USE DEF NatMap
  <1> SUFFICES ASSUME T # {} PROVE FALSE
    BY DEF SumFunction
  <1>1. PICK s \in T : \A y \in T : y \subseteq s => y = s
    <2>1. T \in SUBSET (SUBSET S)
      OBVIOUS
    <2> HIDE DEF T
    <2>2. QED
      BY <2>1, SmallestSubset
  <1>2. s # {} /\ IsFiniteSet(s)
    <2>1. SumFunctionOnSet(f, {}) \in Nat
      BY SumOnEmpty
    <2>2. QED
      BY <2>1, FS_Subset
  <1>3. Pick(s) \in s
    BY <1>2, PickIn
  <1>4. SumFunctionOnSet(f, s \ {Pick(s)}) \in Nat
    BY <1>1, <1>3
  <1>5. SumFunctionOnSet(f, s) = f[Pick(s)] + SumFunctionOnSet(f, s \ {Pick(s)})
    BY <1>2, SumOnPick
  <1>6. QED
    BY <1>3, <1>4, <1>5

\* No value of a map of naturals exceeds the sum.
LEMMA SumMember ==
    ASSUME NEW f, NatMap(f), NEW x \in DOMAIN f
    PROVE  f[x] <= SumFunction(f)
  <1> DEFINE r == [k \in DOMAIN f \ {x} |-> f[k]]
  <1>1. NatMap(r) /\ IntMap(r) /\ DOMAIN r \cup {x} = DOMAIN f
    <2>1. IsFiniteSet(DOMAIN r)
      BY FS_Subset DEF NatMap
    <2>2. QED
      BY <2>1 DEF NatMap, IntMap
  <1>2. AddsKey(f, r, x) /\ f[x] \in Nat
    BY <1>1 DEF AddsKey, NatMap
  <1> HIDE DEF r
  <1>3. SumFunction(f) = SumFunction(r) + f[x] /\ SumFunction(r) \in Nat
    BY <1>1, <1>2, SumAdd, SumNat
  <1>4. QED
    BY <1>2, <1>3

\* Maps of zeros sum to zero.
LEMMA SumZero ==
    ASSUME NEW f, IsFiniteSet(DOMAIN f), \A k \in DOMAIN f : f[k] = 0
    PROVE  SumFunction(f) = 0
  <1> DEFINE S == DOMAIN f
             T == {s \in SUBSET S : SumFunctionOnSet(f, s) # 0}
  <1> SUFFICES ASSUME T # {} PROVE FALSE
    BY DEF SumFunction
  <1>1. PICK s \in T : \A y \in T : y \subseteq s => y = s
    <2>1. T \in SUBSET (SUBSET S)
      OBVIOUS
    <2> HIDE DEF T
    <2>2. QED
      BY <2>1, SmallestSubset
  <1>2. s # {} /\ IsFiniteSet(s)
    <2>1. SumFunctionOnSet(f, {}) = 0
      BY SumOnEmpty
    <2>2. QED
      BY <2>1, FS_Subset
  <1>3. Pick(s) \in s
    BY <1>2, PickIn
  <1>4. SumFunctionOnSet(f, s \ {Pick(s)}) = 0
    BY <1>1, <1>3
  <1>5. SumFunctionOnSet(f, s) = f[Pick(s)] + SumFunctionOnSet(f, s \ {Pick(s)})
    BY <1>2, SumOnPick
  <1>6. QED
    BY <1>3, <1>4, <1>5

\* The sum of a pointwise sum.
LEMMA SumPlus ==
    ASSUME NEW f, NEW g, NEW h, AddsUp(h, f, g)
    PROVE  /\ SumFunction(h) = SumFunction(f) + SumFunction(g)
           /\ SumFunction(f) \in Int /\ SumFunction(g) \in Int
  <1> USE DEF AddsUp, IntMap
  <1> DEFINE S == DOMAIN f
             F(s) == SumFunctionOnSet(f, s)
             G(s) == SumFunctionOnSet(g, s)
             H(s) == SumFunctionOnSet(h, s)
             T == {s \in SUBSET S : H(s) # F(s) + G(s)}
  <1> SUFFICES ASSUME T # {} PROVE FALSE
    BY SumType DEF SumFunction
  <1>1. PICK s \in T : \A y \in T : y \subseteq s => y = s
    <2>1. T \in SUBSET (SUBSET S)
      OBVIOUS
    <2> HIDE DEF T
    <2>2. QED
      BY <2>1, SmallestSubset
  <1>2. s # {} /\ IsFiniteSet(s)
    <2>1. F({}) = 0 /\ G({}) = 0 /\ H({}) = 0
      BY SumOnEmpty
    <2>2. IsFiniteSet(s)
      BY FS_Subset
    <2>3. H(s) # F(s) + G(s)
      BY <1>1
    <2>4. s # {}
      BY <2>1, <2>3
    <2>5. QED
      BY <2>2, <2>4
  <1> DEFINE c == Pick(s)
             z == s \ {c}
  <1>3. c \in s
    BY <1>2, PickIn
  <1>4. F(s) = f[c] + F(z) /\ G(s) = g[c] + G(z) /\ H(s) = h[c] + H(z)
    BY <1>2, SumOnPick
  <1> HIDE DEF c
  <1>5. F(z) \in Int /\ G(z) \in Int
    <2>1. IsFiniteSet(z) /\ (\A k \in z : f[k] \in Int) /\ (\A k \in z : g[k] \in Int)
      BY <1>2, FS_Subset
    <2>2. QED
      BY <2>1, SumOnType
  <1>6. H(z) = F(z) + G(z)
    <2> HIDE DEF F, G, H
    <2>1. QED
      BY <1>1, <1>3
  <1>7. f[c] \in Int /\ g[c] \in Int /\ h[c] = f[c] + g[c]
    BY <1>3
  <1> HIDE DEF F, G, H, z
  <1>8. QED
    BY <1>1, <1>4, <1>5, <1>6, <1>7

\* The sum of a sequence, one element longer.
LEMMA SumAppend ==
    ASSUME NEW s \in Seq(Int), NEW e \in Int
    PROVE  SumFunction(Append(s, e)) = SumFunction(s) + e
  <1> DEFINE n == Len(s)
             g == Append(s, e)
  <1>1. n \in Nat /\ DOMAIN s = 1..n /\ s \in [1..n -> Int]
    BY LenProperties
  <1>2. /\ g[n + 1] = e /\ \A k \in 1..n : g[k] = s[k]
        /\ g \in Seq(Int) /\ Len(g) = n + 1
    BY AppendProperties, LenProperties
  <1> HIDE DEF n, g
  <1>3. g \in [1..(n + 1) -> Int]
    BY <1>2, LenProperties
  <1>4. 1..(n + 1) = (1..n) \cup {n + 1} /\ n + 1 \notin 1..n
    BY <1>1
  <1>5. IsFiniteSet(1..n)
    BY <1>1, FS_Interval, 1 \in Int, n \in Int
  <1>6. AddsKey(g, s, n + 1)
    BY <1>1, <1>2, <1>3, <1>4, <1>5 DEF AddsKey, IntMap
  <1>7. QED
    <2>1. SumFunction(g) = SumFunction(s) + g[n + 1]
      BY <1>6, SumAdd
    <2>2. QED
      BY <1>2, <2>1 DEF g

-----------------------------------------------------------------------------
\* A nonempty set of naturals has a least element.
LEMMA LeastNatural ==
    ASSUME NEW T \in SUBSET Nat, T # {}
    PROVE  \E n \in T : \A m \in T : n <= m
  <1>1. PICK n \in T : \A m \in T : ~(<<m, n>> \in OpToRel(<, Nat))
    BY NatLessThanWellFounded, WFMin
  <1>2. ASSUME NEW m \in T, m < n PROVE FALSE
    <2>1. <<m, n>> \in OpToRel(<, Nat)
      BY <1>2 DEF OpToRel
    <2>2. QED
      BY <1>1, <2>1
  <1>3. QED
    BY <1>2

\* The prefixes of the result as the loop builds it, up to position n.
IsKeptTable(g, s, S, n) ==
    g = [i \in 0..n |-> IF i = 0 THEN <<>>
                        ELSE IF s[i] \in S THEN Append(g[i - 1], s[i])
                        ELSE g[i - 1]]

KeptTable(s, S, n) == CHOOSE g : IsKeptTable(g, s, S, n)

\* Kept is the last entry of the table.
LEMMA KeptIsLast ==
    ASSUME NEW s, NEW S
    PROVE  Kept(s, S) = KeptTable(s, S, Len(s))[Len(s)]
  BY DEF Kept, KeptTable, IsKeptTable

\* The table, as an equation for every position.
LEMMA KeptTableEquation ==
    ASSUME NEW g, NEW s, NEW S, NEW n \in Nat, IsKeptTable(g, s, S, n), NEW i \in 0..n
    PROVE  g[i] = IF i = 0 THEN <<>>
                  ELSE IF s[i] \in S THEN Append(g[i - 1], s[i])
                  ELSE g[i - 1]
  BY Zenon DEF IsKeptTable

\* There is a table up to every position.
LEMMA KeptTableExists ==
    ASSUME NEW s, NEW S, NEW n \in Nat
    PROVE  IsKeptTable(KeptTable(s, S, n), s, S, n)
  <1> DEFINE T == {m \in Nat : ~ \E g : IsKeptTable(g, s, S, m)}
  <1>1. T = {}
    <2> SUFFICES ASSUME T # {} PROVE FALSE
      OBVIOUS
    <2>1. PICK m \in T : \A k \in T : m <= k
      BY LeastNatural
    <2>2. CASE m = 0
      <3> DEFINE g == [i \in 0..0 |-> <<>>]
      <3>1. IsKeptTable(g, s, S, 0)
        BY DEF IsKeptTable
      <3>2. QED
        BY <2>1, <2>2, <3>1
    <2>3. CASE m # 0
      <3>1. m - 1 \in Nat /\ m - 1 \notin T
        BY <2>1, <2>3
      <3>2. PICK h : IsKeptTable(h, s, S, m - 1)
        BY <3>1
      <3> DEFINE last == IF s[m] \in S THEN Append(h[m - 1], s[m]) ELSE h[m - 1]
                 g == [i \in 0..m |-> IF i = m THEN last ELSE h[i]]
      <3>3. ASSUME NEW i \in 0..m
            PROVE  g[i] = IF i = 0 THEN <<>>
                          ELSE IF s[i] \in S THEN Append(g[i - 1], s[i])
                          ELSE g[i - 1]
        <4>1. CASE i = m
          <5>1. g[m] = last /\ g[m - 1] = h[m - 1]
            BY <2>3
          <5>2. QED
            BY <2>3, <4>1, <5>1
        <4>2. CASE i # m
          <5>1. i \in 0..(m - 1) /\ m - 1 \in Nat
            BY <3>1, <4>2
          <5>2. h[i] = IF i = 0 THEN <<>>
                       ELSE IF s[i] \in S THEN Append(h[i - 1], s[i])
                       ELSE h[i - 1]
            BY <3>2, <5>1, KeptTableEquation
          <5>3. g[i] = h[i] /\ (i # 0 => g[i - 1] = h[i - 1])
            BY <4>2, <5>1
          <5> HIDE DEF g
          <5>4. QED
            BY <5>2, <5>3
        <4>3. QED
          BY <4>1, <4>2
      <3>4. g = [i \in 0..m |-> g[i]]
        OBVIOUS
      <3> HIDE DEF g
      <3>5. IsKeptTable(g, s, S, m)
        BY <3>3, <3>4 DEF IsKeptTable
      <3>6. QED
        BY <2>1, <3>5
    <2>4. QED
      BY <2>2, <2>3
  <1>2. \E g : IsKeptTable(g, s, S, n)
    BY <1>1
  <1>3. QED
    BY <1>2, Zenon DEF KeptTable

\* Two sequences agree on their first n elements.
SamePrefix(s, r, n) == \A k \in 1..n : s[k] = r[k]

\* Tables of sequences that agree up to n have the same entry at n.
LEMMA KeptTableUnique ==
    ASSUME NEW s, NEW r, NEW S, NEW n \in Nat, SamePrefix(s, r, n),
           NEW a \in Nat, NEW b \in Nat, n <= a, n <= b,
           NEW g, IsKeptTable(g, s, S, a), NEW h, IsKeptTable(h, r, S, b)
    PROVE  g[n] = h[n]
  <1> DEFINE T == {m \in 0..n : g[m] # h[m]}
  <1> SUFFICES ASSUME T # {} PROVE FALSE
    BY n \in 0..n
  <1>1. T \in SUBSET Nat
    OBVIOUS
  <1>2. PICK m \in T : \A k \in T : m <= k
    <2> HIDE DEF T
    <2>1. QED
      BY <1>1, LeastNatural
  <1>3. m \in 0..a /\ m \in 0..b /\ m \in 0..n
    OBVIOUS
  <1>4. /\ g[m] = IF m = 0 THEN <<>> ELSE IF s[m] \in S THEN Append(g[m - 1], s[m]) ELSE g[m - 1]
        /\ h[m] = IF m = 0 THEN <<>> ELSE IF r[m] \in S THEN Append(h[m - 1], r[m]) ELSE h[m - 1]
    BY <1>3, KeptTableEquation
  <1>5. m # 0 => g[m - 1] = h[m - 1] /\ s[m] = r[m]
    <2>1. m # 0 => m - 1 \in 0..n /\ m \in 1..n
      BY <1>3
    <2>2. m - 1 \notin T
      BY <1>2, <1>3
    <2>3. QED
      BY <2>1, <2>2 DEF SamePrefix
  <1>6. QED
    BY <1>2, <1>4, <1>5

\* Nothing is kept of an empty sequence.
LEMMA KeptEmpty == ASSUME NEW S PROVE Kept(<<>>, S) = <<>>
  <1>1. IsKeptTable(KeptTable(<<>>, S, 0), <<>>, S, 0)
    BY KeptTableExists
  <1>2. KeptTable(<<>>, S, 0)[0] = <<>>
    BY <1>1, KeptTableEquation
  <1>3. QED
    BY <1>2, KeptIsLast

\* The last element is kept if it belongs to the set.
LEMMA KeptAppend ==
    ASSUME NEW X, NEW s \in Seq(X), NEW e \in X, NEW S
    PROVE  Kept(Append(s, e), S) = IF e \in S THEN Append(Kept(s, S), e) ELSE Kept(s, S)
  <1> DEFINE n == Len(s)
             r == Append(s, e)
             g == KeptTable(r, S, n + 1)
             h == KeptTable(s, S, n)
  <1>1. /\ n \in Nat /\ n + 1 \in Nat /\ Len(r) = n + 1 /\ r[n + 1] = e
        /\ \A k \in 1..n : r[k] = s[k]
    BY AppendProperties, LenProperties
  <1> HIDE DEF r
  <1>2. Kept(r, S) = g[n + 1] /\ Kept(s, S) = h[n]
    BY <1>1, KeptIsLast
  <1> HIDE DEF n
  <1>3. IsKeptTable(g, r, S, n + 1) /\ IsKeptTable(h, s, S, n)
    BY <1>1, KeptTableExists
  <1> HIDE DEF g, h
  <1>4. g[n] = h[n]
    <2> DEFINE m == n + 1
    <2>1. m \in Nat /\ n <= m /\ n <= n /\ IsKeptTable(g, r, S, m) /\ SamePrefix(r, s, n)
      BY <1>1, <1>3 DEF SamePrefix
    <2> HIDE DEF m
    <2>2. QED
      BY <1>1, <1>3, <2>1, KeptTableUnique
  <1>5. g[n + 1] = IF n + 1 = 0 THEN <<>>
                   ELSE IF r[n + 1] \in S THEN Append(g[n + 1 - 1], r[n + 1]) ELSE g[n + 1 - 1]
    BY <1>1, <1>3, KeptTableEquation
  <1>6. n + 1 # 0 /\ n + 1 - 1 = n
    BY <1>1
  <1>7. QED
    BY <1>1, <1>2, <1>4, <1>5, <1>6 DEF r

\* What is kept is a sequence of the same elements.
LEMMA KeptType ==
    ASSUME NEW X, NEW s \in Seq(X), NEW S
    PROVE  Kept(s, S) \in Seq(X)
  <1> DEFINE T == {n \in Nat : \E r \in Seq(X) : Len(r) = n /\ Kept(r, S) \notin Seq(X)}
  <1> SUFFICES ASSUME T # {} PROVE FALSE
    BY LenProperties
  <1>1. PICK n \in T : \A m \in T : n <= m
    BY LeastNatural
  <1>2. PICK r \in Seq(X) : Len(r) = n /\ Kept(r, S) \notin Seq(X)
    BY <1>1
  <1>3. r # <<>>
    BY <1>2, KeptEmpty
  <1>4. PICK q \in Seq(X), e \in X : r = Append(q, e)
    BY <1>3, SequenceEmptyOrAppend
  <1>5. Len(q) \in Nat /\ Len(q) < n
    BY <1>2, <1>4, AppendProperties, LenProperties
  <1>6. Kept(q, S) \in Seq(X)
    BY <1>1, <1>5
  <1>7. Kept(r, S) \in Seq(X)
    <2>1. Append(Kept(q, S), e) \in Seq(X)
      BY <1>6, AppendProperties
    <2>2. Kept(r, S) = IF e \in S THEN Append(Kept(q, S), e) ELSE Kept(q, S)
      BY <1>4, KeptAppend
    <2>3. QED
      BY <1>6, <2>1, <2>2
  <1>8. QED
    BY <1>2, <1>7

\* Keeping twice, the second time in a smaller set.
LEMMA KeptTwice ==
    ASSUME NEW X, NEW s \in Seq(X), NEW S, NEW R, R \subseteq S
    PROVE  Kept(Kept(s, S), R) = Kept(s, R)
  <1> DEFINE Bad(r) == Kept(Kept(r, S), R) # Kept(r, R)
             T == {n \in Nat : \E r \in Seq(X) : Len(r) = n /\ Bad(r)}
  <1> SUFFICES ASSUME T # {} PROVE FALSE
    BY LenProperties
  <1>1. PICK n \in T : \A m \in T : n <= m
    BY LeastNatural
  <1>2. PICK r \in Seq(X) : Len(r) = n /\ Bad(r)
    BY <1>1
  <1>3. r # <<>>
    BY <1>2, KeptEmpty
  <1>4. PICK q \in Seq(X), e \in X : r = Append(q, e)
    BY <1>3, SequenceEmptyOrAppend
  <1>5. Len(q) \in Nat /\ Len(q) < n
    BY <1>2, <1>4, AppendProperties, LenProperties
  <1>6. ~Bad(q)
    <2> HIDE DEF Bad
    <2>1. QED
      BY <1>1, <1>5
  <1>7. Kept(q, S) \in Seq(X)
    BY KeptType
  <1>8. /\ Kept(r, S) = IF e \in S THEN Append(Kept(q, S), e) ELSE Kept(q, S)
        /\ Kept(r, R) = IF e \in R THEN Append(Kept(q, R), e) ELSE Kept(q, R)
    BY <1>4, KeptAppend
  <1>9. Kept(Append(Kept(q, S), e), R)
          = IF e \in R THEN Append(Kept(Kept(q, S), R), e) ELSE Kept(Kept(q, S), R)
    BY <1>7, KeptAppend
  <1>10. Kept(Kept(r, S), R) = Kept(r, R)
    BY <1>6, <1>8, <1>9
  <1>11. QED
    BY <1>2, <1>10

-----------------------------------------------------------------------------
\* g is c times f.
Scales(g, f, c) ==
    /\ IntMap(f) /\ c \in Int
    /\ g \in [DOMAIN f -> Int]
    /\ \A k \in DOMAIN f : g[k] = c * f[k]

\* f is nowhere above g.
Below(f, g) ==
    /\ IntMap(f) /\ IntMap(g)
    /\ DOMAIN g = DOMAIN f
    /\ \A k \in DOMAIN f : f[k] <= g[k]

\* g lists, in the order of s, values of f: each at most once, and all but zeros.
Lists(g, f, s) ==
    /\ IntMap(f) /\ IsFiniteSet(DOMAIN s)
    /\ s \in [DOMAIN s -> DOMAIN f] /\ DOMAIN g = DOMAIN s
    /\ \A i, j \in DOMAIN s : s[i] = s[j] => i = j
    /\ \A i \in DOMAIN s : g[i] = f[s[i]]
    /\ \A k \in DOMAIN f : (\A i \in DOMAIN s : s[i] # k) => f[k] = 0

\* The keys of f are those of g and those of h.
Splits(f, g, h) ==
    /\ IntMap(f)
    /\ DOMAIN f = DOMAIN g \cup DOMAIN h /\ DOMAIN g \cap DOMAIN h = {}
    /\ g \in [DOMAIN g -> Int] /\ h \in [DOMAIN h -> Int]
    /\ \A k \in DOMAIN g : g[k] = f[k]
    /\ \A k \in DOMAIN h : h[k] = f[k]

\* Products of integers are integers and distribute over sums.
LEMMA Distribute ==
    ASSUME NEW c \in Int, NEW a \in Int, NEW b \in Int
    PROVE  c * (a + b) = c * a + c * b /\ c * a \in Int /\ c * b \in Int
  OBVIOUS

\* A common factor can be taken out of a sum.
LEMMA SumScale ==
    ASSUME NEW f, NEW g, NEW c, Scales(g, f, c)
    PROVE  /\ SumFunction(g) = c * SumFunction(f)
           /\ SumFunction(f) \in Int /\ IntMap(g)
  <1> DEFINE S == DOMAIN f
             F(s) == SumFunctionOnSet(f, s)
             G(s) == SumFunctionOnSet(g, s)
             T == {s \in SUBSET S : G(s) # c * F(s)}
  <1>0. /\ IntMap(f) /\ c \in Int /\ IsFiniteSet(S) /\ DOMAIN g = S
        /\ \A k \in S : f[k] \in Int /\ g[k] = c * f[k]
    BY DEF Scales, IntMap
  <1>1. IntMap(g) /\ SumFunction(f) \in Int
    BY <1>0, SumType DEF Scales, IntMap
  <1> SUFFICES ASSUME T # {} PROVE FALSE
    BY <1>0, <1>1 DEF SumFunction
  <1>2. PICK s \in T : \A y \in T : y \subseteq s => y = s
    <2>1. T \in SUBSET (SUBSET S)
      OBVIOUS
    <2> HIDE DEF T
    <2>2. QED
      BY <1>0, <2>1, SmallestSubset
  <1>3. s # {} /\ IsFiniteSet(s)
    <2>1. F({}) = 0 /\ G({}) = 0 /\ c * 0 = 0
      BY <1>0, SumOnEmpty
    <2>2. IsFiniteSet(s)
      BY <1>0, FS_Subset
    <2>3. G(s) # c * F(s)
      BY <1>2
    <2>4. s # {}
      BY <2>1, <2>3
    <2>5. QED
      BY <2>2, <2>4
  <1> DEFINE p == Pick(s)
             z == s \ {p}
  <1>4. p \in s
    BY <1>3, PickIn
  <1>5. F(s) = f[p] + F(z) /\ G(s) = g[p] + G(z)
    BY <1>3, SumOnPick
  <1> HIDE DEF p
  <1>6. F(z) \in Int
    <2>1. IsFiniteSet(z) /\ \A k \in z : f[k] \in Int
      BY <1>0, <1>3, FS_Subset
    <2>2. QED
      BY <2>1, SumOnType
  <1>7. G(z) = c * F(z)
    <2> HIDE DEF F, G
    <2>1. QED
      BY <1>2, <1>4
  <1>8. f[p] \in Int /\ g[p] = c * f[p]
    BY <1>0, <1>4
  <1>9. G(s) # c * F(s)
    BY <1>2
  <1> HIDE DEF F, G, z
  <1>10. c * (f[p] + F(z)) = c * f[p] + c * F(z)
    BY <1>0, <1>6, <1>8, Distribute
  <1>11. QED
    BY <1>5, <1>7, <1>8, <1>9, <1>10

\* A map that is nowhere above another has no larger sum.
LEMMA SumMonotone ==
    ASSUME NEW f, NEW g, Below(f, g)
    PROVE  /\ SumFunction(f) <= SumFunction(g)
           /\ SumFunction(f) \in Int /\ SumFunction(g) \in Int
  <1> DEFINE d == [k \in DOMAIN f |-> g[k] - f[k]]
  <1>1. NatMap(d) /\ IntMap(d)
    BY DEF Below, IntMap, NatMap
  <1>2. AddsUp(g, f, d)
    BY <1>1 DEF AddsUp, Below, IntMap
  <1> HIDE DEF d
  <1>3. /\ SumFunction(g) = SumFunction(f) + SumFunction(d)
        /\ SumFunction(f) \in Int /\ SumFunction(d) \in Nat
    BY <1>1, <1>2, SumPlus, SumNat
  <1>4. QED
    BY <1>3

\* Values listed once each sum to what the map does.
LEMMA SumListed ==
    ASSUME NEW f, NEW g, NEW s, Lists(g, f, s)
    PROVE  SumFunction(g) = SumFunction(f) /\ SumFunction(f) \in Int
  <1> DEFINE D == DOMAIN s
             Part(t) == [k \in DOMAIN f |-> IF \E i \in t : s[i] = k THEN f[k] ELSE 0]
             G(t) == SumFunctionOnSet(g, t)
             P(t) == SumFunction(Part(t))
             T == {t \in SUBSET D : G(t) # P(t)}
  <1>0. /\ IntMap(f) /\ IsFiniteSet(D) /\ IsFiniteSet(DOMAIN f) /\ DOMAIN g = D
        /\ \A k \in DOMAIN f : f[k] \in Int
        /\ \A i \in D : s[i] \in DOMAIN f /\ g[i] = f[s[i]]
        /\ \A i, j \in D : s[i] = s[j] => i = j
    BY DEF Lists, IntMap
  <1>1. Part(D) = f
    <2>1. \A k \in DOMAIN f : Part(D)[k] = f[k]
      BY DEF Lists
    <2>2. Part(D) = [k \in DOMAIN f |-> Part(D)[k]] /\ f = [k \in DOMAIN f |-> f[k]]
      BY <1>0 DEF IntMap
    <2> HIDE DEF Part
    <2>3. QED
      BY <2>1, <2>2
  <1>2. ASSUME NEW t PROVE IntMap(Part(t))
    BY <1>0 DEF IntMap
  <1> SUFFICES ASSUME T # {} PROVE FALSE
    <2>1. T = {} => G(D) = P(D)
      OBVIOUS
    <2> HIDE DEF Part
    <2>2. QED
      BY <1>0, <1>1, <2>1, SumType DEF SumFunction
  <1>3. PICK t \in T : \A y \in T : y \subseteq t => y = t
    <2>1. T \in SUBSET (SUBSET D)
      OBVIOUS
    <2> HIDE DEF T
    <2>2. QED
      BY <1>0, <2>1, SmallestSubset
  <1>4. t \in SUBSET D /\ G(t) # P(t)
    BY <1>3
  <1>5. t # {} /\ IsFiniteSet(t)
    <2>1. G({}) = 0
      BY SumOnEmpty
    <2>2. P({}) = 0
      <3>1. DOMAIN Part({}) = DOMAIN f /\ \A k \in DOMAIN f : Part({})[k] = 0
        OBVIOUS
      <3> HIDE DEF Part
      <3>2. QED
        BY <1>0, <3>1, SumZero
    <2> HIDE DEF G, P
    <2>3. QED
      BY <1>0, <1>4, <2>1, <2>2, FS_Subset
  <1> DEFINE p == Pick(t)
             z == t \ {p}
  <1>6. p \in t /\ p \in D
    BY <1>4, <1>5, PickIn
  <1>7. G(t) = g[p] + G(z)
    BY <1>5, SumOnPick
  <1> HIDE DEF p
  <1>8. G(z) = P(z)
    <2> HIDE DEF G, P
    <2>1. z \in SUBSET D /\ z \notin T
      BY <1>3, <1>4, <1>6
    <2>2. QED
      BY <2>1
  <1>9. /\ Part(z)[s[p]] = 0 /\ Part(t)[s[p]] = g[p]
        /\ \A k \in DOMAIN f \ {s[p]} : Part(t)[k] = Part(z)[k]
    BY <1>0, <1>4, <1>6
  <1>10. ChangesKey(Part(t), Part(z), s[p])
    <2>1. IntMap(Part(t)) /\ IntMap(Part(z)) /\ DOMAIN Part(t) = DOMAIN f /\ DOMAIN Part(z) = DOMAIN f
      BY <1>2
    <2>2. s[p] \in DOMAIN f
      BY <1>0, <1>6
    <2> HIDE DEF Part, z
    <2>3. QED
      BY <1>9, <2>1, <2>2 DEF ChangesKey, IntMap
  <1> HIDE DEF Part, z
  <1>11. /\ P(t) = P(z) - Part(z)[s[p]] + Part(t)[s[p]]
         /\ P(z) \in Int /\ Part(t)[s[p]] \in Int
    BY <1>10, SumChange
  <1> HIDE DEF P, G
  <1>12. QED
    BY <1>4, <1>7, <1>8, <1>9, <1>11

\* A sum over all keys is the sum over some and over the rest.
LEMMA SumSplit ==
    ASSUME NEW f, NEW g, NEW h, Splits(f, g, h)
    PROVE  /\ SumFunction(f) = SumFunction(g) + SumFunction(h)
           /\ SumFunction(g) \in Int /\ SumFunction(h) \in Int
           /\ IntMap(g) /\ IntMap(h)
  <1> DEFINE G == [k \in DOMAIN f |-> IF k \in DOMAIN g THEN g[k] ELSE 0]
             H == [k \in DOMAIN f |-> IF k \in DOMAIN h THEN h[k] ELSE 0]
             a == [k \in DOMAIN g |-> k]
             b == [k \in DOMAIN h |-> k]
  <1>1. IsFiniteSet(DOMAIN f) /\ IsFiniteSet(DOMAIN g) /\ IsFiniteSet(DOMAIN h)
    <2>1. IsFiniteSet(DOMAIN f) /\ DOMAIN g \subseteq DOMAIN f /\ DOMAIN h \subseteq DOMAIN f
      BY DEF Splits, IntMap
    <2>2. QED
      BY <2>1, FS_Subset
  <1>2. IntMap(g) /\ IntMap(h) /\ IntMap(G) /\ IntMap(H)
    BY <1>1 DEF Splits, IntMap
  <1>3. AddsUp(f, G, H)
    BY <1>2 DEF AddsUp, Splits, IntMap
  <1>4. Lists(g, G, a)
    BY <1>1, <1>2 DEF Lists, Splits
  <1>5. Lists(h, H, b)
    BY <1>1, <1>2 DEF Lists, Splits
  <1> HIDE DEF G, H, a, b
  <1>6. SumFunction(g) = SumFunction(G) /\ SumFunction(h) = SumFunction(H)
    BY <1>4, <1>5, SumListed
  <1>7. QED
    BY <1>2, <1>3, <1>6, SumPlus, SumType

-----------------------------------------------------------------------------
\* A quotient rounded down, times its divisor, is at most the dividend.
LEMMA FloorBound ==
    ASSUME NEW x \in Int, NEW d \in Nat \ {0}
    PROVE  x \div d \in Int /\ (x \div d) * d <= x
  OBVIOUS

\* A quotient of naturals is a natural.
LEMMA FloorNat ==
    ASSUME NEW x \in Nat, NEW d \in Nat \ {0}
    PROVE  x \div d \in Nat
  OBVIOUS

\* A product of naturals is a natural.
LEMMA ProductNat ==
    ASSUME NEW x \in Nat, NEW y \in Nat
    PROVE  x * y \in Nat
  OBVIOUS

\* A map that is zero but for one key.
LEMMA SumOnly ==
    ASSUME NEW f, IntMap(f), NEW x \in DOMAIN f, \A k \in DOMAIN f \ {x} : f[k] = 0
    PROVE  SumFunction(f) = f[x] /\ f[x] \in Int
  <1> DEFINE z == [k \in DOMAIN f |-> 0]
  <1>1. SumFunction(z) = 0
    BY SumZero DEF IntMap
  <1>2. ChangesKey(f, z, x) /\ z[x] = 0
    BY DEF ChangesKey, IntMap
  <1> HIDE DEF z
  <1>3. QED
    BY <1>1, <1>2, SumChange

-----------------------------------------------------------------------------
\* A set numbered from 1, as the contracts number their records.
NumberedFrom1(D) == \E n \in Nat : D = 1..n

\* The next number is new, and the numbering goes on with it.
LEMMA NextNumber ==
    ASSUME NEW D, NumberedFrom1(D)
    PROVE  /\ Cardinality(D) + 1 \notin D /\ Cardinality(D) + 1 \in Nat \ {0}
           /\ NumberedFrom1(D \cup {Cardinality(D) + 1})
           /\ IsFiniteSet(D)
  <1>1. PICK n \in Nat : D = 1..n
    BY DEF NumberedFrom1
  <1>2. Cardinality(1..n) = n /\ IsFiniteSet(1..n)
    BY FS_Interval
  <1>3. 1..(n + 1) = (1..n) \cup {n + 1} /\ n + 1 \in Nat
    OBVIOUS
  <1>4. QED
    BY <1>1, <1>2, <1>3 DEF NumberedFrom1

-----------------------------------------------------------------------------
\* e is f with more keys, at which it is zero.
Extends(e, f) ==
    /\ IntMap(f) /\ IsFiniteSet(DOMAIN e) /\ DOMAIN f \subseteq DOMAIN e
    /\ e = [k \in DOMAIN e |-> IF k \in DOMAIN f THEN f[k] ELSE 0]

\* Zeros do not change a sum.
LEMMA SumExtend ==
    ASSUME NEW e, NEW f, Extends(e, f)
    PROVE  SumFunction(e) = SumFunction(f) /\ SumFunction(f) \in Int /\ IntMap(e)
  <1> DEFINE s == [k \in DOMAIN f |-> k]
  <1>1. /\ IsFiniteSet(DOMAIN e) /\ IsFiniteSet(DOMAIN f) /\ DOMAIN f \subseteq DOMAIN e
        /\ \A k \in DOMAIN f : f[k] \in Int
        /\ \A k \in DOMAIN e : e[k] = IF k \in DOMAIN f THEN f[k] ELSE 0
        /\ e = [k \in DOMAIN e |-> e[k]]
    BY DEF Extends, IntMap
  <1>2. IntMap(e)
    BY <1>1 DEF IntMap
  <1>3. Lists(f, e, s)
    BY <1>1, <1>2 DEF Lists
  <1> HIDE DEF s
  <1>4. QED
    BY <1>2, <1>3, SumListed

\* A part of a map of naturals has no larger sum.
LEMMA SumPart ==
    ASSUME NEW f, NatMap(f), NEW g, DOMAIN g \subseteq DOMAIN f, g \in [DOMAIN g -> Int],
           \A k \in DOMAIN g : g[k] = f[k]
    PROVE  SumFunction(g) <= SumFunction(f) /\ SumFunction(g) \in Nat /\ NatMap(g)
  <1> DEFINE h == [k \in DOMAIN f \ DOMAIN g |-> f[k]]
  <1>1. NatMap(g) /\ NatMap(h)
    <2>1. IsFiniteSet(DOMAIN g) /\ IsFiniteSet(DOMAIN f \ DOMAIN g)
      BY FS_Subset DEF NatMap
    <2>2. QED
      BY <2>1 DEF NatMap
  <1>2. Splits(f, g, h)
    BY <1>1, NatMapIsIntMap DEF Splits, NatMap
  <1> HIDE DEF h
  <1>3. SumFunction(f) = SumFunction(g) + SumFunction(h)
    BY <1>2, SumSplit
  <1>4. SumFunction(g) \in Nat /\ SumFunction(h) \in Nat
    BY <1>1, SumNat
  <1>5. QED
    BY <1>1, <1>3, <1>4

\* A sequence has finitely many elements.
LEMMA RangeFinite ==
    ASSUME NEW X, NEW s \in Seq(X)
    PROVE  IsFiniteSet(Range(s)) /\ Range(s) \subseteq X
  <1>1. DOMAIN s = 1..Len(s) /\ Len(s) \in Nat /\ s \in [1..Len(s) -> X]
    BY LenProperties
  <1>2. s \in Surjection(1..Len(s), Range(s))
    BY <1>1 DEF Surjection, Range
  <1>3. IsFiniteSet(1..Len(s))
    BY <1>1, FS_Interval
  <1>4. QED
    BY <1>1, <1>2, <1>3, FS_Surjection DEF Range

\* The elements of a longer sequence.
LEMMA RangeAppend ==
    ASSUME NEW X, NEW s \in Seq(X), NEW e \in X
    PROVE  Range(Append(s, e)) = Range(s) \cup {e}
  <1> DEFINE n == Len(s)
             r == Append(s, e)
  <1>1. /\ n \in Nat /\ DOMAIN s = 1..n /\ DOMAIN r = 1..(n + 1) /\ r[n + 1] = e
        /\ \A k \in 1..n : r[k] = s[k]
    BY AppendProperties, LenProperties
  <1> HIDE DEF n, r
  <1>2. \A k \in 1..(n + 1) : k \in 1..n \/ k = n + 1
    BY <1>1
  <1>3. n + 1 \in 1..(n + 1) /\ 1..n \subseteq 1..(n + 1)
    BY <1>1
  <1>4. Range(r) = Range(s) \cup {e}
    BY <1>1, <1>2, <1>3 DEF Range
  <1>5. QED
    BY <1>4 DEF r

\* What is kept are the elements that belong to the set.
LEMMA KeptRange ==
    ASSUME NEW X, NEW s \in Seq(X), NEW S
    PROVE  Range(Kept(s, S)) = Range(s) \cap S
  <1> DEFINE Bad(r) == Range(Kept(r, S)) # Range(r) \cap S
             T == {n \in Nat : \E r \in Seq(X) : Len(r) = n /\ Bad(r)}
  <1> SUFFICES ASSUME T # {} PROVE FALSE
    BY LenProperties
  <1>1. PICK n \in T : \A m \in T : n <= m
    BY LeastNatural
  <1>2. PICK r \in Seq(X) : Len(r) = n /\ Bad(r)
    BY <1>1
  <1>3. r # <<>>
    <2>1. Range(<<>>) = {}
      BY DEF Range
    <2>2. QED
      BY <1>2, <2>1, KeptEmpty
  <1>4. PICK q \in Seq(X), e \in X : r = Append(q, e)
    BY <1>3, SequenceEmptyOrAppend
  <1>5. Len(q) \in Nat /\ Len(q) < n
    BY <1>2, <1>4, AppendProperties, LenProperties
  <1>6. ~Bad(q)
    <2> HIDE DEF Bad
    <2>1. QED
      BY <1>1, <1>5
  <1>7. Kept(r, S) = IF e \in S THEN Append(Kept(q, S), e) ELSE Kept(q, S)
    BY <1>4, KeptAppend
  <1>8. Range(r) = Range(q) \cup {e} /\ Range(Append(Kept(q, S), e)) = Range(Kept(q, S)) \cup {e}
    BY <1>4, RangeAppend, KeptType
  <1>9. ~Bad(r)
    BY <1>6, <1>7, <1>8
  <1>10. QED
    BY <1>2, <1>9

\* A common positive factor cancels.
LEMMA CancelFactor ==
    ASSUME NEW a \in Int, NEW b \in Int, NEW c \in Nat \ {0}, a * c <= b * c
    PROVE  a <= b
  OBVIOUS

\* A new element keeps the elements of a sequence distinct.
LEMMA InjectiveAppend ==
    ASSUME NEW X, NEW s \in Seq(X), NEW e \in X, IsInjective(s), e \notin Range(s)
    PROVE  IsInjective(Append(s, e))
  <1> DEFINE n == Len(s)
             r == Append(s, e)
  <1>1. /\ n \in Nat /\ DOMAIN s = 1..n /\ DOMAIN r = 1..(n + 1) /\ r[n + 1] = e
        /\ \A k \in 1..n : r[k] = s[k]
    BY AppendProperties, LenProperties
  <1> HIDE DEF n, r
  <1>2. \A k \in 1..(n + 1) : k \in 1..n \/ k = n + 1
    BY <1>1
  <1>3. \A k \in 1..n : s[k] # e
    BY <1>1 DEF Range
  <1>4. \A j, k \in 1..n : s[j] = s[k] => j = k
    BY <1>1 DEF IsInjective
  <1>5. IsInjective(r)
    BY <1>1, <1>2, <1>3, <1>4 DEF IsInjective
  <1>6. QED
    BY <1>5 DEF r
=============================================================================
