------------------------- MODULE CaseEvaluationProofs -------------------------
(***************************************************************************)
(* What the runners say of each case: that a fault is called by its name,  *)
(* that a verdict and its metrics tell one story, and that what the review *)
(* passes is passed.  First what the operators are that search a catalog   *)
(* and judge a case, for every catalog, query and case; then that each     *)
(* result that a command holds is what they make of a case of its dataset. *)
(***************************************************************************)
EXTENDS WorkstationProofs, WellFoundedInduction, SequenceTheorems

\* Induction over the natural numbers, for a set.
LEMMA SetInduction ==
    ASSUME NEW S, 0 \in S, \A n \in Nat : n \in S => n + 1 \in S
    PROVE  Nat \subseteq S
  <1> SUFFICES ASSUME Nat \ S # {}
               PROVE  FALSE
    OBVIOUS
  <1>1. \A x, y \in Nat : <<x, y>> \in OpToRel(<, Nat) <=> x < y
    BY DEF OpToRel
  <1>2. PICK n \in Nat \ S : \A m \in Nat \ S : ~(<<m, n>> \in OpToRel(<, Nat))
    <2>1. Nat \ S \subseteq Nat
      OBVIOUS
    <2> QED
      BY <2>1, NatLessThanWellFounded, WFMin
  <1>3. \A m \in Nat \ S : ~(m < n)
    BY <1>1, <1>2
  <1>4. n # 0
    BY <1>2
  <1>5. n - 1 \in Nat /\ n - 1 < n /\ n = (n - 1) + 1
    BY <1>4
  <1>6. n - 1 \in S
    BY <1>3, <1>5
  <1> QED
    BY <1>5, <1>6

-----------------------------------------------------------------------------
(* Sums *)

\* The element that a fold takes next, and the function that a fold of sums is.
Pick(s) == CHOOSE x \in s : TRUE
Sums(w, S, g) == g = [s \in SUBSET S |-> IF s = {} THEN 0 ELSE w[Pick(s)] + g[s \ {Pick(s)}]]

\* A sum is that function at its set.
LEMMA SumMeaning ==
    ASSUME NEW w, NEW S
    PROVE  SumFunctionOnSet(w, S) = (CHOOSE g : Sums(w, S, g))[S]
  BY DEF SumFunctionOnSet, FoldFunctionOnSet, MapThenFoldSet, Sums, Pick

\* The recursion has a solution.
LEMMA SumsExist ==
    ASSUME NEW w, NEW S, IsFiniteSet(S)
    PROVE  \E g : Sums(w, S, g)
  <1> DEFINE Small(n) == {s \in SUBSET S : Cardinality(s) <= n}
             Solves(g, D) == g = [s \in D |-> IF s = {} THEN 0 ELSE w[Pick(s)] + g[s \ {Pick(s)}]]
             Solved == {n \in Nat : \E g : Solves(g, Small(n))}
  <1>1. \A s \in SUBSET S : IsFiniteSet(s) /\ Cardinality(s) \in Nat /\ (Cardinality(s) = 0 <=> s = {})
    BY FS_Subset, FS_CardinalityType, FS_EmptySet
  <1>2. 0 \in Solved
    <2> DEFINE g == [s \in Small(0) |-> 0]
    <2>1. \A s \in Small(0) : s = {}
      BY <1>1
    <2>2. Solves(g, Small(0))
      BY <2>1
    <2> QED
      BY <2>2
  <1>3. ASSUME NEW n \in Nat, n \in Solved
        PROVE  n + 1 \in Solved
    <2>1. PICK g : Solves(g, Small(n))
      BY <1>3
    <2> DEFINE h == [s \in Small(n + 1) |-> IF s = {} THEN 0 ELSE w[Pick(s)] + g[s \ {Pick(s)}]]
    <2>2. ASSUME NEW s \in Small(n)
          PROVE  h[s] = g[s]
      <3>1. s \in Small(n + 1)
        BY <1>1
      <3>2. g[s] = IF s = {} THEN 0 ELSE w[Pick(s)] + g[s \ {Pick(s)}]
        BY <2>1
      <3> QED
        BY <3>1, <3>2
    <2>3. ASSUME NEW s \in Small(n + 1), s # {}
          PROVE  s \ {Pick(s)} \in Small(n)
      <3>1. Pick(s) \in s
        BY <2>3 DEF Pick
      <3>2. Cardinality(s \ {Pick(s)}) = Cardinality(s) - 1
        BY <1>1, <3>1, FS_RemoveElement
      <3> QED
        BY <1>1, <3>2
    <2>4. Solves(h, Small(n + 1))
      <3>1. \A s \in Small(n + 1) :
               h[s] = IF s = {} THEN 0 ELSE w[Pick(s)] + h[s \ {Pick(s)}]
        BY <2>2, <2>3
      <3> QED
        BY <3>1
    <2>5. \E f : Solves(f, Small(n + 1))
      <3> HIDE DEF Solves, Small, h
      <3> QED
        BY <2>4
    <2> HIDE DEF Solves, Small
    <2> QED
      BY <2>5
  <1>4. Cardinality(S) \in Solved
    <2> HIDE DEF Solved
    <2> QED
      BY <1>1, <1>2, <1>3, SetInduction
  <1>5. SUBSET S = Small(Cardinality(S))
    BY FS_Subset
  <1> QED
    BY <1>4, <1>5 DEF Sums

\* and one only.
LEMMA SumsUnique ==
    ASSUME NEW w, NEW S, IsFiniteSet(S), NEW T \in SUBSET S, NEW g, NEW h,
           Sums(w, S, g), Sums(w, T, h)
    PROVE  \A s \in SUBSET T : g[s] = h[s]
  <1> DEFINE Equal == {n \in Nat : \A s \in SUBSET T : Cardinality(s) = n => g[s] = h[s]}
  <1>1. \A s \in SUBSET T : IsFiniteSet(s) /\ Cardinality(s) \in Nat /\ (Cardinality(s) = 0 <=> s = {})
    BY FS_Subset, FS_CardinalityType, FS_EmptySet
  <1>2. \A s \in SUBSET T : /\ g[s] = IF s = {} THEN 0 ELSE w[Pick(s)] + g[s \ {Pick(s)}]
                            /\ h[s] = IF s = {} THEN 0 ELSE w[Pick(s)] + h[s \ {Pick(s)}]
    BY DEF Sums
  <1>3. 0 \in Equal
    BY <1>1, <1>2
  <1>4. ASSUME NEW n \in Nat, n \in Equal
        PROVE  n + 1 \in Equal
    <2>1. ASSUME NEW s \in SUBSET T, Cardinality(s) = n + 1
          PROVE  g[s] = h[s]
      <3>1. s # {}
        BY <1>1, <2>1
      <3>2. Pick(s) \in s
        BY <3>1 DEF Pick
      <3>3. Cardinality(s \ {Pick(s)}) = n
        <4>1. Cardinality(s \ {Pick(s)}) = Cardinality(s) - 1
          BY <1>1, <3>2, FS_RemoveElement
        <4> QED
          BY <2>1, <4>1
      <3>4. g[s \ {Pick(s)}] = h[s \ {Pick(s)}]
        BY <1>4, <3>3
      <3> QED
        BY <1>2, <3>1, <3>4
    <2> QED
      BY <2>1
  <1>5. Nat \subseteq Equal
    <2> HIDE DEF Equal
    <2> QED
      BY <1>3, <1>4, SetInduction
  <1> QED
    BY <1>1, <1>5

\* The sums over the subsets of S are of one recursion.
LEMMA SumsRecur ==
    ASSUME NEW w, NEW S, IsFiniteSet(S)
    PROVE  \A s \in SUBSET S :
              SumFunctionOnSet(w, s) =
                  IF s = {} THEN 0 ELSE w[Pick(s)] + SumFunctionOnSet(w, s \ {Pick(s)})
  <1> DEFINE g == CHOOSE g : Sums(w, S, g)
  <1>1. Sums(w, S, g)
    BY SumsExist
  <1>2. ASSUME NEW s \in SUBSET S
        PROVE  SumFunctionOnSet(w, s) = g[s]
    <2>1. IsFiniteSet(s)
      BY FS_Subset
    <2>2. Sums(w, s, CHOOSE h : Sums(w, s, h))
      BY <2>1, SumsExist
    <2>3. g[s] = (CHOOSE h : Sums(w, s, h))[s]
      BY <1>1, <2>2, SumsUnique
    <2> QED
      BY <2>3, SumMeaning
  <1>3. \A s \in SUBSET S : g[s] = IF s = {} THEN 0 ELSE w[Pick(s)] + g[s \ {Pick(s)}]
    BY <1>1 DEF Sums
  <1>4. \A s \in SUBSET S : s \ {Pick(s)} \in SUBSET S
    OBVIOUS
  <1> QED
    BY <1>2, <1>3, <1>4

\* The sum of nothing.
LEMMA SumOfNone == \A w : SumFunctionOnSet(w, {}) = 0
  BY FS_EmptySet, SumsRecur

\* Sums of natural numbers.
LEMMA SumIsNat ==
    ASSUME NEW w, NEW S, IsFiniteSet(S), \A x \in S : w[x] \in Nat
    PROVE  \A s \in SUBSET S : SumFunctionOnSet(w, s) \in Nat
  <1> DEFINE Natural == {n \in Nat : \A s \in SUBSET S :
                           Cardinality(s) = n => SumFunctionOnSet(w, s) \in Nat}
  <1>1. \A s \in SUBSET S : IsFiniteSet(s) /\ Cardinality(s) \in Nat /\ (Cardinality(s) = 0 <=> s = {})
    BY FS_Subset, FS_CardinalityType, FS_EmptySet
  <1>2. 0 \in Natural
    BY <1>1, SumOfNone
  <1>3. ASSUME NEW n \in Nat, n \in Natural
        PROVE  n + 1 \in Natural
    <2>1. ASSUME NEW s \in SUBSET S, Cardinality(s) = n + 1
          PROVE  SumFunctionOnSet(w, s) \in Nat
      <3>1. s # {}
        BY <1>1, <2>1
      <3>2. Pick(s) \in s
        BY <3>1 DEF Pick
      <3>3. Cardinality(s \ {Pick(s)}) = n
        <4>1. Cardinality(s \ {Pick(s)}) = Cardinality(s) - 1
          BY <1>1, <3>2, FS_RemoveElement
        <4> QED
          BY <2>1, <4>1
      <3>4. SumFunctionOnSet(w, s \ {Pick(s)}) \in Nat
        BY <1>3, <3>3
      <3> QED
        BY <3>1, <3>2, <3>4, SumsRecur
    <2> QED
      BY <2>1
  <1>4. Nat \subseteq Natural
    <2> HIDE DEF Natural
    <2> QED
      BY <1>2, <1>3, SetInduction
  <1> QED
    BY <1>1, <1>4

\* It does not matter which element comes first.
LEMMA SumRemove ==
    ASSUME NEW w, NEW S, IsFiniteSet(S), \A x \in S : w[x] \in Nat
    PROVE  \A x \in S : SumFunctionOnSet(w, S) = w[x] + SumFunctionOnSet(w, S \ {x})
  <1> DEFINE Sum(s) == SumFunctionOnSet(w, s)
             Free == {n \in Nat : \A s \in SUBSET S : Cardinality(s) = n =>
                           \A x \in s : Sum(s) = w[x] + Sum(s \ {x})}
  <1>1. \A s \in SUBSET S : IsFiniteSet(s) /\ Cardinality(s) \in Nat /\ (Cardinality(s) = 0 <=> s = {})
    BY FS_Subset, FS_CardinalityType, FS_EmptySet
  <1>2. \A s \in SUBSET S : Sum(s) \in Nat
    BY SumIsNat
  <1>3. \A s \in SUBSET S : Sum(s) = IF s = {} THEN 0 ELSE w[Pick(s)] + Sum(s \ {Pick(s)})
    BY SumsRecur
  <1> HIDE DEF Sum
  <1>4. 0 \in Free
    BY <1>1
  <1>5. ASSUME NEW n \in Nat, n \in Free
        PROVE  n + 1 \in Free
    <2>1. ASSUME NEW s \in SUBSET S, Cardinality(s) = n + 1, NEW x \in s
          PROVE  Sum(s) = w[x] + Sum(s \ {x})
      <3> DEFINE c == Pick(s)
      <3>1. c \in s
        BY DEF Pick
      <3>2. Sum(s) = w[c] + Sum(s \ {c})
        BY <1>3, <3>1
      <3> HIDE DEF c
      <3>3. \A y \in s : Cardinality(s \ {y}) = n
        <4>1. \A y \in s : Cardinality(s \ {y}) = Cardinality(s) - 1
          BY <1>1, FS_RemoveElement
        <4> QED
          BY <2>1, <4>1
      <3>4. CASE x # c
        <4>1. Sum(s \ {c}) = w[x] + Sum((s \ {c}) \ {x})
          BY <1>5, <3>1, <3>3, <3>4
        <4>2. Sum(s \ {x}) = w[c] + Sum((s \ {x}) \ {c})
          BY <1>5, <3>1, <3>3, <3>4
        <4>3. (s \ {c}) \ {x} = (s \ {x}) \ {c}
          OBVIOUS
        <4>4. w[x] \in Nat /\ w[c] \in Nat /\ Sum((s \ {x}) \ {c}) \in Nat
          BY <1>2, <3>1
        <4> QED
          BY <3>2, <4>1, <4>2, <4>3, <4>4
      <3> QED
        BY <3>2, <3>4
    <2> QED
      BY <2>1
  <1>6. Nat \subseteq Free
    <2> HIDE DEF Free
    <2> QED
      BY <1>4, <1>5, SetInduction
  <1> QED
    BY <1>1, <1>6 DEF Sum

\* A sum of natural numbers is 0 when all of them are.
LEMMA SumIsZero ==
    ASSUME NEW w, NEW S, IsFiniteSet(S), \A x \in S : w[x] \in Nat
    PROVE  SumFunctionOnSet(w, S) = 0 <=> \A x \in S : w[x] = 0
  <1> DEFINE Sum(s) == SumFunctionOnSet(w, s)
             Zero == {n \in Nat : \A s \in SUBSET S :
                         Cardinality(s) = n /\ (\A x \in s : w[x] = 0) => Sum(s) = 0}
  <1>1. \A s \in SUBSET S : IsFiniteSet(s) /\ Cardinality(s) \in Nat /\ (Cardinality(s) = 0 <=> s = {})
    BY FS_Subset, FS_CardinalityType, FS_EmptySet
  <1>2. \A s \in SUBSET S : Sum(s) \in Nat
    BY SumIsNat
  <1>3. \A s \in SUBSET S : \A x \in s : Sum(s) = w[x] + Sum(s \ {x})
    <2>1. ASSUME NEW s \in SUBSET S
          PROVE  \A x \in s : Sum(s) = w[x] + Sum(s \ {x})
      <3>1. IsFiniteSet(s) /\ \A x \in s : w[x] \in Nat
        BY <1>1
      <3> QED
        BY <3>1, SumRemove
    <2> QED
      BY <2>1
  <1>4. Sum({}) = 0
    BY SumOfNone
  <1> HIDE DEF Sum
  <1>5. ASSUME NEW x \in S, w[x] # 0
        PROVE  Sum(S) # 0
    <2>1. Sum(S) = w[x] + Sum(S \ {x})
      BY <1>3
    <2>2. w[x] \in Nat /\ Sum(S \ {x}) \in Nat
      BY <1>2
    <2> QED
      BY <1>5, <2>1, <2>2
  <1>6. 0 \in Zero
    BY <1>1, <1>4
  <1>7. ASSUME NEW n \in Nat, n \in Zero
        PROVE  n + 1 \in Zero
    <2>1. ASSUME NEW s \in SUBSET S, Cardinality(s) = n + 1, \A x \in s : w[x] = 0
          PROVE  Sum(s) = 0
      <3>1. PICK x \in s : TRUE
        BY <1>1, <2>1
      <3>2. Cardinality(s \ {x}) = n
        <4>1. Cardinality(s \ {x}) = Cardinality(s) - 1
          BY <1>1, <3>1, FS_RemoveElement
        <4> QED
          BY <2>1, <4>1
      <3>3. Sum(s \ {x}) = 0
        BY <1>7, <2>1, <3>2
      <3> QED
        BY <1>3, <2>1, <3>3
    <2> QED
      BY <2>1
  <1>8. Nat \subseteq Zero
    <2> HIDE DEF Zero
    <2> QED
      BY <1>6, <1>7, SetInduction
  <1>9. (\A x \in S : w[x] = 0) => Sum(S) = 0
    BY <1>1, <1>8
  <1> QED
    BY <1>5, <1>9 DEF Sum

-----------------------------------------------------------------------------
(* Orders *)

\* before says of each element of S which come before it.
Orders(before, S) ==
    /\ IsFiniteSet(S)
    /\ before \in [S -> SUBSET S]
    /\ \A x \in S : x \notin before[x] /\ \A y \in before[x] : before[y] \subseteq before[x]
    /\ \A x, y \in S : x = y \/ x \in before[y] \/ y \in before[x]

\* How many come before an element tells it from the others.
LEMMA Ranks ==
    ASSUME NEW before, NEW S, Orders(before, S)
    PROVE  /\ Cardinality(S) \in Nat
           /\ \A x \in S : Cardinality(before[x]) \in 0 .. Cardinality(S) - 1
           /\ \A x, y \in S : y \in before[x] <=> Cardinality(before[y]) < Cardinality(before[x])
           /\ \A x, y \in S : Cardinality(before[x]) = Cardinality(before[y]) => x = y
  <1> USE DEF Orders
  <1>1. \A s \in SUBSET S : IsFiniteSet(s) /\ Cardinality(s) \in Nat
    BY FS_Subset, FS_CardinalityType
  <1>2. ASSUME NEW x \in S, NEW y \in before[x]
        PROVE  Cardinality(before[y]) < Cardinality(before[x])
    <2>1. before[y] \subseteq before[x] /\ y \notin before[y] /\ y \in S
      BY <1>2
    <2>2. Cardinality(before[y]) <= Cardinality(before[x])
      BY <1>1, <2>1, FS_Subset
    <2>3. Cardinality(before[y]) # Cardinality(before[x])
      <3>1. before[y] # before[x]
        BY <1>2, <2>1
      <3> QED
        BY <1>1, <2>1, <3>1, FS_Subset
    <2> QED
      BY <1>1, <2>1, <2>2, <2>3
  <1>3. ASSUME NEW x \in S
        PROVE  Cardinality(before[x]) \in 0 .. Cardinality(S) - 1
    <2>1. Cardinality(before[x]) <= Cardinality(S) /\ Cardinality(before[x]) # Cardinality(S)
      BY FS_Subset
    <2> QED
      BY <1>1, <2>1
  <1>4. \A x, y \in S : y \in before[x] <=> Cardinality(before[y]) < Cardinality(before[x])
    BY <1>1, <1>2
  <1> QED
    BY <1>1, <1>2, <1>3, <1>4

\* What is ordered has each element once, at the place after all that come before it.
LEMMA OrderedIs ==
    ASSUME NEW before, NEW S, Orders(before, S)
    PROVE  /\ Cardinality(S) \in Nat
           /\ Ordered(before) \in [1 .. Cardinality(S) -> S]
           /\ \A i \in 1 .. Cardinality(S) : Cardinality(before[Ordered(before)[i]]) = i - 1
           /\ \A x \in S : /\ Cardinality(before[x]) + 1 \in 1 .. Cardinality(S)
                           /\ Ordered(before)[Cardinality(before[x]) + 1] = x
           /\ \A i, j \in 1 .. Cardinality(S) :
                 /\ i < j <=> Ordered(before)[i] \in before[Ordered(before)[j]]
                 /\ Ordered(before)[i] = Ordered(before)[j] => i = j
  <1> DEFINE n == Cardinality(S)
             rank == [x \in S |-> Cardinality(before[x]) + 1]
             o == Ordered(before)
  <1>1. n \in Nat /\ rank \in [S -> 1 .. n] /\ \A x, y \in S : rank[x] = rank[y] => x = y
    BY Ranks
  <1>2. rank \in Surjection(S, 1 .. n)
    <2>1. rank \in Injection(S, 1 .. n)
      BY <1>1 DEF Injection, IsInjective
    <2>2. IsFiniteSet(1 .. n) /\ Cardinality(1 .. n) = n
      BY <1>1, FS_Interval
    <2> QED
      BY <2>1, <2>2, FS_Injection
  <1>3. DOMAIN before = S
    BY DEF Orders
  <1>4. ASSUME NEW i \in 1 .. n
        PROVE  o[i] \in S /\ Cardinality(before[o[i]]) = i - 1
    <2>1. \E x \in S : rank[x] = i
      BY <1>2 DEF Surjection
    <2>2. PICK x \in S : Cardinality(before[x]) + 1 = i
      BY <2>1
    <2>3. Cardinality(before[x]) = i - 1
      BY <2>2, Ranks
    <2>4. o[i] = CHOOSE y \in S : Cardinality(before[y]) = i - 1
      BY <1>3 DEF Ordered
    <2> QED
      BY <2>3, <2>4
  <1>5. ASSUME NEW x \in S
        PROVE  Cardinality(before[x]) + 1 \in 1 .. n /\ o[Cardinality(before[x]) + 1] = x
    <2>1. Cardinality(before[x]) + 1 \in 1 .. n
      BY Ranks
    <2>2. Cardinality(before[o[Cardinality(before[x]) + 1]]) = Cardinality(before[x])
      BY <1>4, <2>1, Ranks
    <2> QED
      BY <1>4, <2>1, <2>2, Ranks
  <1>6. o \in [1 .. n -> S]
    BY <1>3, <1>4 DEF Ordered
  <1>7. \A i, j \in 1 .. n : (i < j <=> o[i] \in before[o[j]]) /\ (o[i] = o[j] => i = j)
    BY <1>1, <1>4, Ranks
  <1> QED
    BY <1>1, <1>4, <1>5, <1>6, <1>7

\* The places of a sequence that are kept, in their order.
LEMMA PlacesOrdered ==
    ASSUME NEW n \in Nat, NEW places \in SUBSET (1 .. n)
    PROVE  /\ Cardinality(places) \in 0 .. n
           /\ \E order \in [1 .. Cardinality(places) -> places] :
                 /\ \A i \in places : \E m \in 1 .. Cardinality(places) : order[m] = i
                 /\ \A m, k \in 1 .. Cardinality(places) : m < k <=> order[m] < order[k]
                 /\ \A s : Kept(s, places) = [m \in 1 .. Cardinality(places) |-> s[order[m]]]
  <1> DEFINE before == [i \in places |-> {j \in places : j < i}]
  <1>1. IsFiniteSet(1 .. n) /\ Cardinality(1 .. n) = n
    BY FS_Interval
  <1>2. IsFiniteSet(places) /\ Cardinality(places) \in 0 .. n
    <2>1. IsFiniteSet(places) /\ Cardinality(places) <= n
      BY <1>1, FS_Subset
    <2>2. Cardinality(places) \in Nat
      BY <2>1, FS_CardinalityType
    <2> QED
      BY <2>1, <2>2
  <1>3. Orders(before, places)
    <2>1. \A i \in places : before[i] = {j \in places : j < i} /\ i \in Nat
      OBVIOUS
    <2>2. \A i \in places : i \notin before[i] /\ \A j \in before[i] : before[j] \subseteq before[i]
      <3> HIDE DEF before
      <3>1. \A i, j, k \in places : j < i /\ k < j => k < i
        OBVIOUS
      <3>2. ASSUME NEW i \in places
            PROVE  i \notin before[i] /\ \A j \in before[i] : before[j] \subseteq before[i]
        <4>1. \A j : j \in before[i] <=> j \in places /\ j < i
          BY <2>1
        <4>2. \A j \in places : \A k : k \in before[j] <=> k \in places /\ k < j
          BY <2>1
        <4>3. i \notin before[i]
          <5>1. i \in Nat /\ ~(i < i)
            OBVIOUS
          <5> QED
            BY <4>1, <5>1
        <4>4. ASSUME NEW j \in before[i]
              PROVE  before[j] \subseteq before[i]
          <5>1. j \in places /\ j < i
            BY <4>1
          <5>2. \A k : k \in before[j] => k \in before[i]
            BY <3>1, <4>1, <4>2, <5>1
          <5> QED
            BY <5>2
        <4> QED
          BY <4>3, <4>4
      <3> QED
        BY <3>2
    <2>3. \A i, j \in places : i = j \/ i \in before[j] \/ j \in before[i]
      BY <2>1
    <2>4. before \in [places -> SUBSET places]
      OBVIOUS
    <2> HIDE DEF before
    <2> QED
      BY <1>2, <2>2, <2>3, <2>4 DEF Orders
  <1>4. /\ Ordered(before) \in [1 .. Cardinality(places) -> places]
        /\ \A i \in places : \E m \in 1 .. Cardinality(places) : Ordered(before)[m] = i
        /\ \A m, k \in 1 .. Cardinality(places) :
              m < k <=> Ordered(before)[m] \in before[Ordered(before)[k]]
    <2> HIDE DEF before
    <2> QED
      BY <1>3, OrderedIs
  <1>5. \A m, k \in 1 .. Cardinality(places) : m < k <=> Ordered(before)[m] < Ordered(before)[k]
    BY <1>4
  <1>6. \A s : Kept(s, places) = [m \in 1 .. Cardinality(places) |-> s[Ordered(before)[m]]]
    BY <1>4 DEF Kept
  <1> QED
    BY <1>2, <1>4, <1>5, <1>6

\* What is kept of a sequence.
LEMMA KeptIs ==
    ASSUME NEW A, NEW s \in Seq(A), NEW places \in SUBSET DOMAIN s
    PROVE  /\ Kept(s, places) \in Seq(A)
           /\ Len(Kept(s, places)) <= Len(s)
           /\ \A m \in DOMAIN Kept(s, places) : \E i \in places : Kept(s, places)[m] = s[i]
           /\ \A i \in places : \E m \in DOMAIN Kept(s, places) : Kept(s, places)[m] = s[i]
           /\ (\A i, j \in DOMAIN s : s[i] = s[j] => i = j) =>
                 \A m, k \in DOMAIN Kept(s, places) : Kept(s, places)[m] = Kept(s, places)[k] => m = k
           /\ (Kept(s, places) = <<>> <=> places = {})
  <1>1. Len(s) \in Nat /\ DOMAIN s = 1 .. Len(s)
    OBVIOUS
  <1>2. PICK order \in [1 .. Cardinality(places) -> places] :
           /\ \A i \in places : \E m \in 1 .. Cardinality(places) : order[m] = i
           /\ \A m, k \in 1 .. Cardinality(places) : m < k <=> order[m] < order[k]
           /\ Kept(s, places) = [m \in 1 .. Cardinality(places) |-> s[order[m]]]
    <2>1. places \in SUBSET (1 .. Len(s))
      BY <1>1
    <2>2. \E order \in [1 .. Cardinality(places) -> places] :
             /\ \A i \in places : \E m \in 1 .. Cardinality(places) : order[m] = i
             /\ \A m, k \in 1 .. Cardinality(places) : m < k <=> order[m] < order[k]
             /\ \A q : Kept(q, places) = [m \in 1 .. Cardinality(places) |-> q[order[m]]]
      BY <1>1, <2>1, PlacesOrdered
    <2> QED
      BY <2>2
  <1>3. Cardinality(places) \in 0 .. Len(s)
    BY <1>1, PlacesOrdered
  <1>4. PICK t : t = Kept(s, places)
    OBVIOUS
  <1>5. t \in Seq(A) /\ DOMAIN t = 1 .. Cardinality(places) /\ Len(t) = Cardinality(places)
    <2> DEFINE n == Cardinality(places)
    <2>1. n \in Nat /\ t = [m \in 1 .. n |-> s[order[m]]]
      BY <1>1, <1>2, <1>3, <1>4
    <2>2. \A m \in 1 .. n : s[order[m]] \in A
      BY <1>1, <1>2
    <2> HIDE DEF n
    <2>3. t \in [1 .. n -> A]
      BY <2>1, <2>2
    <2>4. t \in Seq(A) /\ Len(t) = n
      BY <2>1, <2>3
    <2> QED
      BY <2>1, <2>4 DEF n
  <1>6. \A m \in DOMAIN t : order[m] \in places /\ t[m] = s[order[m]]
    BY <1>2, <1>4, <1>5
  <1>7. \A i \in places : \E m \in DOMAIN t : t[m] = s[i]
    BY <1>2, <1>5, <1>6
  <1>8. ASSUME \A i, j \in DOMAIN s : s[i] = s[j] => i = j, NEW m \in DOMAIN t, NEW k \in DOMAIN t, t[m] = t[k]
        PROVE  m = k
    <2>1. order[m] = order[k]
      BY <1>6, <1>8
    <2>2. m \in 1 .. Cardinality(places) /\ k \in 1 .. Cardinality(places) /\ order[m] \in Nat /\ order[k] \in Nat
      BY <1>1, <1>5, <1>6
    <2> QED
      BY <1>2, <1>3, <2>1, <2>2
  <1>9. t = <<>> <=> places = {}
    BY <1>5, <1>6, <1>7
  <1> QED
    BY <1>3, <1>4, <1>5, <1>6, <1>7, <1>8, <1>9

\* The least of some natural numbers.
LEMMA LeastOf ==
    ASSUME NEW S \in SUBSET Nat, S # {}
    PROVE  Min(S) \in S /\ \A i \in S : Min(S) <= i
  <1>1. \A x, y \in Nat : <<x, y>> \in OpToRel(<, Nat) <=> x < y
    BY DEF OpToRel
  <1>2. PICK n \in S : \A m \in S : ~(<<m, n>> \in OpToRel(<, Nat))
    BY NatLessThanWellFounded, WFMin
  <1>3. n \in S /\ n \in Nat /\ S \subseteq Nat
    BY <1>2
  <1>4. \A m \in S : ~(m < n)
    BY <1>1, <1>2, <1>3
  <1>5. \A m \in S : n <= m
    BY <1>3, <1>4
  <1> QED
    BY <1>3, <1>5 DEF Min

\* The first elements of a sequence.
LEMMA CutIs ==
    ASSUME NEW A, NEW s \in Seq(A), NEW k \in Nat
    PROVE  /\ Cut(s, k) \in Seq(A)
           /\ Len(Cut(s, k)) = IF k <= Len(s) THEN k ELSE Len(s)
           /\ \A i \in DOMAIN Cut(s, k) : i \in DOMAIN s /\ Cut(s, k)[i] = s[i]
           /\ Len(s) <= k => Cut(s, k) = s
  <1>1. PICK m : m = Len(s)
    OBVIOUS
  <1>2. m \in Nat /\ DOMAIN s = 1 .. m
    BY <1>1
  <1>3. PICK n \in Nat : (k <= m => n = k) /\ (~(k <= m) => n = m) /\ n <= m
    BY <1>2
  <1>4. Min({k, m}) = n
    <2>1. Min({k, m}) \in {k, m} /\ \A i \in {k, m} : Min({k, m}) <= i
      BY <1>2, LeastOf
    <2> QED
      BY <1>2, <1>3, <2>1
  <1>5. PICK t : t = SubSeq(s, 1, n)
    OBVIOUS
  <1>6. Cut(s, k) = t
    BY <1>1, <1>4, <1>5 DEF Cut
  <1>7. t \in Seq(A) /\ Len(t) = n /\ \A i \in 1 .. n : t[i] = s[i]
    <2>1. \A i \in 1 .. n : s[i] \in A
      BY <1>2, <1>3
    <2>2. /\ SubSeq(s, 1, n) \in Seq(A)
          /\ Len(SubSeq(s, 1, n)) = IF 1 <= n THEN n - 1 + 1 ELSE 0
          /\ \A i \in 1 .. n - 1 + 1 : SubSeq(s, 1, n)[i] = s[1 + i - 1]
      BY <2>1, SubSeqProperties
    <2> QED
      BY <1>3, <1>5, <2>2
  <1>8. n = m => t = s
    BY <1>1, <1>2, <1>7
  <1>9. \A i \in DOMAIN t : i \in DOMAIN s /\ t[i] = s[i]
    BY <1>2, <1>3, <1>7
  <1>10. Len(t) = IF k <= m THEN k ELSE m
    BY <1>3, <1>7
  <1>11. m <= k => t = s
    BY <1>2, <1>3, <1>8
  <1> QED
    BY <1>1, <1>6, <1>7, <1>9, <1>10, <1>11

-----------------------------------------------------------------------------
(* The classifier *)

\* The symptoms of a case, but its latency.
Misread(case, a) ==
    Below1(query_understanding_field_accuracy(ExpectedIntent(case), a.interpreted))
Misfiltered(case, a) == Below1(filter_accuracy(case.constraints, a.applied))
Gaping(case, a) ==
    case.type = "catalog_quality" /\ ExpectedIds(case) = <<>> /\ Ids(a.products) # <<>>
Violated(case, a) == Below1(constraint_satisfaction(a.products, case.constraints))
Missed(case, a) == ~(ToSet(ExpectedIds(case)) \subseteq ToSet(a.retrieved))
Misranked(case, a) ==
    /\ ToSet(ExpectedIds(case)) # {} /\ ToSet(Ids(a.products)) = ToSet(ExpectedIds(case))
    /\ Ids(a.products) # ExpectedIds(case)
Cluttered(case, a) ==
    /\ ToSet(Ids(a.products)) \ ToSet(ExpectedIds(case)) # {}
    /\ ToSet(ExpectedIds(case)) \subseteq ToSet(a.filtered)

\* The first symptom that the case shows is its failure.
LEMMA ClassifyIs ==
    ASSUME NEW case, NEW a
    PROVE  Classify(case, a) =
               IF Misread(case, a) THEN "QUERY_UNDERSTANDING"
               ELSE IF Misfiltered(case, a) THEN "FILTER_EXTRACTION"
               ELSE IF Gaping(case, a) THEN "CATALOG_DATA_QUALITY"
               ELSE IF Violated(case, a) THEN "FILTER_VIOLATION"
               ELSE IF Missed(case, a) THEN "RETRIEVAL_MISS"
               ELSE IF Misranked(case, a) THEN "RANKING_FAILURE"
               ELSE IF Cluttered(case, a) THEN "RETRIEVAL_NOISE"
               ELSE IF a.slow THEN "LATENCY_FAILURE"
               ELSE "NONE"
  <1>1. PICK s : s = Symptoms(case, a)
    OBVIOUS
  <1>2. PICK u : u = << <<Misread(case, a), "QUERY_UNDERSTANDING">>,
                        <<Misfiltered(case, a), "FILTER_EXTRACTION">>,
                        <<Gaping(case, a), "CATALOG_DATA_QUALITY">>,
                        <<Violated(case, a), "FILTER_VIOLATION">>,
                        <<Missed(case, a), "RETRIEVAL_MISS">>,
                        <<Misranked(case, a), "RANKING_FAILURE">>,
                        <<Cluttered(case, a), "RETRIEVAL_NOISE">>,
                        <<a.slow, "LATENCY_FAILURE">>,
                        <<TRUE, "NONE">> >>
    OBVIOUS
  <1>3. s = u
    BY ONLY <1>1, <1>2 DEF Symptoms, Misread, Misfiltered, Gaping, Violated, Missed, Misranked, Cluttered
  <1>4. /\ DOMAIN s = 1 .. 9
        /\ (s[1][1] <=> Misread(case, a)) /\ s[1][2] = "QUERY_UNDERSTANDING"
        /\ (s[2][1] <=> Misfiltered(case, a)) /\ s[2][2] = "FILTER_EXTRACTION"
        /\ (s[3][1] <=> Gaping(case, a)) /\ s[3][2] = "CATALOG_DATA_QUALITY"
        /\ (s[4][1] <=> Violated(case, a)) /\ s[4][2] = "FILTER_VIOLATION"
        /\ (s[5][1] <=> Missed(case, a)) /\ s[5][2] = "RETRIEVAL_MISS"
        /\ (s[6][1] <=> Misranked(case, a)) /\ s[6][2] = "RANKING_FAILURE"
        /\ (s[7][1] <=> Cluttered(case, a)) /\ s[7][2] = "RETRIEVAL_NOISE"
        /\ (s[8][1] <=> a.slow) /\ s[8][2] = "LATENCY_FAILURE"
        /\ s[9][1] /\ s[9][2] = "NONE"
    BY ONLY <1>2, <1>3
  <1>5. PICK S : S = {i \in DOMAIN s : s[i][1]}
    OBVIOUS
  <1>6. /\ S \subseteq 1 .. 9 /\ 9 \in S
        /\ 1 \in S <=> Misread(case, a)
        /\ 2 \in S <=> Misfiltered(case, a)
        /\ 3 \in S <=> Gaping(case, a)
        /\ 4 \in S <=> Violated(case, a)
        /\ 5 \in S <=> Missed(case, a)
        /\ 6 \in S <=> Misranked(case, a)
        /\ 7 \in S <=> Cluttered(case, a)
        /\ 8 \in S <=> a.slow
    BY <1>4, <1>5
  <1>7. PICK m : m = Min(S)
    OBVIOUS
  <1>8. m \in S /\ \A i \in S : m <= i
    BY <1>6, <1>7, FirstShown
  <1>9. Classify(case, a) = s[m][2]
    BY <1>1, <1>5, <1>7 DEF Classify, First
  <1>10. m = IF 1 \in S THEN 1 ELSE IF 2 \in S THEN 2 ELSE IF 3 \in S THEN 3
             ELSE IF 4 \in S THEN 4 ELSE IF 5 \in S THEN 5 ELSE IF 6 \in S THEN 6
             ELSE IF 7 \in S THEN 7 ELSE IF 8 \in S THEN 8 ELSE 9
    BY ONLY <1>6, <1>8
  <1> QED
    BY <1>4, <1>6, <1>9, <1>10

-----------------------------------------------------------------------------
(* Accuracies *)

\* A fraction is not below 1 when it is known to be 1.
LEMMA FractionIs ==
    ASSUME NEW m \in Nat, NEW n \in Nat, m <= n
    PROVE  /\ Ratio(m, n) # Unset /\ Ratio(m, n)[1] = m /\ Ratio(m, n)[2] = n
           /\ Below1(Ratio(m, n)) <=> m # n
           /\ IsOne(Ratio(m, n)) <=> m = n
  <1>1. Ratio(m, n) \in Nat \X Nat
    BY DEF Ratio
  <1> QED
    BY <1>1, UnsetAssumption DEF Ratio, Below1, IsOne

\* A metric of nothing counts as good.
LEMMA UnknownIs == ~Below1(Unset) /\ IsOne(Unset)
  BY DEF Below1, IsOne

\* A field is accurate when all expected ones are equal.
LEMMA AccuracyIs ==
    ASSUME NEW expected, IsFiniteSet(DOMAIN expected), NEW actual
    PROVE  /\ Below1(Accuracy(expected, actual)) <=>
                 \E f \in DOMAIN expected : expected[f] # Unset /\ actual[f] # expected[f]
           /\ ~Below1(Accuracy(expected, actual)) => IsOne(Accuracy(expected, actual))
  <1> DEFINE known == {f \in DOMAIN expected : expected[f] # Unset}
             hits == {f \in known : actual[f] = expected[f]}
  <1>1. IsFiniteSet(known) /\ Cardinality(known) \in Nat
    BY FS_Subset, FS_CardinalityType
  <1>2. hits \subseteq known
    OBVIOUS
  <1>3. /\ Cardinality(hits) \in Nat /\ Cardinality(hits) <= Cardinality(known)
        /\ Cardinality(hits) = Cardinality(known) <=> hits = known
    <2> HIDE DEF known, hits
    <2>1. /\ IsFiniteSet(hits) /\ Cardinality(hits) <= Cardinality(known)
          /\ Cardinality(known) = Cardinality(hits) => known = hits
      BY <1>1, <1>2, FS_Subset
    <2> QED
      BY <2>1, FS_CardinalityType
  <1>4. known # {} => Accuracy(expected, actual) = Ratio(Cardinality(hits), Cardinality(known))
    BY DEF Accuracy
  <1>5. known = {} => Accuracy(expected, actual) = Unset
    BY DEF Accuracy
  <1>6. hits = known <=> ~\E f \in DOMAIN expected : expected[f] # Unset /\ actual[f] # expected[f]
    OBVIOUS
  <1>7. known = {} => hits = known
    OBVIOUS
  <1> HIDE DEF known, hits
  <1>8. CASE known = {}
    BY <1>5, <1>6, <1>7, <1>8, UnknownIs
  <1>9. CASE known # {}
    BY <1>1, <1>3, <1>4, <1>6, <1>9, FractionIs
  <1> QED
    BY <1>8, <1>9

\* A product satisfies the constraints that it does not violate.
LEMMA ViolationsAre ==
    ASSUME NEW product, product.price \in Nat, NEW constraints,
           \A f \in {"min_price", "max_price"} : constraints[f] \in Nat \union {Unset}
    PROVE  Violations(product, constraints) = {} <=> Satisfies(product, constraints)
  <1>1. CASE constraints["min_price"] # Unset /\ constraints["max_price"] # Unset
    BY <1>1 DEF Violations, Satisfies
  <1>2. CASE constraints["min_price"] = Unset \/ constraints["max_price"] = Unset
    BY <1>2 DEF Violations, Satisfies
  <1> QED
    BY <1>1, <1>2

\* Without constraints everything does.
LEMMA UnconstrainedIs ==
    ASSUME NEW product, NEW constraints, \A f \in Fields : constraints[f] = Unset
    PROVE  Violations(product, constraints) = {} /\ Satisfies(product, constraints)
  BY DEF Fields, Violations, Satisfies

\* All satisfy them when no product violates any.
LEMMA SatisfactionIs ==
    ASSUME NEW A, NEW products \in Seq(A), NEW constraints
    PROVE  /\ Below1(constraint_satisfaction(products, constraints)) <=>
                 \E i \in DOMAIN products : Violations(products[i], constraints) # {}
           /\ ~Below1(constraint_satisfaction(products, constraints)) =>
                 IsOne(constraint_satisfaction(products, constraints))
  <1> DEFINE good == {i \in DOMAIN products : Violations(products[i], constraints) = {}}
  <1>1. PICK n : n = Len(products)
    OBVIOUS
  <1>2. n \in Nat /\ DOMAIN products = 1 .. n /\ (products = <<>> <=> n = 0)
    BY <1>1
  <1>3. Cardinality(good) \in Nat /\ Cardinality(good) <= n /\ (Cardinality(good) = n <=> good = DOMAIN products)
    <2>1. IsFiniteSet(1 .. n) /\ Cardinality(1 .. n) = n
      BY <1>2, FS_Interval
    <2>2. good \subseteq 1 .. n
      BY <1>2
    <2> HIDE DEF good
    <2>3. IsFiniteSet(good) /\ Cardinality(good) <= n /\ (n = Cardinality(good) => 1 .. n = good)
      BY <2>1, <2>2, FS_Subset
    <2>4. Cardinality(good) \in Nat
      BY <2>3, FS_CardinalityType
    <2> QED
      BY <1>2, <2>1, <2>3, <2>4
  <1>4. good = DOMAIN products <=> ~\E i \in DOMAIN products : Violations(products[i], constraints) # {}
    OBVIOUS
  <1>5. CASE products = <<>>
    <2>1. constraint_satisfaction(products, constraints) = Unset /\ DOMAIN products = {}
      BY <1>2, <1>5 DEF constraint_satisfaction
    <2> QED
      BY <2>1, UnknownIs
  <1>6. CASE \A f \in Fields : constraints[f] = Unset
    <2>1. constraint_satisfaction(products, constraints) = Unset
      BY <1>6 DEF constraint_satisfaction
    <2> QED
      BY <1>6, <2>1, UnknownIs, UnconstrainedIs
  <1>7. CASE products # <<>> /\ ~\A f \in Fields : constraints[f] = Unset
    <2>1. constraint_satisfaction(products, constraints) = Ratio(Cardinality(good), n)
      BY <1>1, <1>7 DEF constraint_satisfaction
    <2> HIDE DEF good
    <2>2. PICK m \in Nat : m = Cardinality(good)
      BY <1>3
    <2>3. (Below1(Ratio(m, n)) <=> m # n) /\ (IsOne(Ratio(m, n)) <=> m = n)
      BY <1>2, <1>3, <2>2, FractionIs
    <2>4. m = n <=> ~\E i \in DOMAIN products : Violations(products[i], constraints) # {}
      BY <1>3, <1>4, <2>2
    <2> QED
      BY <2>1, <2>2, <2>3, <2>4
  <1> QED
    BY <1>5, <1>6, <1>7

-----------------------------------------------------------------------------
(* The search *)

\* A catalog has finitely many products, with ids and prices.
IsCatalog(catalog) ==
    /\ IsFiniteSet(catalog)
    /\ \A p \in catalog : p.id \in Nat /\ p.price \in Nat
    /\ \A p, q \in catalog : p.id = q.id => p = q

\* A query has finitely many words.
LEMMA RemainingFinite ==
    ASSUME NEW query \in Seq(Words)
    PROVE  IsFiniteSet(Remaining(query))
  <1> DEFINE places == {i \in DOMAIN query :
                  ~ \E f \in Removable(query) : Mentions(query, f) # {} /\ i = Min(Mentions(query, f))}
             word == [i \in places |-> query[i]]
  <1>1. IsFiniteSet(1 .. Len(query)) /\ places \subseteq 1 .. Len(query)
    BY FS_Interval
  <1>2. Remaining(query) = {query[i] : i \in places}
    BY DEF Remaining
  <1> HIDE DEF places
  <1>3. IsFiniteSet(places)
    BY <1>1, FS_Subset
  <1>4. word \in Surjection(places, Remaining(query))
    BY <1>2 DEF Surjection
  <1> QED
    BY <1>3, <1>4, FS_Surjection

\* Scores are natural numbers.
LEMMA ScoreIsNat ==
    ASSUME NEW text, IsFiniteSet(text), NEW product
    PROVE  Score(product, text) \in Nat
  <1> DEFINE w == [f \in DOMAIN FieldWeights |->
                       FieldWeights[f] * Cardinality(text \intersect product.text[f])]
  <1>1. \A f : Cardinality(text \intersect product.text[f]) \in Nat
    <2> SUFFICES ASSUME NEW f
                 PROVE  Cardinality(text \intersect product.text[f]) \in Nat
      OBVIOUS
    <2>1. text \intersect product.text[f] \in SUBSET text
      OBVIOUS
    <2>2. IsFiniteSet(text \intersect product.text[f])
      BY <2>1, FS_Subset
    <2> QED
      BY <2>2, FS_CardinalityType
  <1>2. \A f \in DOMAIN w : w[f] \in Nat
    BY <1>1, SearchAssumption
  <1>3. IsFiniteSet(DOMAIN w)
    BY SearchAssumption
  <1>4. SumFunctionOnSet(w, DOMAIN w) \in Nat
    <2> HIDE DEF w
    <2> QED
      BY <1>2, <1>3, SumIsNat
  <1> QED
    BY <1>4 DEF Score, SumFunction

\* The candidates are different products.
LEMMA RetrieveIs ==
    ASSUME NEW catalog, IsCatalog(catalog), NEW text, IsFiniteSet(text)
    PROVE  /\ Retrieve(catalog, text) \in Seq(catalog)
           /\ IsInjective(Retrieve(catalog, text))
           /\ Len(Retrieve(catalog, text)) <= CandidateLimit
  <1> DEFINE scored == {p \in catalog : Score(p, text) > 0}
             Before(p) == {q \in scored : \/ Score(q, text) > Score(p, text)
                                          \/ Score(q, text) = Score(p, text) /\ q.id < p.id}
             before == [p \in scored |-> Before(p)]
  <1>1. \A p : Score(p, text) \in Nat
    BY ScoreIsNat
  <1>2. IsFiniteSet(scored) /\ scored \subseteq catalog
    BY FS_Subset DEF IsCatalog
  <1>3. \A p, q \in scored : p.id \in Nat /\ (p.id = q.id => p = q)
    BY DEF IsCatalog
  <1>4. \A p \in scored : \A q : q \in before[p] <=>
            /\ q \in scored
            /\ \/ Score(q, text) > Score(p, text)
               \/ Score(q, text) = Score(p, text) /\ q.id < p.id
    OBVIOUS
  <1>5. before \in [scored -> SUBSET scored]
    OBVIOUS
  <1>6. Retrieve(catalog, text) = Cut(Ordered(before), CandidateLimit)
    BY DEF Retrieve
  <1> HIDE DEF scored, before
  <1>7. Orders(before, scored)
    <2>1. ASSUME NEW p \in scored
          PROVE  p \notin before[p]
      BY <1>1, <1>3, <1>4
    <2>2. ASSUME NEW p \in scored, NEW q \in before[p], NEW x \in before[q]
          PROVE  x \in before[p]
      BY <1>1, <1>3, <1>4
    <2>3. ASSUME NEW p \in scored, NEW q \in scored
          PROVE  p = q \/ p \in before[q] \/ q \in before[p]
      <3>1. PICK m, n \in Nat : m = Score(p, text) /\ n = Score(q, text)
        BY <1>1
      <3>2. p.id \in Nat /\ q.id \in Nat /\ (p.id = q.id => p = q)
        BY <1>3
      <3>3. p \in before[q] <=> m > n \/ (m = n /\ p.id < q.id)
        BY <1>4, <3>1
      <3>4. q \in before[p] <=> n > m \/ (m = n /\ q.id < p.id)
        BY <1>4, <3>1
      <3> QED
        BY <3>1, <3>2, <3>3, <3>4
    <2> QED
      BY <1>2, <1>5, <2>1, <2>2, <2>3 DEF Orders
  <1>8. PICK s : s = Ordered(before)
    OBVIOUS
  <1>9. s \in Seq(catalog) /\ IsInjective(s)
    <2>1. /\ Cardinality(scored) \in Nat
          /\ s \in [1 .. Cardinality(scored) -> scored]
          /\ \A i, j \in 1 .. Cardinality(scored) : s[i] = s[j] => i = j
      BY <1>7, <1>8, OrderedIs
    <2> QED
      BY <1>2, <2>1 DEF IsInjective
  <1>10. PICK t : t = Cut(s, CandidateLimit)
    OBVIOUS
  <1>11. /\ t \in Seq(catalog)
         /\ Len(t) = IF CandidateLimit <= Len(s) THEN CandidateLimit ELSE Len(s)
         /\ \A i \in DOMAIN t : i \in DOMAIN s /\ t[i] = s[i]
    BY <1>9, <1>10, SearchAssumption, CutIs
  <1>12. IsInjective(t) /\ Len(t) <= CandidateLimit
    BY <1>9, <1>11, SearchAssumption DEF IsInjective
  <1> QED
    BY <1>6, <1>8, <1>10, <1>11, <1>12

\* What the engine makes of its candidates.
Answered(retrieved, intent, k, slow) ==
    [interpreted |-> intent, applied |-> intent.constraints,
     retrieved |-> Ids(retrieved), filtered |-> Ids(Filter(retrieved, intent.constraints)),
     products |-> Cut(Filter(retrieved, intent.constraints), k), slow |-> slow]

\* A search is what the engine makes of candidates, each listed once.
LEMMA SearchIs ==
    ASSUME NEW catalog, IsCatalog(catalog), NEW query \in Seq(Words), NEW k
    PROVE  \E retrieved \in Seq(catalog) :
              /\ IsInjective(retrieved) /\ Len(retrieved) <= CandidateLimit
              /\ \A slow : Search(catalog, query, k, slow)
                                = Answered(retrieved, parse_query(query), k, slow)
  <1>1. PICK text, constraints :
           text = Remaining(query) /\ parse_query(query).text = text
           /\ constraints = parse_query(query).constraints
    BY DEF parse_query
  <1>2. IsFiniteSet(text)
    BY <1>1, RemainingFinite
  <1>3. PICK r : r = Retrieve(catalog, text)
    OBVIOUS
  <1>4. r \in Seq(catalog) /\ IsInjective(r) /\ Len(r) <= CandidateLimit
    BY <1>2, <1>3, RetrieveIs
  <1>5. \A slow : Search(catalog, query, k, slow) = Answered(r, parse_query(query), k, slow)
    BY <1>1, <1>3 DEF Search, SearchFor, Answered
  <1> QED
    BY <1>4, <1>5

\* The ids of some products of a catalog.
LEMMA IdsAre ==
    ASSUME NEW catalog, IsCatalog(catalog), NEW s \in Seq(catalog)
    PROVE  /\ Ids(s) \in Seq(Nat) /\ DOMAIN Ids(s) = DOMAIN s /\ Len(Ids(s)) = Len(s)
           /\ \A i \in DOMAIN s : Ids(s)[i] = s[i].id
           /\ IsInjective(s) => IsInjective(Ids(s))
           /\ Ids(s) = <<>> <=> s = <<>>
           /\ \A x : x \in ToSet(Ids(s)) <=> \E i \in DOMAIN s : x = s[i].id
  <1>1. PICK t : t = Ids(s)
    OBVIOUS
  <1>2. DOMAIN t = DOMAIN s /\ \A i \in DOMAIN s : t[i] = s[i].id /\ s[i] \in catalog
    BY <1>1 DEF Ids
  <1>3. t = [i \in 1 .. Len(s) |-> s[i].id]
    BY <1>1 DEF Ids
  <1>4. t \in Seq(Nat) /\ Len(t) = Len(s)
    BY <1>2, <1>3 DEF IsCatalog
  <1>5. IsInjective(s) => IsInjective(t)
    BY <1>2 DEF IsInjective, IsCatalog
  <1>6. t = <<>> <=> s = <<>>
    BY <1>4
  <1>7. \A x : x \in ToSet(t) <=> \E i \in DOMAIN s : x = s[i].id
    BY <1>2 DEF ToSet
  <1> QED
    BY <1>1, <1>2, <1>4, <1>5, <1>6, <1>7

\* The products are different ones, which were candidates and satisfy the constraints.
LEMMA AnsweredIs ==
    ASSUME NEW catalog, IsCatalog(catalog), NEW retrieved \in Seq(catalog), IsInjective(retrieved),
           NEW constraints, NEW k \in Nat,
           NEW filtered, filtered = Filter(retrieved, constraints),
           NEW products, products = Cut(filtered, k)
    PROVE  /\ filtered \in Seq(catalog) /\ IsInjective(filtered) /\ Len(filtered) <= Len(retrieved)
           /\ \A i \in DOMAIN filtered : Satisfies(filtered[i], constraints)
                                         /\ \E j \in DOMAIN retrieved : filtered[i] = retrieved[j]
           /\ \A j \in DOMAIN retrieved : Satisfies(retrieved[j], constraints) =>
                 \E i \in DOMAIN filtered : filtered[i] = retrieved[j]
           /\ products \in Seq(catalog) /\ IsInjective(products)
           /\ Len(products) <= k /\ Len(products) <= Len(filtered)
           /\ \A i \in DOMAIN products : i \in DOMAIN filtered /\ products[i] = filtered[i]
  <1>1. PICK places \in SUBSET DOMAIN retrieved :
           /\ \A i \in DOMAIN retrieved : i \in places <=> Satisfies(retrieved[i], constraints)
           /\ filtered = Kept(retrieved, places)
    <2>1. {i \in DOMAIN retrieved : Satisfies(retrieved[i], constraints)} \in SUBSET DOMAIN retrieved
      OBVIOUS
    <2> QED
      BY <2>1 DEF Filter
  <1>2. /\ filtered \in Seq(catalog) /\ Len(filtered) <= Len(retrieved)
        /\ \A m \in DOMAIN filtered : \E i \in places : filtered[m] = retrieved[i]
        /\ \A i \in places : \E m \in DOMAIN filtered : filtered[m] = retrieved[i]
        /\ IsInjective(filtered)
    <2>1. \A i, j \in DOMAIN retrieved : retrieved[i] = retrieved[j] => i = j
      BY DEF IsInjective
    <2> QED
      BY <1>1, <2>1, KeptIs DEF IsInjective
  <1>3. /\ products \in Seq(catalog)
        /\ Len(products) = IF k <= Len(filtered) THEN k ELSE Len(filtered)
        /\ \A i \in DOMAIN products : i \in DOMAIN filtered /\ products[i] = filtered[i]
    BY <1>2, CutIs
  <1>4. IsInjective(products)
    BY <1>2, <1>3 DEF IsInjective
  <1>5. Len(products) <= k /\ Len(products) <= Len(filtered)
    <2>1. Len(filtered) \in Nat
      BY <1>2
    <2> QED
      BY <1>3, <2>1
  <1> QED
    BY <1>1, <1>2, <1>3, <1>4, <1>5

-----------------------------------------------------------------------------
(* Faults *)

\* A case of a golden dataset.
Golden(case) ==
    /\ case.query \in Seq(Words)
    /\ case.expected \in Seq([id : Nat, label : DOMAIN Grades])
    /\ DOMAIN case.constraints = Fields
    /\ \A f \in {"min_price", "max_price"} : case.constraints[f] \in Nat \union {Unset}

\* A case that passes shows no symptom.
LEMMA PassedIs ==
    ASSUME NEW case, NEW a, NEW k, CaseResult(case, a, k).passed
    PROVE  /\ Ids(a.products) = ExpectedIds(case)
           /\ ~Misread(case, a) /\ ~Misfiltered(case, a) /\ ~Violated(case, a) /\ ~Missed(case, a)
  <1>1. Ids(a.products) = ExpectedIds(case) /\ Classify(case, a) = "NONE"
    BY DEF CaseResult
  <1>2. PICK m, f, g, v, r, t, y : /\ m = Misread(case, a) /\ f = Misfiltered(case, a)
                                   /\ g = Gaping(case, a) /\ v = Violated(case, a)
                                   /\ r = Missed(case, a) /\ t = Misranked(case, a)
                                   /\ y = Cluttered(case, a)
    OBVIOUS
  <1>3. ~m /\ ~f /\ ~v /\ ~r
    BY <1>1, <1>2, ClassifyIs
  <1> QED
    BY <1>1, <1>2, <1>3

\* What a passed case and a response to it are, the candidates being these.
Passing(case, catalog, retrieved, intent, k, products) ==
    /\ IsCatalog(catalog) /\ Golden(case) /\ k \in Nat
    /\ retrieved \in Seq(catalog) /\ IsInjective(retrieved)
    /\ products = Cut(Filter(retrieved, intent.constraints), k)
    /\ products \in Seq(catalog) /\ IsInjective(products)
    /\ Ids(products) = ExpectedIds(case)
    /\ \A i \in DOMAIN products : Violations(products[i], case.constraints) = {}

\* A case that a healthy system passes is passed by what it is answered, slow or not.
LEMMA PassingIs ==
    ASSUME NEW case, Golden(case), NEW catalog, IsCatalog(catalog), NEW k \in Nat,
           NEW retrieved \in Seq(catalog), IsInjective(retrieved), NEW intent,
           CaseResult(case, Answered(retrieved, intent, k, FALSE), k).passed,
           NEW slow, NEW b, b = Answered(retrieved, intent, k, slow)
    PROVE  /\ Passing(case, catalog, retrieved, intent, k, b.products)
           /\ ~Misread(case, b) /\ ~Misfiltered(case, b) /\ ~Violated(case, b) /\ ~Missed(case, b)
           /\ ~Gaping(case, b) /\ ~Misranked(case, b) /\ ~Cluttered(case, b)
  <1>1. PICK a : a = Answered(retrieved, intent, k, FALSE)
    OBVIOUS
  <1>2. /\ a.interpreted = b.interpreted /\ a.applied = b.applied /\ a.products = b.products
        /\ a.retrieved = b.retrieved /\ a.filtered = b.filtered
    BY <1>1 DEF Answered
  <1>3. /\ Ids(b.products) = ExpectedIds(case)
        /\ ~Misread(case, b) /\ ~Misfiltered(case, b) /\ ~Violated(case, b) /\ ~Missed(case, b)
    BY <1>1, <1>2, PassedIs DEF Misread, Misfiltered, Violated, Missed
  <1>4. ~Gaping(case, b) /\ ~Misranked(case, b) /\ ~Cluttered(case, b)
    BY <1>3 DEF Gaping, Misranked, Cluttered
  <1>5. PICK products : products = b.products
    OBVIOUS
  <1>6. products = Cut(Filter(retrieved, intent.constraints), k)
    BY <1>5 DEF Answered
  <1>7. products \in Seq(catalog) /\ IsInjective(products)
    BY <1>6, AnsweredIs
  <1>8. \A i \in DOMAIN products : Violations(products[i], case.constraints) = {}
    BY <1>3, <1>5, <1>7, SatisfactionIs DEF Violated
  <1> QED
    BY <1>3, <1>4, <1>5, <1>6, <1>7, <1>8 DEF Passing

\* A search system without a fault, or with one that does not show.
LEMMA Harmless ==
    ASSUME NEW case, NEW x, ~Misread(case, x), ~Misfiltered(case, x), ~Violated(case, x),
           ~Missed(case, x), ~Gaping(case, x), ~Misranked(case, x), ~Cluttered(case, x)
    PROVE  Classify(case, x) = IF x.slow THEN "LATENCY_FAILURE" ELSE "NONE"
  BY ClassifyIs

\* The first expected product is not found.
LEMMA MissNamed ==
    ASSUME NEW case, NEW catalog, NEW retrieved, NEW intent, NEW k, NEW slow \in BOOLEAN,
           NEW b, b = Answered(retrieved, intent, k, slow),
           Passing(case, catalog, retrieved, intent, k, b.products),
           ~Misread(case, b), ~Misfiltered(case, b)
    PROVE  Classify(case, InjectRetrievalMiss(b)) =
               IF case.expected # <<>> THEN "RETRIEVAL_MISS"
               ELSE IF slow THEN "LATENCY_FAILURE" ELSE "NONE"
  <1>1. PICK products : products = b.products
    OBVIOUS
  <1>2. PICK target : target = Cut(Ids(products) \o Ids(retrieved), 1)
    OBVIOUS
  <1>3. b.retrieved = Ids(retrieved)
    BY DEF Answered
  <1>4. PICK t, f, p : /\ t = Without(Ids(retrieved), target) /\ f = Without(b.filtered, target)
                       /\ p = ProductsWithout(products, target)
    OBVIOUS
  <1>5. PICK x : x = [b EXCEPT !.retrieved = t, !.filtered = f, !.products = p]
    OBVIOUS
  <1>6. InjectRetrievalMiss(b) = x
    BY <1>1, <1>2, <1>3, <1>4, <1>5 DEF InjectRetrievalMiss
  <1>7. /\ x.interpreted = b.interpreted /\ x.applied = b.applied /\ x.slow = slow
        /\ x.retrieved = t /\ x.products = p
    BY <1>5 DEF Answered
  <1>8. ~Misread(case, x) /\ ~Misfiltered(case, x)
    BY <1>7 DEF Misread, Misfiltered
  <1>9. /\ IsCatalog(catalog) /\ retrieved \in Seq(catalog) /\ products \in Seq(catalog)
        /\ Ids(products) = ExpectedIds(case)
        /\ \A i \in DOMAIN products : Violations(products[i], case.constraints) = {}
        /\ case.expected \in Seq([id : Nat, label : DOMAIN Grades])
    BY <1>1 DEF Passing, Golden
  <1>10. PICK places \in SUBSET DOMAIN products : p = Kept(products, places)
    <2>1. {i \in DOMAIN products : ~Contains(target, products[i].id)} \in SUBSET DOMAIN products
      OBVIOUS
    <2> QED
      BY <1>4, <2>1 DEF ProductsWithout
  <1>11. /\ p \in Seq(catalog)
         /\ \A m \in DOMAIN p : \E i \in places : p[m] = products[i]
         /\ p = <<>> <=> places = {}
    BY <1>9, <1>10, KeptIs
  <1>12. ~Violated(case, x)
    <2>1. \A i \in DOMAIN p : Violations(p[i], case.constraints) = {}
      BY <1>9, <1>11
    <2> QED
      BY <1>7, <1>11, <2>1, SatisfactionIs DEF Violated
  <1>13. ExpectedIds(case) = <<>> <=> case.expected = <<>>
    BY <1>9 DEF ExpectedIds
  <1>14. CASE case.expected = <<>>
    <2>1. ExpectedIds(case) = <<>> /\ ToSet(ExpectedIds(case)) = {}
      BY <1>13, <1>14 DEF ToSet
    <2>2. products = <<>>
      BY <1>9, <2>1, IdsAre
    <2>3. p = <<>>
      BY <1>10, <1>11, <2>2
    <2>4. Ids(p) = <<>> /\ ToSet(Ids(p)) = {}
      BY <2>3 DEF Ids, ToSet
    <2>5. ~Missed(case, x) /\ ~Gaping(case, x) /\ ~Misranked(case, x) /\ ~Cluttered(case, x)
      BY <1>7, <2>1, <2>4 DEF Missed, Gaping, Misranked, Cluttered
    <2> QED
      BY <1>6, <1>7, <1>8, <1>12, <1>14, <2>5, Harmless
  <1>15. CASE case.expected # <<>>
    <2>1. PICK s, u : s = Ids(products) /\ u = Ids(retrieved)
      OBVIOUS
    <2>2. s \in Seq(Nat) /\ u \in Seq(Nat)
      BY <1>9, <2>1, IdsAre
    <2>3. s # <<>> /\ s = ExpectedIds(case)
      BY <1>9, <1>13, <1>15, <2>1
    <2>4. s \o u \in Seq(Nat) /\ Len(s \o u) >= 1 /\ (s \o u)[1] = s[1] /\ s[1] \in ToSet(s)
      BY <2>2, <2>3 DEF ToSet
    <2>5. target \in Seq(Nat) /\ Len(target) = 1 /\ target[1] = s[1]
      <3>1. PICK w : w = s \o u
        OBVIOUS
      <3>2. /\ target \in Seq(Nat) /\ Len(target) = IF 1 <= Len(w) THEN 1 ELSE Len(w)
            /\ \A i \in DOMAIN target : target[i] = w[i]
        BY <1>2, <2>1, <2>4, <3>1, CutIs
      <3> QED
        BY <2>4, <3>1, <3>2
    <2>6. \A id : Contains(target, id) <=> id = s[1]
      BY <2>5 DEF Contains
    <2>7. s[1] \notin ToSet(t)
      <3>1. PICK there \in SUBSET DOMAIN u : t = Kept(u, there) /\ \A i \in there : u[i] # s[1]
        <4>1. {i \in DOMAIN u : ~Contains(target, u[i])} \in SUBSET DOMAIN u
          OBVIOUS
        <4> QED
          BY <1>4, <2>1, <2>6, <4>1 DEF Without
      <3>2. \A m \in DOMAIN t : \E i \in there : t[m] = u[i]
        BY <2>2, <3>1, KeptIs
      <3> QED
        BY <3>1, <3>2 DEF ToSet
    <2>8. Missed(case, x)
      BY <1>7, <2>3, <2>4, <2>7 DEF Missed
    <2>9. ~Gaping(case, x)
      BY <1>13, <1>15 DEF Gaping
    <2> QED
      BY <1>6, <1>8, <1>12, <1>15, <2>8, <2>9, ClassifyIs
  <1> QED
    BY <1>14, <1>15

\* What is first comes last.
Rotated(s) == Append(Tail(s), Head(s))

\* It is the same elements, with what was second now first.
LEMMA RotatedIs ==
    ASSUME NEW A, NEW s \in Seq(A), IsInjective(s), Len(s) >= 2,
           NEW p, p = Rotated(s)
    PROVE  /\ p \in Seq(A) /\ IsInjective(p) /\ 1 \in DOMAIN p
           /\ \A i \in DOMAIN p : \E j \in DOMAIN s : p[i] = s[j]
           /\ \A j \in DOMAIN s : \E i \in DOMAIN p : p[i] = s[j]
           /\ 1 \in DOMAIN s /\ 2 \in DOMAIN s /\ p[1] = s[2] /\ s[1] # s[2]
  <1>1. PICK n \in Nat : n = Len(s) /\ n >= 2 /\ DOMAIN s = 1 .. n
    OBVIOUS
  <1>2. /\ p \in Seq(A) /\ DOMAIN p = 1 .. n
        /\ p[n] = s[1] /\ \A i \in 1 .. n - 1 : p[i] = s[i + 1]
    <2>1. PICK t, h : t = Tail(s) /\ h = Head(s)
      OBVIOUS
    <2>2. t \in Seq(A) /\ Len(t) = n - 1 /\ \A i \in 1 .. n - 1 : t[i] = s[i + 1]
      BY <1>1, <2>1
    <2>3. h = s[1] /\ h \in A
      BY <1>1, <2>1
    <2>4. p = Append(t, h)
      BY <2>1 DEF Rotated
    <2>5. p \in Seq(A) /\ Len(p) = n /\ p[n] = h /\ \A i \in 1 .. n - 1 : p[i] = t[i]
      BY <1>1, <2>2, <2>3, <2>4
    <2>6. DOMAIN p = 1 .. n
      BY <2>5
    <2> QED
      BY <2>2, <2>3, <2>5, <2>6
  <1>3. \A i \in 1 .. n : i = n \/ (i \in 1 .. n - 1 /\ i + 1 \in 1 .. n)
    BY <1>1
  <1>4. 1 \in 1 .. n /\ 2 \in 1 .. n /\ n \in 1 .. n /\ 1 \in 1 .. n - 1 /\ 1 + 1 = 2
    BY <1>1
  <1>5. \A i \in DOMAIN p : \E j \in DOMAIN s : p[i] = s[j]
    BY <1>1, <1>2, <1>3, <1>4
  <1>6. \A j \in DOMAIN s : \E i \in DOMAIN p : p[i] = s[j]
    <2> SUFFICES ASSUME NEW j \in 1 .. n
                 PROVE  \E i \in 1 .. n : p[i] = s[j]
      BY <1>1, <1>2
    <2>1. CASE j = 1
      BY <1>1, <1>2, <2>1
    <2>2. CASE j # 1
      <3>1. j - 1 \in 1 .. n - 1 /\ j - 1 \in 1 .. n /\ (j - 1) + 1 = j
        BY <1>1, <2>2
      <3>2. p[j - 1] = s[(j - 1) + 1]
        BY <1>2, <3>1
      <3> QED
        BY <3>1, <3>2
    <2> QED
      BY <2>1, <2>2
  <1>7. IsInjective(p)
    <2> SUFFICES ASSUME NEW i \in 1 .. n, NEW j \in 1 .. n, p[i] = p[j]
                 PROVE  i = j
      BY <1>2 DEF IsInjective
    <2>1. \A x, y \in 1 .. n : s[x] = s[y] => x = y
      BY <1>1 DEF IsInjective
    <2>2. PICK x, y \in 1 .. n : /\ p[i] = s[x] /\ x = (IF i = n THEN 1 ELSE i + 1)
                                /\ p[j] = s[y] /\ y = (IF j = n THEN 1 ELSE j + 1)
      <3>1. (IF i = n THEN 1 ELSE i + 1) \in 1 .. n /\ p[i] = s[IF i = n THEN 1 ELSE i + 1]
        BY <1>2, <1>3, <1>4
      <3>2. (IF j = n THEN 1 ELSE j + 1) \in 1 .. n /\ p[j] = s[IF j = n THEN 1 ELSE j + 1]
        BY <1>2, <1>3, <1>4
      <3> QED
        BY <3>1, <3>2
    <2>3. x = y
      BY <2>1, <2>2
    <2> QED
      BY <1>1, <2>2, <2>3
  <1>8. p[1] = s[2] /\ s[1] # s[2]
    BY <1>1, <1>2, <1>4 DEF IsInjective
  <1> QED
    BY <1>1, <1>2, <1>4, <1>5, <1>6, <1>7, <1>8

\* The first product comes last.
LEMMA RankingNamed ==
    ASSUME NEW case, NEW catalog, NEW retrieved, NEW intent, NEW k, NEW slow \in BOOLEAN,
           NEW b, b = Answered(retrieved, intent, k, slow),
           Passing(case, catalog, retrieved, intent, k, b.products),
           ~Misread(case, b), ~Misfiltered(case, b), ~Missed(case, b),
           Len(b.products) >= 2
    PROVE  Classify(case, InjectRankingFailure(b)) = "RANKING_FAILURE"
  <1>1. PICK s : s = b.products
    OBVIOUS
  <1>2. /\ IsCatalog(catalog) /\ s \in Seq(catalog) /\ IsInjective(s)
        /\ Ids(s) = ExpectedIds(case)
        /\ \A i \in DOMAIN s : Violations(s[i], case.constraints) = {}
    BY <1>1 DEF Passing
  <1>3. PICK p : p = Rotated(s)
    OBVIOUS
  <1>4. PICK x : x = [b EXCEPT !.products = p]
    OBVIOUS
  <1>5. InjectRankingFailure(b) = x
    <2>1. ~(Len(b.products) < 2)
      BY <1>1, <1>2
    <2> QED
      BY <1>1, <1>3, <1>4, <2>1 DEF InjectRankingFailure, Rotated
  <1>6. /\ x.interpreted = b.interpreted /\ x.applied = b.applied /\ x.slow = slow
        /\ x.retrieved = b.retrieved /\ x.products = p
    BY <1>4 DEF Answered
  <1>7. ~Misread(case, x) /\ ~Misfiltered(case, x) /\ ~Missed(case, x)
    BY <1>6 DEF Misread, Misfiltered, Missed
  <1>8. /\ p \in Seq(catalog) /\ 1 \in DOMAIN p
        /\ \A i \in DOMAIN p : \E j \in DOMAIN s : p[i] = s[j]
        /\ \A j \in DOMAIN s : \E i \in DOMAIN p : p[i] = s[j]
        /\ 1 \in DOMAIN s /\ 2 \in DOMAIN s /\ p[1] = s[2] /\ s[1] # s[2]
    <2>1. s \in Seq(catalog) /\ IsInjective(s) /\ Len(s) >= 2
      BY <1>1, <1>2
    <2> QED
      BY ONLY <1>3, <2>1, RotatedIs, SMTT(60)
  <1>9. ~Violated(case, x)
    <2>1. \A i \in DOMAIN p : Violations(p[i], case.constraints) = {}
      BY <1>2, <1>8
    <2> QED
      BY <1>6, <1>8, <2>1, SatisfactionIs DEF Violated
  <1>10. ToSet(Ids(p)) = ToSet(ExpectedIds(case))
    <2>1. \A y : y \in ToSet(Ids(p)) <=> \E i \in DOMAIN p : y = p[i].id
      BY <1>2, <1>8, IdsAre
    <2>2. \A y : y \in ToSet(Ids(s)) <=> \E i \in DOMAIN s : y = s[i].id
      BY <1>2, IdsAre
    <2>3. \A y : y \in ToSet(Ids(p)) <=> y \in ToSet(Ids(s))
      <3>1. ASSUME NEW i \in DOMAIN p
            PROVE  \E j \in DOMAIN s : p[i].id = s[j].id
        <4>1. PICK j \in DOMAIN s : p[i] = s[j]
          BY ONLY <1>8, <3>1
        <4> QED
          BY ONLY <4>1
      <3>2. ASSUME NEW j \in DOMAIN s
            PROVE  \E i \in DOMAIN p : p[i].id = s[j].id
        <4>1. PICK i \in DOMAIN p : p[i] = s[j]
          BY ONLY <1>8, <3>2
        <4> QED
          BY ONLY <4>1
      <3> QED
        BY ONLY <2>1, <2>2, <3>1, <3>2
    <2> QED
      BY <1>2, <2>3
  <1>11. Ids(p) # ExpectedIds(case) /\ ExpectedIds(case) # <<>> /\ ToSet(ExpectedIds(case)) # {}
    <2>1. s[1] \in catalog /\ s[2] \in catalog
      BY <1>2, <1>8
    <2>2. s[1].id # s[2].id
      BY <1>2, <1>8, <2>1 DEF IsCatalog
    <2>3. Ids(p)[1] = s[2].id /\ Ids(s)[1] = s[1].id
      BY <1>8 DEF Ids
    <2>4. 1 \in DOMAIN Ids(s)
      BY <1>8 DEF Ids
    <2>5. Ids(s) # <<>> /\ ToSet(Ids(s)) # {}
      BY <2>4 DEF ToSet
    <2> QED
      BY <1>2, <2>2, <2>3, <2>5
  <1>12. Misranked(case, x) /\ ~Gaping(case, x)
    BY <1>6, <1>10, <1>11 DEF Misranked, Gaping
  <1> QED
    BY <1>5, <1>7, <1>9, <1>12, ClassifyIs

\* There are finitely many fields.
LEMMA FieldsFinite == IsFiniteSet(Fields)
  <1>1. /\ IsFiniteSet({"category"} \union {"subcategory"})
        /\ IsFiniteSet({"brand"} \union {"gender"})
        /\ IsFiniteSet({"color"} \union {"min_price"})
        /\ IsFiniteSet({"max_price"} \union {"size"})
        /\ IsFiniteSet({"availability"})
    BY FS_Singleton, FS_Union
  <1>2. /\ IsFiniteSet(({"category"} \union {"subcategory"}) \union ({"brand"} \union {"gender"}))
        /\ IsFiniteSet(({"color"} \union {"min_price"}) \union ({"max_price"} \union {"size"}))
    BY <1>1, FS_Union
  <1>3. PICK S, T, U :
           /\ S = ({"category"} \union {"subcategory"}) \union ({"brand"} \union {"gender"})
           /\ T = ({"color"} \union {"min_price"}) \union ({"max_price"} \union {"size"})
           /\ U = {"availability"}
    OBVIOUS
  <1>4. IsFiniteSet(S \union (T \union U))
    BY <1>1, <1>2, <1>3, FS_Union
  <1>5. Fields = S \union (T \union U)
    BY <1>3 DEF Fields
  <1> QED
    BY <1>4, <1>5

\* What is compared of a query is finitely much.
LEMMA IntentFinite ==
    ASSUME NEW intent
    PROVE  IsFiniteSet(DOMAIN IntentFields(intent))
  <1>1. IsFiniteSet({"query_text"} \union {"sorting_intent"})
    BY FS_Singleton, FS_Union
  <1>2. IsFiniteSet(Fields \union ({"query_text"} \union {"sorting_intent"}))
    BY <1>1, FieldsFinite, FS_Union
  <1>3. Fields \union ({"query_text"} \union {"sorting_intent"}) = Fields \union {"query_text", "sorting_intent"}
    OBVIOUS
  <1>4. DOMAIN IntentFields(intent) = Fields \union {"query_text", "sorting_intent"}
    BY DEF IntentFields
  <1> QED
    BY <1>2, <1>3, <1>4

\* The query, its constraints and its sorting are compared.
LEMMA MisreadIs ==
    ASSUME NEW case, NEW a
    PROVE  Misread(case, a) <=>
               \/ case.text # Unset /\ a.interpreted.text # case.text
               \/ case.sorting # Unset /\ a.interpreted.sorting # case.sorting
               \/ \E f \in Fields : /\ case.constraints[f] # Unset
                                    /\ a.interpreted.constraints[f] # case.constraints[f]
  <1> DEFINE all == Fields \union {"query_text", "sorting_intent"}
  <1>1. PICK e, i : e = IntentFields(ExpectedIntent(case)) /\ i = IntentFields(a.interpreted)
    OBVIOUS
  <1>2. "query_text" \notin Fields /\ "sorting_intent" \notin Fields
    BY DEF Fields
  <1>3. /\ DOMAIN e = all
        /\ e["query_text"] = case.text /\ e["sorting_intent"] = case.sorting
        /\ \A f \in Fields : e[f] = case.constraints[f]
    BY <1>1, <1>2 DEF IntentFields, ExpectedIntent
  <1>4. /\ i["query_text"] = a.interpreted.text /\ i["sorting_intent"] = a.interpreted.sorting
        /\ \A f \in Fields : i[f] = a.interpreted.constraints[f]
    BY <1>1, <1>2 DEF IntentFields
  <1>5. IsFiniteSet(all)
    <2>1. IsFiniteSet({"query_text"}) /\ IsFiniteSet({"sorting_intent"})
      BY FS_Singleton
    <2>2. IsFiniteSet({"query_text"} \union {"sorting_intent"})
      BY <2>1, FS_Union
    <2>3. IsFiniteSet(Fields \union ({"query_text"} \union {"sorting_intent"}))
      BY <2>2, FieldsFinite, FS_Union
    <2>4. all = Fields \union ({"query_text"} \union {"sorting_intent"})
      OBVIOUS
    <2> QED
      BY <2>3, <2>4
  <1>6. Misread(case, a) <=> \E f \in all : e[f] # Unset /\ i[f] # e[f]
    <2>1. Misread(case, a) <=> Below1(Accuracy(e, i))
      BY <1>1 DEF Misread, query_understanding_field_accuracy
    <2>2. IsFiniteSet(DOMAIN e)
      BY <1>3, <1>5
    <2>3. Below1(Accuracy(e, i)) <=> \E f \in DOMAIN e : e[f] # Unset /\ i[f] # e[f]
      BY <2>2, AccuracyIs
    <2> QED
      BY <1>3, <2>1, <2>3
  <1> QED
    BY <1>3, <1>4, <1>6

\* A filter is inaccurate in some field.
LEMMA MisfilteredIs ==
    ASSUME NEW case, DOMAIN case.constraints = Fields, NEW a
    PROVE  Misfiltered(case, a) <=>
               \E f \in Fields : case.constraints[f] # Unset /\ a.applied[f] # case.constraints[f]
  BY FieldsFinite, AccuracyIs DEF Misfiltered, filter_accuracy

\* A constraint is lost.
LEMMA RegressionNamed ==
    ASSUME NEW case, NEW catalog, NEW retrieved, NEW query, NEW k, NEW slow \in BOOLEAN,
           NEW b, b = Answered(retrieved, parse_query(query), k, slow),
           Golden(case),
           ~Misread(case, b), ~Misfiltered(case, b), ~Violated(case, b), ~Missed(case, b),
           ~Gaping(case, b), ~Misranked(case, b), ~Cluttered(case, b)
    PROVE  Classify(case, InjectParserRegression(b)) =
               IF \E f \in Fields : Contains(Lost(parse_query(query).constraints), f)
                                    /\ case.constraints[f] # Unset
               THEN "QUERY_UNDERSTANDING"
               ELSE IF slow THEN "LATENCY_FAILURE" ELSE "NONE"
  <1>1. PICK intent, c : intent = parse_query(query) /\ c = intent.constraints
    OBVIOUS
  <1>2. PICK lost : lost = {f \in Fields : Contains(Lost(c), f)}
    OBVIOUS
  <1>3. PICK d : d = DropConstraint(c)
    OBVIOUS
  <1>4. \A f \in Fields : d[f] = IF f \in lost THEN Unset ELSE c[f]
    BY <1>2, <1>3 DEF DropConstraint
  <1>5. PICK x : x = [b EXCEPT !.interpreted = [@ EXCEPT !.constraints = d], !.applied = d]
    OBVIOUS
  <1>6. InjectParserRegression(b) = x
    <2>1. b.interpreted.constraints = c /\ b.applied = c
      BY <1>1 DEF Answered
    <2> QED
      BY <1>3, <1>5, <2>1 DEF InjectParserRegression
  <1>7. /\ b.interpreted = intent /\ b.applied = c
        /\ x.interpreted = [intent EXCEPT !.constraints = d] /\ x.applied = d
        /\ x.retrieved = b.retrieved /\ x.filtered = b.filtered /\ x.products = b.products
        /\ x.slow = slow
    BY <1>1, <1>5 DEF Answered
  <1>8. /\ x.interpreted.text = intent.text /\ x.interpreted.sorting = intent.sorting
        /\ x.interpreted.constraints = d
    BY <1>1, <1>7 DEF parse_query
  <1>9. ~Violated(case, x) /\ ~Missed(case, x) /\ ~Gaping(case, x) /\ ~Misranked(case, x) /\ ~Cluttered(case, x)
    BY <1>7 DEF Violated, Missed, Gaping, Misranked, Cluttered
  <1>10. /\ ~(case.text # Unset /\ intent.text # case.text)
         /\ ~(case.sorting # Unset /\ intent.sorting # case.sorting)
         /\ \A f \in Fields : case.constraints[f] # Unset => c[f] = case.constraints[f]
    BY <1>1, <1>7, MisreadIs
  <1>11. CASE \E f \in lost : case.constraints[f] # Unset
    <2>1. Misread(case, x)
      BY <1>2, <1>4, <1>8, <1>11, MisreadIs
    <2> QED
      BY <1>1, <1>2, <1>6, <1>11, <2>1, ClassifyIs
  <1>12. CASE ~\E f \in lost : case.constraints[f] # Unset
    <2>1. \A f \in Fields : case.constraints[f] # Unset => d[f] = case.constraints[f]
      BY <1>4, <1>10, <1>12
    <2>2. ~Misread(case, x)
      BY <1>8, <1>10, <2>1, MisreadIs
    <2>3. ~Misfiltered(case, x)
      BY <1>7, <2>1, MisfilteredIs DEF Golden
    <2> QED
      BY <1>1, <1>2, <1>6, <1>7, <1>9, <1>12, <2>2, <2>3, Harmless
  <1> QED
    BY <1>11, <1>12

\* A response that lets one more product through.
Letting(b, more) == [b EXCEPT !.products = Append(@, more)]

\* A candidate that the filter took out is let through.
LEMMA LetThrough ==
    ASSUME NEW catalog, IsCatalog(catalog), NEW retrieved \in Seq(catalog),
           NEW filtered \in Seq(catalog), NEW b,
           b.retrieved = Ids(retrieved), b.filtered = Ids(filtered)
    PROVE  IF ToSet(b.retrieved) \subseteq ToSet(b.filtered)
           THEN InjectFilterViolation(b, catalog) = b
           ELSE \E more \in catalog :
                   /\ more.id \notin ToSet(b.filtered)
                   /\ InjectFilterViolation(b, catalog) = Letting(b, more)
  <1>1. PICK u, v : u = Ids(retrieved) /\ v = Ids(filtered)
    OBVIOUS
  <1>2. /\ u \in Seq(Nat) /\ DOMAIN u = DOMAIN retrieved /\ \A i \in DOMAIN u : u[i] = retrieved[i].id
        /\ v \in Seq(Nat)
    BY <1>1, IdsAre
  <1>3. \A id : Contains(v, id) <=> id \in ToSet(v)
    BY <1>2 DEF Contains, ToSet
  <1>4. PICK out : out = Without(u, v)
    OBVIOUS
  <1>5. PICK places : places = {i \in DOMAIN u : ~Contains(v, u[i])}
    OBVIOUS
  <1>6. places \in SUBSET DOMAIN u /\ \A i \in places : u[i] \notin ToSet(v)
    BY <1>3, <1>5
  <1>7. places = {} <=> ToSet(u) \subseteq ToSet(v)
    BY <1>3, <1>5 DEF ToSet
  <1>8. /\ out \in Seq(Nat) /\ \A m \in DOMAIN out : \E i \in places : out[m] = u[i]
        /\ (out = <<>> <=> places = {})
    <2>1. out = Kept(u, places)
      BY <1>4, <1>5 DEF Without
    <2> QED
      BY <1>2, <1>6, <2>1, KeptIs, SMTT(60)
  <1>9. PICK chosen : chosen = CHOOSE p \in catalog : p.id = Head(out)
    OBVIOUS
  <1>10. InjectFilterViolation(b, catalog) = IF out = <<>> THEN b ELSE Letting(b, chosen)
    <2>1. out = Without(b.retrieved, b.filtered)
      BY <1>1, <1>4
    <2> QED
      BY ONLY <1>9, <2>1 DEF InjectFilterViolation, Letting
  <1>11. CASE places = {}
    BY <1>1, <1>7, <1>8, <1>10, <1>11
  <1>12. CASE places # {}
    <2>1. PICK i \in places : Head(out) = u[i]
      <3>1. 1 \in DOMAIN out /\ Head(out) = out[1]
        BY <1>8, <1>12
      <3> QED
        BY <1>8, <3>1
    <2>2. PICK more \in catalog : more.id = u[i] /\ more.id \notin ToSet(v)
      <3>1. i \in DOMAIN retrieved /\ u[i] = retrieved[i].id /\ u[i] \notin ToSet(v)
        BY <1>2, <1>6
      <3>2. retrieved[i] \in catalog
        BY <3>1
      <3> QED
        BY <3>1, <3>2
    <2>3. chosen = more
      BY <1>9, <2>1, <2>2 DEF IsCatalog
    <2> QED
      BY <1>1, <1>7, <1>8, <1>10, <1>12, <2>2, <2>3
  <1> QED
    BY <1>11, <1>12

\* It is noise, or it violates what the case wants.
LEMMA ViolationNamed ==
    ASSUME NEW case, NEW catalog, NEW retrieved, NEW intent, NEW k, NEW slow \in BOOLEAN,
           NEW b, b = Answered(retrieved, intent, k, slow),
           Passing(case, catalog, retrieved, intent, k, b.products),
           ~Misread(case, b), ~Misfiltered(case, b), ~Missed(case, b),
           ~(ToSet(b.retrieved) \subseteq ToSet(b.filtered)),
           NEW a, a = InjectFilterViolation(b, catalog)
    PROVE  \E let \in catalog :
              /\ let.id = Last(Ids(a.products))
              /\ Classify(case, a) =
                     IF case.type = "catalog_quality" /\ case.expected = <<>> THEN "CATALOG_DATA_QUALITY"
                     ELSE IF Satisfies(let, case.constraints) THEN "RETRIEVAL_NOISE"
                     ELSE "FILTER_VIOLATION"
  <1>1. PICK s, filtered : s = b.products /\ filtered = Filter(retrieved, intent.constraints)
    OBVIOUS
  <1>2. /\ IsCatalog(catalog) /\ retrieved \in Seq(catalog) /\ IsInjective(retrieved)
        /\ s \in Seq(catalog) /\ s = Cut(filtered, k) /\ k \in Nat
        /\ Ids(s) = ExpectedIds(case)
        /\ \A i \in DOMAIN s : Violations(s[i], case.constraints) = {}
        /\ Golden(case)
    BY <1>1 DEF Passing
  <1>3. /\ filtered \in Seq(catalog)
        /\ \A i \in DOMAIN s : i \in DOMAIN filtered /\ s[i] = filtered[i]
    BY <1>1, <1>2, AnsweredIs
  <1>4. b.retrieved = Ids(retrieved) /\ b.filtered = Ids(filtered)
    BY <1>1 DEF Answered
  <1>5. PICK v : v = Ids(filtered)
    OBVIOUS
  <1>6. PICK more \in catalog :
           /\ more.id \notin ToSet(v)
           /\ InjectFilterViolation(b, catalog) = Letting(b, more)
    <2>1. /\ IsCatalog(catalog) /\ retrieved \in Seq(catalog) /\ filtered \in Seq(catalog)
          /\ b.retrieved = Ids(retrieved) /\ b.filtered = Ids(filtered)
      BY <1>2, <1>3, <1>4
    <2>2. IF ToSet(b.retrieved) \subseteq ToSet(b.filtered)
          THEN InjectFilterViolation(b, catalog) = b
          ELSE \E more \in catalog :
                  /\ more.id \notin ToSet(b.filtered)
                  /\ InjectFilterViolation(b, catalog) = Letting(b, more)
      BY ONLY <2>1, LetThrough
    <2> QED
      BY <1>4, <1>5, <2>2
  <1>7. PICK t : t = Append(s, more)
    OBVIOUS
  <1>8. PICK x : x = [b EXCEPT !.products = t]
    OBVIOUS
  <1>9. InjectFilterViolation(b, catalog) = x
    BY <1>1, <1>6, <1>7, <1>8 DEF Letting
  <1>10. /\ x.interpreted = b.interpreted /\ x.applied = b.applied /\ x.slow = slow
         /\ x.retrieved = b.retrieved /\ x.filtered = v /\ x.products = t
    BY <1>4, <1>5, <1>8 DEF Answered
  <1>11. ~Misread(case, x) /\ ~Misfiltered(case, x) /\ ~Missed(case, x)
    BY <1>10 DEF Misread, Misfiltered, Missed
  <1>12. PICK n \in Nat : n = Len(s) /\ DOMAIN s = 1 .. n
    BY <1>2
  <1>13. /\ t \in Seq(catalog) /\ DOMAIN t = 1 .. n + 1 /\ t[n + 1] = more /\ t # <<>>
         /\ \A j \in 1 .. n : t[j] = s[j]
    BY <1>2, <1>6, <1>7, <1>12
  <1>14. PICK w : w = Ids(t)
    OBVIOUS
  <1>15. /\ w \in Seq(Nat) /\ Len(w) = n + 1 /\ w[n + 1] = more.id /\ w # <<>>
         /\ \A y : y \in ToSet(w) <=> y = more.id \/ y \in ToSet(Ids(s))
    <2>1. /\ w \in Seq(Nat) /\ DOMAIN w = 1 .. n + 1 /\ w # <<>>
          /\ \A j \in DOMAIN t : w[j] = t[j].id
          /\ \A y : y \in ToSet(w) <=> \E j \in DOMAIN t : y = t[j].id
      <3>1. /\ Ids(t) \in Seq(Nat) /\ DOMAIN Ids(t) = DOMAIN t
            /\ \A j \in DOMAIN t : Ids(t)[j] = t[j].id
            /\ Ids(t) = <<>> <=> t = <<>>
            /\ \A y : y \in ToSet(Ids(t)) <=> \E j \in DOMAIN t : y = t[j].id
        <4>1. IsCatalog(catalog) /\ t \in Seq(catalog)
          BY <1>2, <1>13
        <4> QED
          BY ONLY <4>1, IdsAre
      <3> QED
        BY ONLY <1>13, <1>14, <3>1
    <2>2. \A y : y \in ToSet(Ids(s)) <=> \E j \in DOMAIN s : y = s[j].id
      BY <1>2, IdsAre
    <2>3. \A j \in 1 .. n + 1 : j = n + 1 \/ j \in 1 .. n
      BY <1>12
    <2>4. n + 1 \in 1 .. n + 1 /\ 1 .. n \subseteq 1 .. n + 1
      BY <1>12
    <2>5. \A y : y \in ToSet(w) <=> y = more.id \/ y \in ToSet(Ids(s))
      <3> SUFFICES ASSUME NEW y
                   PROVE  y \in ToSet(w) <=> y = more.id \/ y \in ToSet(Ids(s))
        OBVIOUS
      <3>1. y \in ToSet(w) <=> \E j \in 1 .. n + 1 : y = t[j].id
        BY <1>13, <2>1
      <3>2. y \in ToSet(Ids(s)) <=> \E j \in 1 .. n : y = s[j].id
        BY <1>12, <2>2
      <3> QED
        BY <1>13, <2>3, <2>4, <3>1, <3>2
    <2>6. Len(w) = n + 1 /\ w[n + 1] = more.id
      BY <1>13, <2>1, <2>4
    <2> QED
      BY <2>1, <2>5, <2>6
  <1>16. more.id = Last(Ids(x.products))
    BY <1>10, <1>14, <1>15 DEF Last
  <1>17. ToSet(ExpectedIds(case)) \subseteq ToSet(v)
    <2>1. \A y : y \in ToSet(Ids(s)) <=> \E j \in DOMAIN s : y = s[j].id
      BY <1>2, IdsAre
    <2>2. \A y : y \in ToSet(v) <=> \E j \in DOMAIN filtered : y = filtered[j].id
      BY <1>2, <1>3, <1>5, IdsAre
    <2> QED
      BY <1>2, <1>3, <2>1, <2>2
  <1>18. Gaping(case, x) <=> case.type = "catalog_quality" /\ case.expected = <<>>
    <2>1. ExpectedIds(case) = <<>> <=> case.expected = <<>>
      <3>1. case.expected \in Seq([id : Nat, label : DOMAIN Grades])
        BY <1>2 DEF Golden
      <3> QED
        BY <3>1 DEF ExpectedIds
    <2> QED
      BY <1>10, <1>14, <1>15, <2>1 DEF Gaping
  <1>19. Violated(case, x) <=> ~Satisfies(more, case.constraints)
    <2>1. Violated(case, x) <=> \E j \in DOMAIN t : Violations(t[j], case.constraints) # {}
      BY <1>10, <1>13, SatisfactionIs, ZenonT(60) DEF Violated
    <2>2. \A j \in 1 .. n + 1 : j = n + 1 \/ (j \in 1 .. n /\ j \in DOMAIN s)
      BY <1>12
    <2>3. n + 1 \in 1 .. n + 1
      BY <1>12
    <2>4. Violated(case, x) <=> Violations(more, case.constraints) # {}
      BY <1>2, <1>13, <2>1, <2>2, <2>3
    <2>5. more.price \in Nat
      BY <1>2, <1>6 DEF IsCatalog
    <2>6. Violations(more, case.constraints) = {} <=> Satisfies(more, case.constraints)
      BY <1>2, <2>5, ViolationsAre DEF Golden
    <2> QED
      BY <2>4, <2>6
  <1>20. more.id \notin ToSet(ExpectedIds(case)) /\ more.id \in ToSet(w)
    BY <1>6, <1>15, <1>17
  <1>21. ~Misranked(case, x) /\ Cluttered(case, x)
    BY <1>10, <1>14, <1>17, <1>20 DEF Misranked, Cluttered
  <1> QED
    BY <1>6, <1>9, <1>11, <1>16, <1>18, <1>19, <1>21, ClassifyIs

\* What is found of a fault in a case.
CalledByName(mode, case, healthy, result, catalog) ==
    IF Hidden(mode, case, healthy)
    THEN /\ result.failure \in {"NONE", "LATENCY_FAILURE"}
         /\ mode = "latency_regression" => result.failure = "LATENCY_FAILURE"
    ELSE result.failure = NameOf(mode, case, result, catalog)

\* Whatever the fault is, in a case that would pass it is called by its name.
LEMMA FaultNamed ==
    ASSUME NEW case, Golden(case), NEW catalog, IsCatalog(catalog), NEW k \in Nat,
           NEW mode \in Modes, NEW slow \in BOOLEAN,
           NEW healthy, healthy = Search(catalog, case.query, k, FALSE),
           CaseResult(case, healthy, k).passed,
           NEW result, result = CaseResult(case, Served(mode, catalog, case.query, k, slow), k)
    PROVE  CalledByName(mode, case, healthy, result, catalog)
  <1> SUFFICES IF Hidden(mode, case, healthy)
               THEN /\ result.failure \in {"NONE", "LATENCY_FAILURE"}
                    /\ mode = "latency_regression" => result.failure = "LATENCY_FAILURE"
               ELSE result.failure = NameOf(mode, case, result, catalog)
    BY DEF CalledByName
  <1>1. PICK retrieved \in Seq(catalog) :
           /\ IsInjective(retrieved)
           /\ \A quick : Search(catalog, case.query, k, quick)
                           = Answered(retrieved, parse_query(case.query), k, quick)
    <2>1. case.query \in Seq(Words)
      BY DEF Golden
    <2>2. PICK query \in Seq(Words) : query = case.query
      BY <2>1
    <2>3. PICK retrieved \in Seq(catalog) :
             /\ IsInjective(retrieved)
             /\ \A quick : Search(catalog, query, k, quick)
                            = Answered(retrieved, parse_query(query), k, quick)
      BY SearchIs
    <2> QED
      BY <2>2, <2>3
  <1>2. PICK intent : intent = parse_query(case.query)
    OBVIOUS
  <1>3. PICK b : b = Answered(retrieved, intent, k, slow)
    OBVIOUS
  <1>4. healthy = Answered(retrieved, intent, k, FALSE)
    BY <1>1, <1>2
  <1>5. /\ Passing(case, catalog, retrieved, intent, k, b.products)
        /\ ~Misread(case, b) /\ ~Misfiltered(case, b) /\ ~Violated(case, b) /\ ~Missed(case, b)
        /\ ~Gaping(case, b) /\ ~Misranked(case, b) /\ ~Cluttered(case, b)
    BY <1>1, <1>3, <1>4, PassingIs
  <1>6. PICK x : x = Injected(mode, b, catalog)
    OBVIOUS
  <1>7. result.failure = Classify(case, x) /\ result.actual = Ids(x.products)
    BY <1>1, <1>2, <1>3, <1>6 DEF Served, CaseResult
  <1>8. b.slow = slow
    BY <1>3 DEF Answered
  <1>9. CASE mode = "healthy"
    <2>1. x = b /\ Hidden(mode, case, healthy)
      BY <1>6, <1>9 DEF Injected, Hidden
    <2>2. Classify(case, b) \in {"NONE", "LATENCY_FAILURE"}
      BY <1>5, Harmless
    <2> QED
      BY <1>7, <1>9, <2>1, <2>2
  <1>10. CASE mode = "latency_regression"
    <2>1. x = [b EXCEPT !.slow = TRUE] /\ Hidden(mode, case, healthy)
      BY <1>6, <1>10 DEF Injected, Hidden
    <2>2. /\ x.interpreted = b.interpreted /\ x.applied = b.applied /\ x.slow = TRUE
          /\ x.retrieved = b.retrieved /\ x.filtered = b.filtered /\ x.products = b.products
      BY <1>3, <2>1 DEF Answered
    <2>3. /\ ~Misread(case, x) /\ ~Misfiltered(case, x) /\ ~Violated(case, x) /\ ~Missed(case, x)
          /\ ~Gaping(case, x) /\ ~Misranked(case, x) /\ ~Cluttered(case, x)
      BY <1>5, <2>2 DEF Misread, Misfiltered, Violated, Missed, Gaping, Misranked, Cluttered
    <2>4. Classify(case, x) = "LATENCY_FAILURE"
      BY <2>2, <2>3, Harmless
    <2> QED
      BY <1>7, <2>1, <2>4
  <1>11. CASE mode = "filter_broken"
    <2>1. Hidden(mode, case, healthy) <=> ToSet(b.retrieved) \subseteq ToSet(b.filtered)
      <3>1. healthy.retrieved = b.retrieved /\ healthy.filtered = b.filtered
        BY ONLY <1>3, <1>4 DEF Answered
      <3> QED
        BY <1>11, <3>1 DEF Hidden
    <2>2. x = InjectFilterViolation(b, catalog)
      BY <1>6, <1>11 DEF Injected
    <2>3. CASE Hidden(mode, case, healthy)
      <3>1. x = b
        <4>1. Filter(retrieved, intent.constraints) \in Seq(catalog)
          BY <1>1, AnsweredIs
        <4>2. PICK filtered \in Seq(catalog) : b.filtered = Ids(filtered)
          BY <1>3, <4>1 DEF Answered
        <4>3. b.retrieved = Ids(retrieved)
          BY <1>3 DEF Answered
        <4> QED
          BY <1>1, <2>1, <2>2, <2>3, <4>2, <4>3, LetThrough
      <3>2. Classify(case, b) \in {"NONE", "LATENCY_FAILURE"}
        BY <1>5, Harmless
      <3> QED
        BY <1>7, <1>11, <2>3, <3>1, <3>2
    <2>4. CASE ~Hidden(mode, case, healthy)
      <3>1. PICK let \in catalog :
               /\ let.id = Last(Ids(x.products))
               /\ Classify(case, x) =
                      IF case.type = "catalog_quality" /\ case.expected = <<>>
                      THEN "CATALOG_DATA_QUALITY"
                      ELSE IF Satisfies(let, case.constraints) THEN "RETRIEVAL_NOISE"
                      ELSE "FILTER_VIOLATION"
        <4>1. ~(ToSet(b.retrieved) \subseteq ToSet(b.filtered))
          BY <2>1, <2>4
        <4>2. ~Misread(case, b) /\ ~Misfiltered(case, b) /\ ~Missed(case, b)
          BY <1>5
        <4>3. Passing(case, catalog, retrieved, intent, k, b.products)
          BY <1>5
        <4>4. IsCatalog(catalog)
          OBVIOUS
        <4> QED
          BY ONLY <1>3, <2>2, <4>1, <4>2, <4>3, slow \in BOOLEAN, ViolationNamed
      <3>2. (CHOOSE p \in catalog : p.id = Last(result.actual)) = let
        BY <1>7, <3>1 DEF IsCatalog
      <3>3. NameOf(mode, case, result, catalog) =
                IF case.type = "catalog_quality" /\ case.expected = <<>>
                THEN "CATALOG_DATA_QUALITY"
                ELSE IF Satisfies(let, case.constraints) THEN "RETRIEVAL_NOISE"
                ELSE "FILTER_VIOLATION"
        BY <1>11, <3>2 DEF NameOf
      <3> QED
        BY <1>7, <2>4, <3>1, <3>3
    <2> QED
      BY <2>3, <2>4
  <1>12. CASE mode = "retrieval_broken"
    <2>1. Hidden(mode, case, healthy) <=> case.expected = <<>>
      BY <1>12 DEF Hidden
    <2>2. x = InjectRetrievalMiss(b)
      BY <1>6, <1>12 DEF Injected
    <2>3. NameOf(mode, case, result, catalog) = "RETRIEVAL_MISS"
      BY <1>12 DEF NameOf
    <2>4. Classify(case, x) = IF case.expected # <<>> THEN "RETRIEVAL_MISS"
                              ELSE IF slow THEN "LATENCY_FAILURE" ELSE "NONE"
      BY <1>3, <1>5, <2>2, MissNamed
    <2> QED
      BY <1>7, <1>12, <2>1, <2>3, <2>4
  <1>13. CASE mode = "ranking_broken"
    <2>1. Hidden(mode, case, healthy) <=> Len(case.expected) < 2
      BY <1>13 DEF Hidden
    <2>2. x = InjectRankingFailure(b)
      BY <1>6, <1>13 DEF Injected
    <2>3. NameOf(mode, case, result, catalog) = "RANKING_FAILURE"
      BY <1>13 DEF NameOf
    <2>4. Len(b.products) = Len(case.expected) /\ Len(case.expected) \in Nat
      <3>1. PICK s : s = b.products
        OBVIOUS
      <3>2. s \in Seq(catalog) /\ Ids(s) = ExpectedIds(case) /\ Len(Ids(s)) = Len(s)
            /\ case.expected \in Seq([id : Nat, label : DOMAIN Grades])
        BY <1>5, <3>1, IdsAre DEF Passing, Golden
      <3>3. Len(ExpectedIds(case)) = Len(case.expected)
        BY <3>2 DEF ExpectedIds
      <3> QED
        BY <3>1, <3>2, <3>3
    <2>5. CASE Len(case.expected) < 2
      <3>1. x = b
        BY <2>2, <2>4, <2>5 DEF InjectRankingFailure
      <3>2. Classify(case, b) \in {"NONE", "LATENCY_FAILURE"}
        BY <1>5, Harmless
      <3> QED
        BY <1>7, <1>13, <2>1, <2>5, <3>1, <3>2
    <2>6. CASE ~(Len(case.expected) < 2)
      <3>1. Len(b.products) >= 2
        BY <2>4, <2>6
      <3>2. Classify(case, x) = "RANKING_FAILURE"
        BY <1>3, <1>5, <2>2, <3>1, RankingNamed
      <3> QED
        BY <1>7, <2>1, <2>3, <2>6, <3>2
    <2> QED
      BY <2>5, <2>6
  <1>14. CASE mode = "query_parser_regression"
    <2>1. healthy.interpreted = intent
      BY ONLY <1>4 DEF Answered
    <2>2. Hidden(mode, case, healthy) <=>
              ~\E f \in Fields : Contains(Lost(intent.constraints), f) /\ case.constraints[f] # Unset
      BY <1>14, <2>1 DEF Hidden
    <2>3. x = InjectParserRegression(b)
      BY <1>6, <1>14 DEF Injected
    <2>4. NameOf(mode, case, result, catalog) = "QUERY_UNDERSTANDING"
      BY <1>14 DEF NameOf
    <2>5. Classify(case, x) =
              IF \E f \in Fields : Contains(Lost(intent.constraints), f) /\ case.constraints[f] # Unset
              THEN "QUERY_UNDERSTANDING"
              ELSE IF slow THEN "LATENCY_FAILURE" ELSE "NONE"
      BY <1>2, <1>3, <1>5, <2>3, RegressionNamed
    <2> QED
      BY <1>7, <1>14, <2>2, <2>4, <2>5
  <1> QED
    BY <1>9, <1>10, <1>11, <1>12, <1>13, <1>14 DEF Modes

-----------------------------------------------------------------------------
(* The metrics *)

\* A sum of what counts once, twice and four times.
LEMMA SumLayers ==
    ASSUME NEW S, IsFiniteSet(S), NEW w, NEW a, NEW b, NEW c,
           \A x \in S : a[x] \in Nat /\ b[x] \in Nat /\ c[x] \in Nat,
           \A x \in S : w[x] = a[x] + 2 * b[x] + 4 * c[x]
    PROVE  SumFunctionOnSet(w, S) = SumFunctionOnSet(a, S) + 2 * SumFunctionOnSet(b, S)
                                      + 4 * SumFunctionOnSet(c, S)
  <1> DEFINE Layered == {n \in Nat : \A s \in SUBSET S : Cardinality(s) = n =>
                           SumFunctionOnSet(w, s) = SumFunctionOnSet(a, s)
                               + 2 * SumFunctionOnSet(b, s) + 4 * SumFunctionOnSet(c, s)}
  <1>1. \A s \in SUBSET S : IsFiniteSet(s) /\ Cardinality(s) \in Nat /\ (Cardinality(s) = 0 <=> s = {})
    BY FS_Subset, FS_CardinalityType, FS_EmptySet
  <1>2. 0 \in Layered
    <2>1. ASSUME NEW s \in SUBSET S, Cardinality(s) = 0
          PROVE  SumFunctionOnSet(w, s) = SumFunctionOnSet(a, s)
                     + 2 * SumFunctionOnSet(b, s) + 4 * SumFunctionOnSet(c, s)
      <3>1. s = {}
        BY <1>1, <2>1
      <3>2. /\ SumFunctionOnSet(w, s) = 0 /\ SumFunctionOnSet(a, s) = 0
            /\ SumFunctionOnSet(b, s) = 0 /\ SumFunctionOnSet(c, s) = 0
        BY <3>1, SumOfNone
      <3> QED
        BY <3>2
    <2> QED
      BY <2>1
  <1>3. ASSUME NEW n \in Nat, n \in Layered
        PROVE  n + 1 \in Layered
    <2>1. ASSUME NEW s \in SUBSET S, Cardinality(s) = n + 1
          PROVE  SumFunctionOnSet(w, s) = SumFunctionOnSet(a, s)
                     + 2 * SumFunctionOnSet(b, s) + 4 * SumFunctionOnSet(c, s)
      <3>1. s # {}
        BY <1>1, <2>1
      <3>2. PICK p : p = Pick(s) /\ p \in s
        BY <3>1 DEF Pick
      <3>3. PICK t : t = s \ {p}
        OBVIOUS
      <3>4. t \in SUBSET S /\ Cardinality(t) = n
        <4>1. Cardinality(t) = Cardinality(s) - 1
          BY <1>1, <3>2, <3>3, FS_RemoveElement
        <4> QED
          BY <2>1, <3>3, <4>1
      <3>5. SumFunctionOnSet(w, t) = SumFunctionOnSet(a, t)
                + 2 * SumFunctionOnSet(b, t) + 4 * SumFunctionOnSet(c, t)
        BY <1>3, <3>4
      <3>6. /\ SumFunctionOnSet(w, s) = w[p] + SumFunctionOnSet(w, t)
            /\ SumFunctionOnSet(a, s) = a[p] + SumFunctionOnSet(a, t)
            /\ SumFunctionOnSet(b, s) = b[p] + SumFunctionOnSet(b, t)
            /\ SumFunctionOnSet(c, s) = c[p] + SumFunctionOnSet(c, t)
        BY <3>1, <3>2, <3>3, SumsRecur
      <3>7. /\ SumFunctionOnSet(a, t) \in Nat /\ SumFunctionOnSet(b, t) \in Nat
            /\ SumFunctionOnSet(c, t) \in Nat
        BY <3>4, SumIsNat
      <3>8. w[p] = a[p] + 2 * b[p] + 4 * c[p] /\ a[p] \in Nat /\ b[p] \in Nat /\ c[p] \in Nat
        BY <3>2
      <3> QED
        BY ONLY <3>5, <3>6, <3>7, <3>8
    <2> QED
      BY <2>1
  <1>4. Nat \subseteq Layered
    <2> HIDE DEF Layered
    <2> QED
      BY <1>2, <1>3, SetInduction
  <1> QED
    BY <1>1, <1>4

\* A sum of what is 0 but on a part.
LEMMA SumOnPart ==
    ASSUME NEW S, IsFiniteSet(S), NEW A \in SUBSET S, NEW d, \A x \in S : d[x] \in Nat,
           NEW w, \A x \in S : w[x] = IF x \in A THEN d[x] ELSE 0
    PROVE  SumFunctionOnSet(w, S) = SumFunctionOnSet(d, A)
  <1> DEFINE Parted == {n \in Nat : \A s \in SUBSET S : Cardinality(s) = n =>
                           SumFunctionOnSet(w, s) = SumFunctionOnSet(d, s \intersect A)}
  <1>1. \A s \in SUBSET S : IsFiniteSet(s) /\ Cardinality(s) \in Nat /\ (Cardinality(s) = 0 <=> s = {})
    BY FS_Subset, FS_CardinalityType, FS_EmptySet
  <1>2. 0 \in Parted
    <2>1. ASSUME NEW s \in SUBSET S, Cardinality(s) = 0
          PROVE  SumFunctionOnSet(w, s) = SumFunctionOnSet(d, s \intersect A)
      <3>1. s = {} /\ s \intersect A = {}
        BY <1>1, <2>1
      <3> QED
        BY <3>1, SumOfNone
    <2> QED
      BY <2>1
  <1>3. ASSUME NEW n \in Nat, n \in Parted
        PROVE  n + 1 \in Parted
    <2>1. ASSUME NEW s \in SUBSET S, Cardinality(s) = n + 1
          PROVE  SumFunctionOnSet(w, s) = SumFunctionOnSet(d, s \intersect A)
      <3>1. s # {}
        BY <1>1, <2>1
      <3>2. PICK p : p = Pick(s) /\ p \in s
        BY <3>1 DEF Pick
      <3>3. PICK t : t = s \ {p}
        OBVIOUS
      <3>4. t \in SUBSET S /\ Cardinality(t) = n
        <4>1. Cardinality(t) = Cardinality(s) - 1
          BY <1>1, <3>2, <3>3, FS_RemoveElement
        <4> QED
          BY <2>1, <3>3, <4>1
      <3>5. SumFunctionOnSet(w, t) = SumFunctionOnSet(d, t \intersect A)
        BY <1>3, <3>4
      <3>6. SumFunctionOnSet(w, s) = w[p] + SumFunctionOnSet(w, t)
        BY <3>1, <3>2, <3>3, SumsRecur
      <3>7. PICK u, v : u = s \intersect A /\ v = t \intersect A
        OBVIOUS
      <3>8. u \in SUBSET S /\ v \in SUBSET S
        BY <3>4, <3>7
      <3>9. SumFunctionOnSet(d, v) \in Nat
        BY <3>8, SumIsNat
      <3>10. CASE p \in A
        <4>1. p \in u /\ v = u \ {p}
          BY <3>2, <3>3, <3>7, <3>10
        <4>2. IsFiniteSet(u) /\ \A x \in u : d[x] \in Nat
          BY <1>1, <3>8
        <4>3. SumFunctionOnSet(d, u) = d[p] + SumFunctionOnSet(d, v)
          BY <4>1, <4>2, SumRemove
        <4>4. w[p] = d[p]
          BY <3>2, <3>10
        <4> QED
          BY <3>5, <3>6, <3>7, <4>3, <4>4
      <3>11. CASE p \notin A
        <4>1. u = v /\ w[p] = 0
          BY <3>2, <3>3, <3>7, <3>11
        <4> QED
          BY ONLY <3>5, <3>6, <3>7, <3>9, <4>1
      <3> QED
        BY <3>10, <3>11
    <2> QED
      BY <2>1
  <1>4. Nat \subseteq Parted
    <2> HIDE DEF Parted
    <2> QED
      BY <1>2, <1>3, SetInduction
  <1>5. SumFunctionOnSet(w, S) = SumFunctionOnSet(d, S \intersect A)
    BY <1>1, <1>4
  <1>6. S \intersect A = A
    OBVIOUS
  <1> QED
    BY <1>5, <1>6

\* Of a decreasing sequence no n elements have more than the first n.
LEMMA FirstAreMost ==
    ASSUME NEW d \in Seq(Nat), \A i, j \in DOMAIN d : i <= j => d[j] <= d[i],
           NEW n \in Nat, n <= Len(d), NEW A \in SUBSET DOMAIN d, Cardinality(A) <= n
    PROVE  SumFunctionOnSet(d, A) <= SumFunctionOnSet(d, 1 .. n)
  <1> DEFINE Most == {m \in Nat : m <= Len(d) =>
                        \A s \in SUBSET DOMAIN d : Cardinality(s) <= m =>
                            SumFunctionOnSet(d, s) <= SumFunctionOnSet(d, 1 .. m)}
  <1>1. PICK l \in Nat : l = Len(d) /\ DOMAIN d = 1 .. l
    OBVIOUS
  <1>2. IsFiniteSet(1 .. l)
    BY FS_Interval
  <1>3. \A s \in SUBSET (1 .. l) :
           /\ IsFiniteSet(s) /\ Cardinality(s) \in Nat /\ (Cardinality(s) = 0 <=> s = {})
           /\ \A x \in s : d[x] \in Nat
    <2>1. \A x \in 1 .. l : d[x] \in Nat
      BY <1>1
    <2>2. \A s \in SUBSET (1 .. l) : IsFiniteSet(s)
      BY <1>2, FS_Subset
    <2> QED
      BY <2>1, <2>2, FS_CardinalityType, FS_EmptySet
  <1>4. \A s \in SUBSET (1 .. l) : SumFunctionOnSet(d, s) \in Nat
    BY <1>2, <1>3, SumIsNat
  <1>5. \A s \in SUBSET (1 .. l) : \A x \in s :
           SumFunctionOnSet(d, s) = d[x] + SumFunctionOnSet(d, s \ {x})
    BY <1>3, SumRemove
  <1>6. 0 \in Most
    <2>1. ASSUME NEW s \in SUBSET DOMAIN d, Cardinality(s) <= 0
          PROVE  SumFunctionOnSet(d, s) <= SumFunctionOnSet(d, 1 .. 0)
      <3>1. s = {}
        BY <1>1, <1>3, <2>1
      <3>2. 1 .. 0 = {}
        OBVIOUS
      <3>3. SumFunctionOnSet(d, s) = 0
        BY <3>1, SumOfNone
      <3> QED
        BY <3>1, <3>2, <3>3
    <2> QED
      BY <2>1
  <1>7. ASSUME NEW m \in Nat, m \in Most
        PROVE  m + 1 \in Most
    <2>1. ASSUME m + 1 <= l, NEW s \in SUBSET (1 .. l), Cardinality(s) <= m + 1
          PROVE  SumFunctionOnSet(d, s) <= SumFunctionOnSet(d, 1 .. m + 1)
      <3>1. 1 .. m \in SUBSET (1 .. l) /\ 1 .. m + 1 \in SUBSET (1 .. l) /\ m + 1 \in 1 .. m + 1
            /\ (1 .. m + 1) \ {m + 1} = 1 .. m
        BY <2>1
      <3>2. SumFunctionOnSet(d, 1 .. m + 1) = d[m + 1] + SumFunctionOnSet(d, 1 .. m)
        BY <1>5, <3>1
      <3>3. d[m + 1] \in Nat /\ SumFunctionOnSet(d, 1 .. m) \in Nat /\ SumFunctionOnSet(d, s) \in Nat
        BY <1>3, <1>4, <3>1
      <3>4. \A t \in SUBSET (1 .. l) : Cardinality(t) <= m =>
               SumFunctionOnSet(d, t) <= SumFunctionOnSet(d, 1 .. m)
        <4>1. m <= Len(d)
          BY <1>1, <2>1
        <4> QED
          BY <1>1, <1>7, <4>1
      <3>5. CASE s \subseteq 1 .. m
        <4>1. Cardinality(1 .. m) = m /\ IsFiniteSet(1 .. m)
          BY FS_Interval
        <4>2. Cardinality(s) <= m
          BY <3>5, <4>1, FS_Subset
        <4>3. SumFunctionOnSet(d, s) <= SumFunctionOnSet(d, 1 .. m)
          BY <3>4, <4>2
        <4> QED
          BY ONLY <3>2, <3>3, <4>3
      <3>6. CASE ~(s \subseteq 1 .. m)
        <4>1. PICK x \in s : x \notin 1 .. m
          BY <3>6
        <4>2. x \in 1 .. l /\ x \in Nat /\ m + 1 <= x /\ m + 1 \in 1 .. l
          BY <2>1, <4>1
        <4>3. d[x] <= d[m + 1] /\ d[x] \in Nat
          BY <1>1, <1>3, <4>2
        <4>4. PICK t : t = s \ {x}
          OBVIOUS
        <4>5. t \in SUBSET (1 .. l) /\ Cardinality(t) <= m
          <5>1. Cardinality(t) = Cardinality(s) - 1
            BY <1>3, <4>1, <4>4, FS_RemoveElement
          <5>2. Cardinality(s) \in Nat
            BY <1>3
          <5> QED
            BY <2>1, <4>4, <5>1, <5>2
        <4>6. SumFunctionOnSet(d, t) <= SumFunctionOnSet(d, 1 .. m) /\ SumFunctionOnSet(d, t) \in Nat
          BY <1>4, <3>4, <4>5
        <4>7. SumFunctionOnSet(d, s) = d[x] + SumFunctionOnSet(d, t)
          BY <1>5, <4>1, <4>4
        <4> QED
          BY ONLY <3>2, <3>3, <4>3, <4>6, <4>7, SMTT(60)
      <3> QED
        BY <3>5, <3>6
    <2> QED
      BY <1>1, <2>1
  <1>8. Nat \subseteq Most
    <2> HIDE DEF Most
    <2> QED
      BY <1>6, <1>7, SetInduction
  <1> QED
    BY <1>8

\* A fraction is no unknown value, and is 0 or 1 when its terms say so.
LEMMA RatioIs ==
    ASSUME NEW m \in Nat, NEW n \in Nat
    PROVE  /\ Ratio(m, n) # Unset /\ Ratio(m, n)[1] = m /\ Ratio(m, n)[2] = n
           /\ IsZero(Ratio(m, n)) <=> m = 0
           /\ IsOne(Ratio(m, n)) <=> m = n
  <1>1. PICK v : v = <<m, n>>
    OBVIOUS
  <1>2. v \in Nat \X Nat /\ v[1] = m /\ v[2] = n
    BY <1>1
  <1>3. v # Unset
    BY <1>2, UnsetAssumption
  <1>4. Ratio(m, n) = v
    BY <1>1 DEF Ratio
  <1>5. IsZero(v) <=> m = 0
    BY <1>2, <1>3 DEF IsZero
  <1>6. IsOne(v) <=> m = n
    BY <1>2, <1>3 DEF IsOne
  <1> QED
    BY ONLY <1>2, <1>3, <1>4, <1>5, <1>6

\* An unknown value says neither that something is missing nor that something is wrong.
LEMMA UnknownIsGood == IsZero(Unset) /\ IsOne(Unset)
  BY DEF IsZero, IsOne

\* The greater of two numbers.
LEMMA GreaterOf ==
    ASSUME NEW m \in Nat, NEW n \in Nat
    PROVE  Max({m, n}) = IF m <= n THEN n ELSE m
  <1>1. PICK g \in {m, n} : g = (IF m <= n THEN n ELSE m) /\ \A y \in {m, n} : g >= y
    OBVIOUS
  <1>2. \A x \in {m, n} : (\A y \in {m, n} : x >= y) => x = g
    BY <1>1
  <1>3. Max({m, n}) = g
    BY <1>1, <1>2 DEF Max
  <1> QED
    BY <1>1, <1>3

\* How many places of a sequence there are, and what those are whose element is in a set.
LEMMA CountIs ==
    ASSUME NEW s \in Seq(Nat), NEW R
    PROVE  /\ Count(s, R) \in 0 .. Len(s)
           /\ Count(s, R) = Len(s) <=> \A i \in DOMAIN s : s[i] \in R
  <1>1. PICK n \in Nat : n = Len(s) /\ DOMAIN s = 1 .. n
    OBVIOUS
  <1>2. PICK c : c = {i \in 1 .. n : s[i] \in R}
    OBVIOUS
  <1>3. IsFiniteSet(1 .. n) /\ Cardinality(1 .. n) = n
    BY FS_Interval
  <1>4. c \in SUBSET (1 .. n)
    BY <1>2
  <1>5. IsFiniteSet(c) /\ Cardinality(c) <= n /\ (Cardinality(c) = n => c = 1 .. n)
    BY <1>3, <1>4, FS_Subset
  <1>6. Cardinality(c) \in Nat
    BY <1>5, FS_CardinalityType
  <1>7. Count(s, R) = Cardinality(c)
    BY <1>1, <1>2 DEF Count
  <1>8. Cardinality(c) = n <=> c = 1 .. n
    BY <1>3, <1>5
  <1>9. c = 1 .. n <=> \A i \in 1 .. n : s[i] \in R
    BY <1>2
  <1> QED
    BY <1>1, <1>5, <1>6, <1>7, <1>8, <1>9

\* The rank of an id: the first place that has it, or one behind all.
RankOf(actual, expected, id) ==
    Min({i \in DOMAIN actual : actual[i] = id} \union {Max({Len(actual), Len(expected)}) + 1})

\* No expected product is displaced when each is at its expected rank or before it.
LEMMA DisplacementIs ==
    ASSUME NEW actual \in Seq(Nat), NEW expected \in Seq(Nat)
    PROVE  IsZero(Displacement(actual, expected)) <=>
               \A i \in DOMAIN expected : \E j \in DOMAIN actual : j <= i /\ actual[j] = expected[i]
  <1>1. PICK m, n \in Nat : /\ m = Len(actual) /\ DOMAIN actual = 1 .. m
                            /\ n = Len(expected) /\ DOMAIN expected = 1 .. n
    OBVIOUS
  <1>2. PICK last \in Nat : last = Max({m, n}) /\ m <= last /\ n <= last
    BY GreaterOf
  <1>3. PICK rank : rank = [i \in 1 .. n |-> RankOf(actual, expected, expected[i])]
    OBVIOUS
  <1>4. ASSUME NEW i \in 1 .. n
        PROVE  /\ rank[i] \in Nat
               /\ rank[i] <= i <=> \E j \in DOMAIN actual : j <= i /\ actual[j] = expected[i]
    <2>1. PICK P : P = {j \in 1 .. m : actual[j] = expected[i]} \union {last + 1}
      OBVIOUS
    <2>2. rank[i] = Min(P)
      BY <1>1, <1>2, <1>3, <2>1 DEF RankOf
    <2>3. P \in SUBSET Nat /\ P # {}
      BY <2>1
    <2>4. Min(P) \in P /\ \A j \in P : Min(P) <= j
      BY <2>3, LeastOf
    <2>5. i < last + 1
      BY <1>2
    <2>6. ASSUME Min(P) <= i
          PROVE  \E j \in 1 .. m : j <= i /\ actual[j] = expected[i]
      <3>1. Min(P) # last + 1
        BY <2>3, <2>4, <2>5, <2>6
      <3> QED
        BY <2>1, <2>4, <2>6, <3>1
    <2>7. ASSUME NEW j \in 1 .. m, j <= i, actual[j] = expected[i]
          PROVE  Min(P) <= i
      <3>1. j \in P
        BY <2>1, <2>7
      <3>2. Min(P) <= j /\ Min(P) \in Nat
        BY <2>3, <2>4, <3>1
      <3> QED
        BY <2>7, <3>2
    <2> QED
      BY <1>1, <2>2, <2>3, <2>4, <2>6, <2>7
  <1>5. PICK w : w = [i \in 1 .. n |-> Max({rank[i], i}) - i]
    OBVIOUS
  <1>6. \A i \in 1 .. n : w[i] \in Nat /\ (w[i] = 0 <=> rank[i] <= i)
    <2> SUFFICES ASSUME NEW i \in 1 .. n
                 PROVE  w[i] \in Nat /\ (w[i] = 0 <=> rank[i] <= i)
      OBVIOUS
    <2>1. rank[i] \in Nat /\ i \in Nat
      BY <1>4
    <2>2. Max({rank[i], i}) = IF rank[i] <= i THEN i ELSE rank[i]
      BY <2>1, GreaterOf
    <2>3. w[i] = (IF rank[i] <= i THEN i ELSE rank[i]) - i
      BY <1>5, <2>2
    <2> QED
      BY <2>1, <2>3
  <1>7. IsFiniteSet(1 .. n)
    BY FS_Interval
  <1>8. SumFunctionOnSet(w, 1 .. n) \in Nat /\ (SumFunctionOnSet(w, 1 .. n) = 0 <=> \A i \in 1 .. n : w[i] = 0)
    BY <1>6, <1>7, SumIsNat, SumIsZero
  <1>9. Displacement(actual, expected) =
            IF expected = <<>> THEN Unset ELSE Ratio(SumFunctionOnSet(w, 1 .. n), n)
    <2>1. w = [i \in 1 .. n |->
                 Max({Min({j \in DOMAIN actual : actual[j] = expected[i]}
                              \union {Max({Len(actual), Len(expected)}) + 1}), i}) - i]
      BY <1>3, <1>5 DEF RankOf
    <2>2. DOMAIN w = 1 .. n
      BY <1>5
    <2>3. SumFunction(w) = SumFunctionOnSet(w, 1 .. n)
      BY <2>2 DEF SumFunction, SumFunctionOnSet, FoldFunction
    <2> QED
      BY <1>1, <2>1, <2>3 DEF Displacement
  <1>10. CASE expected = <<>>
    BY <1>9, <1>10, UnknownIsGood
  <1>11. CASE expected # <<>>
    <2>1. IsZero(Displacement(actual, expected)) <=> SumFunctionOnSet(w, 1 .. n) = 0
      BY <1>8, <1>9, <1>11, RatioIs
    <2> QED
      BY <1>1, <1>4, <1>6, <1>8, <2>1
  <1> QED
    BY <1>10, <1>11

\* Nothing is false when all that is found is relevant.
LEMMA FalseIs ==
    ASSUME NEW actual \in Seq(Nat), NEW R
    PROVE  IsZero(false_positive_rate(actual, R)) <=> \A i \in DOMAIN actual : actual[i] \in R
  <1>1. PICK n \in Nat : n = Len(actual) /\ DOMAIN actual = 1 .. n
    OBVIOUS
  <1>2. PICK c \in Nat : c = Count(actual, R) /\ c <= n /\ (c = n <=> \A i \in DOMAIN actual : actual[i] \in R)
    BY <1>1, CountIs
  <1>3. CASE actual = <<>>
    BY <1>1, <1>3, UnknownIsGood DEF false_positive_rate
  <1>4. CASE actual # <<>>
    <2>1. false_positive_rate(actual, R) = Ratio(n - c, n)
      BY <1>1, <1>2, <1>4 DEF false_positive_rate
    <2>2. n - c \in Nat /\ (n - c = 0 <=> c = n)
      BY <1>2
    <2> QED
      BY <1>2, <2>1, <2>2, RatioIs
  <1> QED
    BY <1>3, <1>4

\* Nothing is missing when all that is relevant is found.
LEMMA MissingIs ==
    ASSUME NEW actual, NEW R, IsFiniteSet(R)
    PROVE  IsZero(false_negative_rate(actual, R)) <=> R \subseteq ToSet(actual)
  <1>1. CASE R = {}
    BY <1>1, UnknownIsGood DEF false_negative_rate
  <1>2. CASE R # {}
    <2>1. PICK m : m = R \ ToSet(actual)
      OBVIOUS
    <2>2. IsFiniteSet(m)
      BY <2>1, FS_Subset
    <2>3. Cardinality(m) \in Nat /\ Cardinality(R) \in Nat /\ (Cardinality(m) = 0 <=> m = {})
      BY <2>2, FS_CardinalityType, FS_EmptySet
    <2>4. false_negative_rate(actual, R) = Ratio(Cardinality(m), Cardinality(R))
      BY <1>2, <2>1 DEF false_negative_rate
    <2> QED
      BY <2>1, <2>3, <2>4, RatioIs
  <1> QED
    BY <1>1, <1>2

\* What a sequence of numbers lists is finite.
LEMMA ListedFinite ==
    ASSUME NEW s \in Seq(Nat)
    PROVE  /\ IsFiniteSet(ToSet(s)) /\ Cardinality(ToSet(s)) \in Nat
           /\ \A x : x \in ToSet(s) <=> \E i \in DOMAIN s : x = s[i]
  <1>1. PICK n \in Nat : n = Len(s) /\ DOMAIN s = 1 .. n
    OBVIOUS
  <1>2. \A x : x \in ToSet(s) <=> \E i \in DOMAIN s : x = s[i]
    BY DEF ToSet
  <1>3. PICK f : f = [i \in 1 .. n |-> s[i]]
    OBVIOUS
  <1>4. f \in Surjection(1 .. n, ToSet(s))
    BY <1>1, <1>2, <1>3 DEF Surjection
  <1>5. IsFiniteSet(1 .. n)
    BY FS_Interval
  <1>6. IsFiniteSet(ToSet(s))
    BY <1>4, <1>5, FS_Surjection
  <1> QED
    BY <1>2, <1>6, FS_CardinalityType

\* Products are the expected ones, in their order, just when nothing is false,
\* missing or displaced.
LEMMA SameProducts ==
    ASSUME NEW actual \in Seq(Nat), IsInjective(actual),
           NEW expected \in Seq(Nat), IsInjective(expected)
    PROVE  actual = expected <=>
               /\ IsZero(false_positive_rate(actual, ToSet(expected)))
               /\ IsZero(false_negative_rate(actual, ToSet(expected)))
               /\ IsZero(Displacement(actual, expected))
  <1>1. PICK m, n \in Nat : /\ m = Len(actual) /\ DOMAIN actual = 1 .. m
                            /\ n = Len(expected) /\ DOMAIN expected = 1 .. n
    OBVIOUS
  <1>2. /\ IsFiniteSet(ToSet(expected))
        /\ \A x : x \in ToSet(expected) <=> \E i \in DOMAIN expected : x = expected[i]
        /\ \A x : x \in ToSet(actual) <=> \E i \in DOMAIN actual : x = actual[i]
    BY ListedFinite
  <1>3. /\ \A i, j \in 1 .. m : actual[i] = actual[j] => i = j
        /\ \A i, j \in 1 .. n : expected[i] = expected[j] => i = j
    BY <1>1 DEF IsInjective
  <1>4. CASE actual = expected
    <2>1. \A i \in DOMAIN actual : actual[i] \in ToSet(expected)
      BY <1>2, <1>4
    <2>2. ToSet(expected) \subseteq ToSet(actual)
      BY <1>4
    <2>3. \A i \in DOMAIN expected : \E j \in DOMAIN actual : j <= i /\ actual[j] = expected[i]
      BY <1>1, <1>4
    <2> QED
      BY <1>2, <1>4, <2>1, <2>2, <2>3, FalseIs, MissingIs, DisplacementIs
  <1>5. ASSUME IsZero(false_positive_rate(actual, ToSet(expected))),
               IsZero(Displacement(actual, expected))
        PROVE  actual = expected
    <2>1. \A i \in 1 .. m : \E j \in 1 .. n : actual[i] = expected[j]
      <3>1. \A i \in DOMAIN actual : actual[i] \in ToSet(expected)
        BY <1>5, FalseIs
      <3> QED
        BY <1>1, <1>2, <3>1
    <2>2. \A i \in 1 .. n : \E j \in 1 .. m : j <= i /\ actual[j] = expected[i]
      <3>1. \A i \in DOMAIN expected : \E j \in DOMAIN actual : j <= i /\ actual[j] = expected[i]
        BY <1>5, DisplacementIs
      <3> QED
        BY ONLY <1>1, <3>1
    <2> DEFINE Off == {i \in 1 .. n : ~(i \in 1 .. m /\ actual[i] = expected[i])}
    <2>3. Off = {}
      <3> SUFFICES ASSUME Off # {}
                   PROVE  FALSE
        OBVIOUS
      <3>1. Off \in SUBSET Nat
        OBVIOUS
      <3>2. PICK o : o = Min(Off)
        OBVIOUS
      <3>3. o \in Off /\ \A i \in Off : o <= i
        <4> HIDE DEF Off
        <4> QED
          BY <3>1, <3>2, LeastOf
      <3>4. PICK j \in 1 .. m : j <= o /\ actual[j] = expected[o]
        BY <2>2, <3>3
      <3>5. j # o /\ j < o /\ j \in 1 .. n
        BY <3>3, <3>4
      <3>6. j \notin Off
        BY <3>3, <3>4, <3>5
      <3>7. actual[j] = expected[j]
        BY <3>4, <3>5, <3>6
      <3>8. o \in 1 .. n
        BY <3>3
      <3> QED
        BY <1>3, <3>4, <3>5, <3>7, <3>8
    <2>4. \A i \in 1 .. n : i \in 1 .. m /\ actual[i] = expected[i]
      BY <2>3
    <2>5. \A i \in 1 .. m : i \in 1 .. n
      <3> SUFFICES ASSUME NEW i \in 1 .. m
                   PROVE  i \in 1 .. n
        OBVIOUS
      <3>1. PICK j \in 1 .. n : actual[i] = expected[j]
        BY <2>1
      <3>2. j \in 1 .. m /\ actual[j] = actual[i]
        BY <2>4, <3>1
      <3> QED
        BY <1>3, <3>1, <3>2
    <2>6. m = n
      BY <2>4, <2>5
    <2> QED
      BY <1>1, <2>4, <2>6
  <1> QED
    BY <1>4, <1>5

\* Of what is relevant, a part is found and the rest is missing.
LEMMA FoundAndMissing ==
    ASSUME NEW actual \in Seq(Nat), NEW R, IsFiniteSet(R), NEW k \in Nat, Len(actual) <= k,
           recall_at_k(actual, R, k) # Unset
    PROVE  recall_at_k(actual, R, k)[1] + false_negative_rate(actual, R)[1]
               = recall_at_k(actual, R, k)[2]
  <1>1. R # {}
    BY DEF recall_at_k
  <1>2. Cut(actual, k) = actual
    BY CutIs
  <1>3. PICK A : A = ToSet(actual)
    OBVIOUS
  <1>4. recall_at_k(actual, R, k) = Ratio(Cardinality(A \intersect R), Cardinality(R))
    BY <1>1, <1>2, <1>3 DEF recall_at_k
  <1>5. false_negative_rate(actual, R) = Ratio(Cardinality(R \ A), Cardinality(R))
    BY <1>1, <1>3 DEF false_negative_rate
  <1>6. A \intersect R = R \intersect A
    OBVIOUS
  <1>7. /\ IsFiniteSet(R \intersect A) /\ IsFiniteSet(R \ A)
    BY FS_Subset
  <1>8. /\ Cardinality(R \intersect A) \in Nat /\ Cardinality(R \ A) \in Nat /\ Cardinality(R) \in Nat
    BY <1>7, FS_CardinalityType
  <1>9. Cardinality(R \ A) = Cardinality(R) - Cardinality(R \intersect A)
    BY FS_Difference
  <1>10. PICK x, y, z \in Nat : /\ x = Cardinality(R \intersect A) /\ y = Cardinality(R \ A)
                                /\ z = Cardinality(R)
    BY <1>8
  <1>11. recall_at_k(actual, R, k) = Ratio(x, z) /\ false_negative_rate(actual, R) = Ratio(y, z)
         /\ y = z - x
    BY <1>4, <1>5, <1>6, <1>9, <1>10
  <1>12. Ratio(x, z)[1] = x /\ Ratio(y, z)[1] = y /\ Ratio(x, z)[2] = z
    BY RatioIs
  <1> QED
    BY ONLY <1>11, <1>12, x \in Nat, y \in Nat, z \in Nat

\* The grades of some products.
Graded(grades) ==
    /\ IsFiniteSet(DOMAIN grades) /\ DOMAIN grades \subseteq Nat
    /\ \A id \in DOMAIN grades : grades[id] \in 0 .. 3

\* The places of at least this grade, and the products of it.
Layer(grades, s, t) == {i \in DOMAIN s : Grade(grades, s[i]) >= t}
Level(grades, t) == {id \in DOMAIN grades : grades[id] >= t}

\* The gain of a grade, in layers.
LEMMA GainIs ==
    ASSUME NEW g \in 0 .. 3
    PROVE  Gain(g) = (IF g >= 1 THEN 1 ELSE 0) + 2 * (IF g >= 2 THEN 1 ELSE 0)
                        + 4 * (IF g >= 3 THEN 1 ELSE 0)
  <1>1. 2 ^ 0 = 1 /\ 2 ^ 1 = 2 /\ 2 ^ 2 = 4 /\ 2 ^ 3 = 8
    OBVIOUS
  <1>2. CASE g = 0
    BY <1>1, <1>2 DEF Gain
  <1>3. CASE g = 1
    BY <1>1, <1>3 DEF Gain
  <1>4. CASE g = 2
    BY <1>1, <1>4 DEF Gain
  <1>5. CASE g = 3
    BY <1>1, <1>5 DEF Gain
  <1> QED
    BY <1>2, <1>3, <1>4, <1>5

\* Its part of a discount.
LEMMA GainPart ==
    ASSUME NEW g \in 0 .. 3, NEW d \in Nat
    PROVE  Gain(g) * d = (IF g >= 1 THEN d ELSE 0) + 2 * (IF g >= 2 THEN d ELSE 0)
                            + 4 * (IF g >= 3 THEN d ELSE 0)
  <1>1. CASE g = 0
    <2>1. Gain(g) = 0
      BY <1>1, GainIs
    <2> QED
      BY <1>1, <2>1
  <1>2. CASE g = 1
    <2>1. Gain(g) = 1
      BY <1>2, GainIs
    <2> QED
      BY <1>2, <2>1
  <1>3. CASE g = 2
    <2>1. Gain(g) = 3
      BY <1>3, GainIs
    <2> QED
      BY <1>3, <2>1
  <1>4. CASE g = 3
    <2>1. Gain(g) = 7
      BY <1>4, GainIs
    <2> QED
      BY <1>4, <2>1
  <1> QED
    BY <1>1, <1>2, <1>3, <1>4

\* The gain of a ranking, in layers.
LEMMA GainInLayers ==
    ASSUME NEW s \in Seq(Nat), Len(s) <= Len(Discount), NEW grades, Graded(grades)
    PROVE  /\ \A t : Layer(grades, s, t) \in SUBSET DOMAIN Discount
           /\ DiscountedGain([i \in DOMAIN s |-> Gain(Grade(grades, s[i]))]) =
                  SumFunctionOnSet(Discount, Layer(grades, s, 1))
                  + 2 * SumFunctionOnSet(Discount, Layer(grades, s, 2))
                  + 4 * SumFunctionOnSet(Discount, Layer(grades, s, 3))
  <1>1. PICK n \in Nat : n = Len(s) /\ DOMAIN s = 1 .. n
    OBVIOUS
  <1>2. \A i \in 1 .. n : i \in DOMAIN Discount /\ Discount[i] \in Nat
    BY <1>1, DiscountAssumption
  <1>3. PICK g : g = [i \in 1 .. n |-> Grade(grades, s[i])]
    OBVIOUS
  <1>4. \A i \in 1 .. n : g[i] \in 0 .. 3
    BY <1>3 DEF Grade, Graded
  <1>5. PICK w : w = [i \in 1 .. n |-> Gain(g[i]) * Discount[i]]
    OBVIOUS
  <1>6. DiscountedGain([i \in DOMAIN s |-> Gain(Grade(grades, s[i]))]) = SumFunctionOnSet(w, 1 .. n)
    <2>1. PICK gains : gains = [i \in DOMAIN s |-> Gain(Grade(grades, s[i]))]
      OBVIOUS
    <2>2. DOMAIN gains = 1 .. n /\ \A i \in 1 .. n : gains[i] = Gain(g[i])
      BY <1>1, <1>3, <2>1
    <2>3. w = [i \in DOMAIN gains |-> gains[i] * Discount[i]] /\ DOMAIN w = 1 .. n
      BY <1>5, <2>2
    <2>4. SumFunction(w) = SumFunctionOnSet(w, 1 .. n)
      BY <2>3 DEF SumFunction, SumFunctionOnSet, FoldFunction
    <2> QED
      BY <2>1, <2>3, <2>4 DEF DiscountedGain
  <1>7. PICK a, b, c : /\ a = [i \in 1 .. n |-> IF g[i] >= 1 THEN Discount[i] ELSE 0]
                       /\ b = [i \in 1 .. n |-> IF g[i] >= 2 THEN Discount[i] ELSE 0]
                       /\ c = [i \in 1 .. n |-> IF g[i] >= 3 THEN Discount[i] ELSE 0]
    OBVIOUS
  <1>8. \A i \in 1 .. n : a[i] \in Nat /\ b[i] \in Nat /\ c[i] \in Nat
    BY <1>2, <1>7
  <1>9. \A i \in 1 .. n : w[i] = a[i] + 2 * b[i] + 4 * c[i]
    <2> SUFFICES ASSUME NEW i \in 1 .. n
                 PROVE  w[i] = a[i] + 2 * b[i] + 4 * c[i]
      OBVIOUS
    <2>1. PICK x \in 0 .. 3, d \in Nat : x = g[i] /\ d = Discount[i]
      BY <1>2, <1>4
    <2>2. Gain(x) * d = (IF x >= 1 THEN d ELSE 0) + 2 * (IF x >= 2 THEN d ELSE 0)
                           + 4 * (IF x >= 3 THEN d ELSE 0)
      BY GainPart
    <2>3. w[i] = Gain(x) * d
      BY <1>5, <2>1
    <2>4. /\ a[i] = IF x >= 1 THEN d ELSE 0
          /\ b[i] = IF x >= 2 THEN d ELSE 0
          /\ c[i] = IF x >= 3 THEN d ELSE 0
      BY <1>7, <2>1
    <2> QED
      BY ONLY <2>2, <2>3, <2>4
  <1>10. IsFiniteSet(1 .. n)
    BY FS_Interval
  <1>11. SumFunctionOnSet(w, 1 .. n) = SumFunctionOnSet(a, 1 .. n) + 2 * SumFunctionOnSet(b, 1 .. n)
                                          + 4 * SumFunctionOnSet(c, 1 .. n)
    <2>1. PICK S : S = 1 .. n
      OBVIOUS
    <2>2. /\ IsFiniteSet(S)
          /\ \A i \in S : a[i] \in Nat /\ b[i] \in Nat /\ c[i] \in Nat
          /\ \A i \in S : w[i] = a[i] + 2 * b[i] + 4 * c[i]
      BY <1>8, <1>9, <1>10, <2>1
    <2>3. SumFunctionOnSet(w, S) = SumFunctionOnSet(a, S) + 2 * SumFunctionOnSet(b, S)
                                      + 4 * SumFunctionOnSet(c, S)
      BY ONLY <2>2, SumLayers
    <2> QED
      BY ONLY <2>1, <2>3
  <1>12. PICK A, B, C : A = Layer(grades, s, 1) /\ B = Layer(grades, s, 2) /\ C = Layer(grades, s, 3)
    OBVIOUS
  <1>13. /\ A \in SUBSET (1 .. n) /\ \A i \in 1 .. n : i \in A <=> g[i] >= 1
         /\ B \in SUBSET (1 .. n) /\ \A i \in 1 .. n : i \in B <=> g[i] >= 2
         /\ C \in SUBSET (1 .. n) /\ \A i \in 1 .. n : i \in C <=> g[i] >= 3
    BY <1>1, <1>3, <1>12 DEF Layer
  <1>14. \A i \in 1 .. n : Discount[i] \in Nat
    BY <1>2
  <1>15. SumFunctionOnSet(a, 1 .. n) = SumFunctionOnSet(Discount, A)
    <2>1. \A i \in 1 .. n : a[i] = IF i \in A THEN Discount[i] ELSE 0
      BY <1>7, <1>13
    <2> QED
      BY <1>10, <1>13, <1>14, <2>1, SumOnPart, ZenonT(60)
  <1>16. SumFunctionOnSet(b, 1 .. n) = SumFunctionOnSet(Discount, B)
    <2>1. \A i \in 1 .. n : b[i] = IF i \in B THEN Discount[i] ELSE 0
      BY <1>7, <1>13
    <2> QED
      BY <1>10, <1>13, <1>14, <2>1, SumOnPart, ZenonT(60)
  <1>17. SumFunctionOnSet(c, 1 .. n) = SumFunctionOnSet(Discount, C)
    <2>1. \A i \in 1 .. n : c[i] = IF i \in C THEN Discount[i] ELSE 0
      BY <1>7, <1>13
    <2> QED
      BY <1>10, <1>13, <1>14, <2>1, SumOnPart, ZenonT(60)
  <1>18. \A t : Layer(grades, s, t) \in SUBSET DOMAIN Discount
    BY <1>1, <1>2 DEF Layer
  <1> QED
    BY <1>6, <1>11, <1>12, <1>15, <1>16, <1>17, <1>18

\* A ranking has at most as many places of a grade as there are products of it.
LEMMA LayerSmall ==
    ASSUME NEW s \in Seq(Nat), IsInjective(s), NEW grades, Graded(grades), NEW t \in 1 .. 3
    PROVE  /\ IsFiniteSet(Layer(grades, s, t)) /\ Cardinality(Layer(grades, s, t)) \in Nat
           /\ Cardinality(Layer(grades, s, t)) <= Len(s)
           /\ IsFiniteSet(Level(grades, t)) /\ Cardinality(Level(grades, t)) \in Nat
           /\ Cardinality(Layer(grades, s, t)) <= Cardinality(Level(grades, t))
  <1>1. PICK n \in Nat : n = Len(s) /\ DOMAIN s = 1 .. n
    OBVIOUS
  <1>2. PICK A, P : A = Layer(grades, s, t) /\ P = Level(grades, t)
    OBVIOUS
  <1>3. A \in SUBSET (1 .. n) /\ P \in SUBSET DOMAIN grades
    BY <1>1, <1>2 DEF Layer, Level
  <1>4. IsFiniteSet(1 .. n) /\ Cardinality(1 .. n) = n
    BY FS_Interval
  <1>5. IsFiniteSet(A) /\ Cardinality(A) <= n
    BY <1>3, <1>4, FS_Subset
  <1>6. IsFiniteSet(P)
    BY <1>3, FS_Subset DEF Graded
  <1>7. Cardinality(A) \in Nat /\ Cardinality(P) \in Nat
    BY <1>5, <1>6, FS_CardinalityType
  <1>8. \A i \in A : s[i] \in P
    BY <1>2 DEF Layer, Level, Grade
  <1>9. PICK f : f = [i \in A |-> s[i]]
    OBVIOUS
  <1>10. f \in Injection(A, P)
    <2>1. f \in [A -> P]
      BY <1>8, <1>9
    <2>2. \A i, j \in A : f[i] = f[j] => i = j
      BY <1>1, <1>3, <1>9 DEF IsInjective
    <2> QED
      BY <2>1, <2>2 DEF Injection, IsInjective
  <1>11. Cardinality(A) <= Cardinality(P)
    BY <1>6, <1>10, FS_Injection
  <1> QED
    BY <1>1, <1>2, <1>5, <1>6, <1>7, <1>11

\* What comes before a product in the ideal ranking.
Better(grades, positive) ==
    [a \in positive |-> {b \in positive : \/ grades[b] > grades[a]
                                          \/ grades[b] = grades[a] /\ b < a}]

\* The first k of these places are those of at least this grade.
Leads(grades, ideal, k, t) ==
    \E n \in Nat :
        /\ Layer(grades, ideal, t) = 1 .. n
        /\ n = IF k <= Cardinality(Level(grades, t)) THEN k ELSE Cardinality(Level(grades, t))

\* The ideal ranking starts with the products of the highest grades.
LEMMA IdealIs ==
    ASSUME NEW grades, Graded(grades), NEW k \in Nat,
           NEW positive, positive = {id \in DOMAIN grades : grades[id] > 0},
           NEW ideal, ideal = Cut(Ordered(Better(grades, positive)), k)
    PROVE  /\ ideal \in Seq(Nat) /\ Len(ideal) <= k
           /\ \A t \in 1 .. 3 : Leads(grades, ideal, k, t)
  <1>1. PICK before : before = Better(grades, positive)
    OBVIOUS
  <1>2. /\ IsFiniteSet(DOMAIN grades)
        /\ \A id \in DOMAIN grades : id \in Nat /\ grades[id] \in 0 .. 3 /\ grades[id] \in Nat
    BY DEF Graded
  <1>3. IsFiniteSet(positive) /\ positive \in SUBSET DOMAIN grades
    BY <1>2, FS_Subset
  <1>4. Orders(before, positive)
    <2>1. \A a \in positive : a \in Nat /\ grades[a] \in Nat
      BY <1>2, <1>3
    <2>2. before \in [positive -> SUBSET positive]
      BY <1>1 DEF Better
    <2>3. \A a, b \in positive :
             b \in before[a] <=> grades[b] > grades[a] \/ (grades[b] = grades[a] /\ b < a)
      BY <1>1 DEF Better
    <2>4. \A a \in positive : a \notin before[a]
      BY <2>1, <2>3
    <2>5. \A a \in positive : \A b \in before[a] : before[b] \subseteq before[a]
      <3> SUFFICES ASSUME NEW a \in positive, NEW b \in before[a], NEW c \in before[b]
                   PROVE  c \in before[a]
        OBVIOUS
      <3>1. b \in positive /\ c \in positive
        BY <2>2
      <3> QED
        BY <2>1, <2>3, <3>1
    <2>6. \A a \in positive : a \notin before[a] /\ \A b \in before[a] : before[b] \subseteq before[a]
      BY ONLY <2>4, <2>5
    <2>7. \A a, b \in positive : a = b \/ a \in before[b] \/ b \in before[a]
      BY ONLY <2>1, <2>3
    <2> QED
      BY ONLY <1>3, <2>2, <2>6, <2>7 DEF Orders
  <1>5. PICK order : order = Ordered(before)
    OBVIOUS
  <1>6. PICK m \in Nat : /\ m = Cardinality(positive)
                         /\ order \in [1 .. m -> positive]
                         /\ \A i \in 1 .. m : Cardinality(before[order[i]]) = i - 1
    <2>1. /\ Cardinality(positive) \in Nat
          /\ Ordered(before) \in [1 .. Cardinality(positive) -> positive]
          /\ \A i \in 1 .. Cardinality(positive) : Cardinality(before[Ordered(before)[i]]) = i - 1
      BY <1>4, OrderedIs
    <2> QED
      BY <1>5, <2>1
  <1>7. order \in Seq(Nat) /\ Len(order) = m
    <2>1. positive \subseteq Nat
      BY <1>2, <1>3
    <2>2. order \in [1 .. m -> Nat]
      BY <1>6, <2>1
    <2> QED
      BY <2>2
  <1>8. /\ ideal \in Seq(Nat)
        /\ Len(ideal) = IF k <= m THEN k ELSE m
        /\ \A i \in DOMAIN ideal : i \in DOMAIN order /\ ideal[i] = order[i]
    <2>1. ideal = Cut(order, k)
      BY <1>1, <1>5
    <2>2. /\ Cut(order, k) \in Seq(Nat)
          /\ Len(Cut(order, k)) = IF k <= Len(order) THEN k ELSE Len(order)
          /\ \A i \in DOMAIN Cut(order, k) : i \in DOMAIN order /\ Cut(order, k)[i] = order[i]
      BY ONLY <1>7, k \in Nat, CutIs
    <2> QED
      BY ONLY <1>7, <2>1, <2>2
  <1>9. PICK l \in Nat : l = Len(ideal) /\ DOMAIN ideal = 1 .. l /\ l = (IF k <= m THEN k ELSE m)
    <2>1. ideal \in Seq(Nat)
      BY <1>8
    <2>2. PICK l \in Nat : l = Len(ideal) /\ DOMAIN ideal = 1 .. l
      BY ONLY <2>1
    <2> QED
      BY ONLY <1>8, <2>2
  <1>10. ASSUME NEW t \in 1 .. 3
        PROVE  Leads(grades, ideal, k, t)
    <2>1. PICK P : P = Level(grades, t)
      OBVIOUS
    <2>2. P \in SUBSET positive /\ IsFiniteSet(P) /\ Cardinality(P) <= m
      <3>1. P \in SUBSET positive
        BY <1>2, <2>1 DEF Level
      <3> QED
        BY <1>3, <1>6, <3>1, FS_Subset
    <2>3. PICK q \in Nat : q = Cardinality(P) /\ q <= m
      BY <2>2, FS_CardinalityType
    <2>4. PICK n \in Nat : n = IF k <= q THEN k ELSE q
      OBVIOUS
    <2>5. ASSUME NEW i \in 1 .. m
          PROVE  i <= q <=> grades[order[i]] >= t
      <3>1. PICK x \in positive : x = order[i]
        BY <1>6
      <3>2. x \in DOMAIN grades /\ grades[x] \in Nat /\ x \in Nat
        BY <1>2, <1>3
      <3>3. /\ before[x] \in SUBSET positive /\ IsFiniteSet(before[x]) /\ Cardinality(before[x]) = i - 1
            /\ x \notin before[x]
        BY <1>4, <1>6, <3>1, FS_Subset DEF Orders
      <3>4. \A y \in positive :
               y \in before[x] <=> grades[y] > grades[x] \/ (grades[y] = grades[x] /\ y < x)
        BY <1>1 DEF Better
      <3>5. \A y \in positive : grades[y] \in Nat /\ (y \in P <=> grades[y] >= t)
        BY <1>2, <1>3, <2>1 DEF Level
      <3>6. CASE grades[x] >= t
        <4>1. before[x] \union {x} \in SUBSET P
          <5>1. \A y \in before[x] : y \in P
            BY <3>2, <3>3, <3>4, <3>5, <3>6
          <5>2. x \in P
            BY <3>5, <3>6
          <5> QED
            BY <5>1, <5>2
        <4>2. Cardinality(before[x] \union {x}) = i
          BY <3>3, FS_AddElement, SMTT(60)
        <4>3. Cardinality(before[x] \union {x}) <= q
          BY <2>2, <2>3, <4>1, FS_Subset
        <4> QED
          BY <3>1, <3>6, <4>2, <4>3
      <3>7. CASE ~(grades[x] >= t)
        <4>1. P \in SUBSET before[x]
          <5>1. \A y \in P : y \in before[x]
            BY <2>2, <3>2, <3>4, <3>5, <3>7
          <5> QED
            BY <5>1
        <4>2. Cardinality(P) <= i - 1
          BY <3>3, <4>1, FS_Subset
        <4> QED
          BY <2>3, <3>1, <3>7, <4>2
      <3> QED
        BY <3>6, <3>7
    <2>6. \A i \in 1 .. l : i \in 1 .. m /\ Grade(grades, ideal[i]) = grades[order[i]]
      <3>1. \A i \in 1 .. l : i \in 1 .. m /\ ideal[i] = order[i] /\ order[i] \in DOMAIN grades
        BY <1>3, <1>6, <1>7, <1>8, <1>9
      <3> QED
        BY <3>1 DEF Grade
    <2>7. \A i \in 1 .. l : i \in Layer(grades, ideal, t) <=> i <= q
      BY <1>9, <2>5, <2>6 DEF Layer
    <2>8. Layer(grades, ideal, t) \subseteq 1 .. l
      BY <1>9 DEF Layer
    <2>9. \A i \in Nat : i \in 1 .. n <=> i \in 1 .. l /\ i <= q
      BY <1>9, <2>3, <2>4
    <2>10. Layer(grades, ideal, t) = 1 .. n
      <3>1. \A i \in 1 .. l : i \in Nat
        OBVIOUS
      <3>2. \A i \in 1 .. n : i \in Nat
        OBVIOUS
      <3> QED
        BY ONLY <2>7, <2>8, <2>9, <3>1, <3>2
    <2> QED
      BY <2>1, <2>3, <2>4, <2>10 DEF Leads
  <1>11. Len(ideal) <= k
    BY <1>9
  <1> QED
    BY <1>8, <1>10, <1>11

\* No ranking is better than the ideal one.
LEMMA NoBetterRanking ==
    ASSUME NEW actual \in Seq(Nat), IsInjective(actual), NEW grades, Graded(grades),
           NEW k \in Nat, k <= Len(Discount), ndcg_at_k(actual, grades, k) # Unset
    PROVE  ndcg_at_k(actual, grades, k)[1] <= ndcg_at_k(actual, grades, k)[2]
  <1>1. PICK positive : positive = {id \in DOMAIN grades : grades[id] > 0}
    OBVIOUS
  <1>2. PICK ideal : ideal = Cut(Ordered(Better(grades, positive)), k)
    OBVIOUS
  <1>3. PICK c : c = Cut(actual, k)
    OBVIOUS
  <1>4. PICK x, y : /\ x = DiscountedGain([i \in DOMAIN c |-> Gain(Grade(grades, c[i]))])
                    /\ y = DiscountedGain([i \in DOMAIN ideal |-> Gain(Grade(grades, ideal[i]))])
    OBVIOUS
  <1>5. ndcg_at_k(actual, grades, k) = IF positive = {} THEN Unset ELSE Ratio(x, y)
    BY <1>1, <1>2, <1>3, <1>4 DEF ndcg_at_k, Better
  <1>6. /\ c \in Seq(Nat) /\ Len(c) <= k /\ Len(c) <= Len(Discount) /\ IsInjective(c)
    <2>1. /\ c \in Seq(Nat) /\ Len(c) = IF k <= Len(actual) THEN k ELSE Len(actual)
          /\ \A i \in DOMAIN c : i \in DOMAIN actual /\ c[i] = actual[i]
      BY <1>3, CutIs
    <2>2. IsInjective(c)
      BY <2>1 DEF IsInjective
    <2>3. Len(actual) \in Nat /\ Len(Discount) \in Nat
      BY DiscountAssumption
    <2> QED
      BY <2>1, <2>2, <2>3
  <1>7. /\ ideal \in Seq(Nat) /\ Len(ideal) <= k /\ Len(ideal) <= Len(Discount)
        /\ \A t \in 1 .. 3 : Leads(grades, ideal, k, t)
    <2>1. /\ ideal \in Seq(Nat) /\ Len(ideal) <= k
          /\ \A t \in 1 .. 3 : Leads(grades, ideal, k, t)
      BY ONLY <1>1, <1>2, Graded(grades), k \in Nat, IdealIs
    <2>2. Len(ideal) \in Nat /\ Len(Discount) \in Nat
      BY <2>1, DiscountAssumption
    <2> QED
      BY <2>1, <2>2
  <1>8. ASSUME NEW t \in 1 .. 3
        PROVE  /\ SumFunctionOnSet(Discount, Layer(grades, c, t))
                     <= SumFunctionOnSet(Discount, Layer(grades, ideal, t))
               /\ SumFunctionOnSet(Discount, Layer(grades, c, t)) \in Nat
               /\ SumFunctionOnSet(Discount, Layer(grades, ideal, t)) \in Nat
    <2>1. PICK A, P : A = Layer(grades, c, t) /\ P = Level(grades, t)
      OBVIOUS
    <2>2. PICK n \in Nat : /\ Layer(grades, ideal, t) = 1 .. n
                           /\ n = IF k <= Cardinality(P) THEN k ELSE Cardinality(P)
      BY <1>7, <2>1 DEF Leads
    <2>3. /\ IsFiniteSet(A) /\ Cardinality(A) \in Nat /\ Cardinality(A) <= Len(c)
          /\ Cardinality(P) \in Nat /\ Cardinality(A) <= Cardinality(P)
      BY <1>6, <2>1, LayerSmall
    <2>4. Cardinality(A) <= n /\ n <= k /\ Len(Discount) \in Nat
      <3>1. Len(c) \in Nat /\ Len(c) <= k
        BY <1>6
      <3> QED
        BY <2>2, <2>3, <3>1, DiscountAssumption
    <2>5. n <= Len(Discount)
      BY <2>4
    <2>6. A \in SUBSET DOMAIN Discount
      BY <1>6, <2>1, GainInLayers
    <2>7. 1 .. n \in SUBSET DOMAIN Discount
      BY <2>5, DiscountAssumption
    <2>8. SumFunctionOnSet(Discount, A) <= SumFunctionOnSet(Discount, 1 .. n)
      BY <2>4, <2>5, <2>6, DiscountAssumption, FirstAreMost
    <2>9. SumFunctionOnSet(Discount, A) \in Nat /\ SumFunctionOnSet(Discount, 1 .. n) \in Nat
      <3>1. PICK l \in Nat : DOMAIN Discount = 1 .. l /\ \A i \in 1 .. l : Discount[i] \in Nat
        BY DiscountAssumption
      <3>2. IsFiniteSet(1 .. l)
        BY FS_Interval
      <3> QED
        BY <2>6, <2>7, <3>1, <3>2, SumIsNat
    <2> QED
      BY <2>1, <2>2, <2>8, <2>9
  <1>9. /\ x = SumFunctionOnSet(Discount, Layer(grades, c, 1))
                + 2 * SumFunctionOnSet(Discount, Layer(grades, c, 2))
                + 4 * SumFunctionOnSet(Discount, Layer(grades, c, 3))
        /\ y = SumFunctionOnSet(Discount, Layer(grades, ideal, 1))
                + 2 * SumFunctionOnSet(Discount, Layer(grades, ideal, 2))
                + 4 * SumFunctionOnSet(Discount, Layer(grades, ideal, 3))
    BY <1>4, <1>6, <1>7, GainInLayers
  <1>10. PICK a, b, d, e, f, g \in Nat :
            /\ a <= e /\ b <= f /\ d <= g
            /\ x = a + 2 * b + 4 * d /\ y = e + 2 * f + 4 * g
    <2>1. 1 \in 1 .. 3 /\ 2 \in 1 .. 3 /\ 3 \in 1 .. 3
      OBVIOUS
    <2> QED
      BY <1>8, <1>9, <2>1
  <1>11. x \in Nat /\ y \in Nat /\ x <= y
    BY ONLY <1>10
  <1>12. Ratio(x, y)[1] = x /\ Ratio(x, y)[2] = y
    BY <1>11, RatioIs
  <1> QED
    BY <1>5, <1>11, <1>12

-----------------------------------------------------------------------------
(* The verdict *)

\* A response that lets one more product through lists it once.
LEMMA LettingIs ==
    ASSUME NEW A, NEW s \in Seq(A), IsInjective(s), NEW more \in A, \A i \in DOMAIN s : s[i] # more,
           NEW t, t = Append(s, more)
    PROVE  t \in Seq(A) /\ IsInjective(t)
  <1>1. PICK n \in Nat : n = Len(s) /\ DOMAIN s = 1 .. n
    OBVIOUS
  <1>2. /\ t \in Seq(A) /\ DOMAIN t = 1 .. n + 1 /\ t[n + 1] = more
        /\ \A i \in 1 .. n : t[i] = s[i]
    BY <1>1
  <1>3. \A i, j \in 1 .. n : s[i] = s[j] => i = j
    BY <1>1 DEF IsInjective
  <1>4. \A i \in 1 .. n + 1 : i = n + 1 \/ i \in 1 .. n
    BY <1>1
  <1>5. \A i, j \in 1 .. n + 1 : t[i] = t[j] => i = j
    <2> SUFFICES ASSUME NEW i \in 1 .. n + 1, NEW j \in 1 .. n + 1, t[i] = t[j]
                 PROVE  i = j
      OBVIOUS
    <2>1. CASE i = n + 1 /\ j \in 1 .. n
      BY <1>1, <1>2, <2>1
    <2>2. CASE j = n + 1 /\ i \in 1 .. n
      BY <1>1, <1>2, <2>2
    <2>3. CASE i \in 1 .. n /\ j \in 1 .. n
      BY <1>2, <1>3, <2>3
    <2> QED
      BY <1>4, <2>1, <2>2, <2>3
  <1> QED
    BY <1>2, <1>5 DEF IsInjective

\* Whatever a system serves, it lists products of the catalog, each once.
LEMMA ServedIs ==
    ASSUME NEW catalog, IsCatalog(catalog), NEW query \in Seq(Words), NEW k \in Nat,
           NEW mode, NEW slow
    PROVE  \E products \in Seq(catalog) :
              IsInjective(products) /\ Served(mode, catalog, query, k, slow).products = products
  <1>1. PICK intent : intent = parse_query(query)
    OBVIOUS
  <1>2. PICK retrieved \in Seq(catalog) :
           IsInjective(retrieved) /\ Search(catalog, query, k, slow) = Answered(retrieved, intent, k, slow)
    <2>1. \E retrieved \in Seq(catalog) :
              /\ IsInjective(retrieved) /\ Len(retrieved) <= CandidateLimit
              /\ \A quick : Search(catalog, query, k, quick)
                              = Answered(retrieved, parse_query(query), k, quick)
      BY SearchIs
    <2> QED
      BY <1>1, <2>1
  <1>3. PICK filtered, s : /\ filtered = Filter(retrieved, intent.constraints)
                           /\ s = Cut(filtered, k)
    OBVIOUS
  <1>4. /\ filtered \in Seq(catalog) /\ s \in Seq(catalog) /\ IsInjective(s)
        /\ \A i \in DOMAIN s : i \in DOMAIN filtered /\ s[i] = filtered[i]
    BY <1>2, <1>3, AnsweredIs, SMTT(60)
  <1>5. PICK b : b = Answered(retrieved, intent, k, slow)
    OBVIOUS
  <1>6. /\ DOMAIN b = {"interpreted", "applied", "retrieved", "filtered", "products", "slow"}
        /\ b.retrieved = Ids(retrieved) /\ b.filtered = Ids(filtered) /\ b.products = s
    BY <1>3, <1>5 DEF Answered
  <1>7. Served(mode, catalog, query, k, slow) = Injected(mode, b, catalog)
    BY <1>2, <1>5 DEF Served
  <1>8. CASE mode = "filter_broken"
    <2>1. IF ToSet(b.retrieved) \subseteq ToSet(b.filtered)
          THEN InjectFilterViolation(b, catalog) = b
          ELSE \E more \in catalog :
                  /\ more.id \notin ToSet(b.filtered)
                  /\ InjectFilterViolation(b, catalog) = Letting(b, more)
      <3>1. /\ IsCatalog(catalog) /\ retrieved \in Seq(catalog) /\ filtered \in Seq(catalog)
            /\ b.retrieved = Ids(retrieved) /\ b.filtered = Ids(filtered)
        BY <1>2, <1>4, <1>6
      <3> QED
        BY ONLY <3>1, LetThrough
    <2>2. Injected(mode, b, catalog) = InjectFilterViolation(b, catalog)
      BY <1>8 DEF Injected
    <2>3. CASE InjectFilterViolation(b, catalog) = b
      BY <1>4, <1>6, <1>7, <2>2, <2>3
    <2>4. CASE InjectFilterViolation(b, catalog) # b
      <3>1. PICK more \in catalog : /\ more.id \notin ToSet(Ids(filtered))
                                    /\ InjectFilterViolation(b, catalog) = Letting(b, more)
        BY <1>6, <2>1, <2>4
      <3>2. \A i \in DOMAIN s : s[i] # more
        <4>1. \A y : y \in ToSet(Ids(filtered)) <=> \E i \in DOMAIN filtered : y = filtered[i].id
          BY <1>4, IdsAre
        <4> QED
          BY <1>4, <3>1, <4>1
      <3>3. PICK t : t = Append(s, more)
        OBVIOUS
      <3>4. t \in Seq(catalog) /\ IsInjective(t)
        BY ONLY <1>4, <3>1, <3>2, <3>3, LettingIs
      <3>5. Letting(b, more).products = t
        BY <1>6, <3>3 DEF Letting
      <3> QED
        BY <1>7, <2>2, <3>1, <3>4, <3>5
    <2> QED
      BY <2>3, <2>4
  <1>9. CASE mode = "retrieval_broken"
    <2>1. PICK gone : gone = Cut(Ids(b.products) \o b.retrieved, 1)
      OBVIOUS
    <2>2. PICK places, t : /\ places = {i \in DOMAIN s : ~Contains(gone, s[i].id)}
                           /\ t = Kept(s, places)
      OBVIOUS
    <2>3. t \in Seq(catalog) /\ IsInjective(t)
      <3>1. places \in SUBSET DOMAIN s /\ \A i, j \in DOMAIN s : s[i] = s[j] => i = j
        BY <1>4, <2>2 DEF IsInjective
      <3>2. /\ t \in Seq(catalog)
            /\ \A m, n \in DOMAIN t : t[m] = t[n] => m = n
        <4>1. s \in Seq(catalog) /\ t = Kept(s, places)
          BY <1>4, <2>2
        <4>2. /\ Kept(s, places) \in Seq(catalog)
              /\ (\A i, j \in DOMAIN s : s[i] = s[j] => i = j) =>
                    \A m, n \in DOMAIN Kept(s, places) :
                        Kept(s, places)[m] = Kept(s, places)[n] => m = n
          BY ONLY <3>1, <4>1, KeptIs
        <4> QED
          BY ONLY <3>1, <4>1, <4>2
      <3> QED
        BY <3>2 DEF IsInjective
    <2>4. InjectRetrievalMiss(b).products = t
      BY <1>6, <2>1, <2>2 DEF InjectRetrievalMiss, ProductsWithout
    <2>5. Injected(mode, b, catalog) = InjectRetrievalMiss(b)
      BY <1>9 DEF Injected
    <2> QED
      BY <1>7, <2>3, <2>4, <2>5
  <1>10. CASE mode = "ranking_broken"
    <2>1. Injected(mode, b, catalog) = InjectRankingFailure(b)
      BY <1>10 DEF Injected
    <2>2. CASE Len(s) < 2
      <3>1. InjectRankingFailure(b) = b
        BY <1>6, <2>2 DEF InjectRankingFailure
      <3> QED
        BY <1>4, <1>6, <1>7, <2>1, <3>1
    <2>3. CASE ~(Len(s) < 2)
      <3>1. PICK p : p = Rotated(s)
        OBVIOUS
      <3>2. p \in Seq(catalog) /\ IsInjective(p)
        <4>1. Len(s) \in Nat
          BY <1>4
        <4>2. Len(s) >= 2
          BY <2>3, <4>1
        <4> QED
          BY ONLY <1>4, <3>1, <4>2, RotatedIs, SMTT(60)
      <3>3. InjectRankingFailure(b).products = p
        BY <1>6, <2>3, <3>1 DEF InjectRankingFailure, Rotated
      <3> QED
        BY <1>7, <2>1, <3>2, <3>3
    <2> QED
      BY <2>2, <2>3
  <1>11. CASE mode = "query_parser_regression"
    <2>1. Injected(mode, b, catalog) = InjectParserRegression(b)
      BY <1>11 DEF Injected
    <2>2. InjectParserRegression(b).products = s
      BY <1>6 DEF InjectParserRegression
    <2> QED
      BY <1>4, <1>7, <2>1, <2>2
  <1>12. CASE mode = "latency_regression"
    <2>1. Injected(mode, b, catalog).products = s
      BY <1>6, <1>12 DEF Injected
    <2> QED
      BY <1>4, <1>7, <2>1
  <1>13. CASE mode \notin {"filter_broken", "retrieval_broken", "ranking_broken",
                           "query_parser_regression", "latency_regression"}
    <2>1. Injected(mode, b, catalog) = b
      BY <1>13 DEF Injected
    <2> QED
      BY <1>4, <1>6, <1>7, <2>1
  <1> QED
    BY <1>8, <1>9, <1>10, <1>11, <1>12, <1>13

\* The greatest of some places.
LEMMA GreatestOf ==
    ASSUME NEW n \in Nat, NEW S \in SUBSET (1 .. n), S # {}
    PROVE  Max(S) \in S
  <1>1. PICK T : T = {m \in Nat : \A i \in S : i <= m}
    OBVIOUS
  <1>2. T \in SUBSET Nat /\ n \in T
    BY <1>1
  <1>3. PICK m : m = Min(T)
    OBVIOUS
  <1>4. m \in T /\ \A i \in T : m <= i
    BY <1>2, <1>3, LeastOf
  <1>5. m \in Nat /\ \A i \in S : i <= m
    BY <1>1, <1>4
  <1>6. m \in S
    <2> SUFFICES ASSUME m \notin S
                 PROVE  FALSE
      OBVIOUS
    <2>1. \A i \in S : i \in Nat /\ i >= 1 /\ i < m
      BY <1>5
    <2>2. m - 1 \in Nat /\ \A i \in S : i <= m - 1
      <3>1. PICK i \in S : i >= 1 /\ i < m
        BY <2>1
      <3>2. m - 1 \in Nat
        BY <1>5, <2>1, <3>1
      <3>3. \A j, l \in Nat : j < l => j <= l - 1
        OBVIOUS
      <3> QED
        BY <1>5, <2>1, <3>2, <3>3
    <2>3. m - 1 \in T
      BY <1>1, <2>2
    <2> QED
      BY <1>4, <1>5, <2>3
  <1>7. \A x \in S : x >= m => x = m
    BY <1>5
  <1>8. \A y \in S : m >= y
    BY <1>5
  <1> QED
    BY <1>6, <1>8 DEF Max

\* The judgments of a case.
LEMMA JudgmentsAre ==
    ASSUME NEW case, case.expected \in Seq([id : Nat, label : DOMAIN Grades])
    PROVE  ExpectedIds(case) \in Seq(Nat) /\ Graded(GradesOf(case))
  <1>1. PICK e : e = case.expected
    OBVIOUS
  <1>2. PICK n \in Nat : n = Len(e) /\ DOMAIN e = 1 .. n
    BY <1>1
  <1>3. \A i \in 1 .. n : e[i].id \in Nat /\ e[i].label \in DOMAIN Grades
    <2>1. PICK R : R = [id : Nat, label : DOMAIN Grades]
      OBVIOUS
    <2>2. e \in Seq(R)
      BY <1>1, <2>1
    <2>3. \A i \in 1 .. n : e[i] \in R
      BY ONLY <1>2, <2>2
    <2> QED
      BY <2>1, <2>3
  <1>4. PICK ids : ids = ExpectedIds(case)
    OBVIOUS
  <1>5. ids \in Seq(Nat) /\ DOMAIN ids = 1 .. n
    BY <1>1, <1>2, <1>3, <1>4, SMTT(60) DEF ExpectedIds
  <1>6. \A l \in DOMAIN Grades : Grades[l] \in 0 .. 3
    BY DEF Grades
  <1>7. PICK g : g = GradesOf(case)
    OBVIOUS
  <1>8. DOMAIN g = ToSet(ids)
    BY <1>4, <1>7 DEF GradesOf
  <1>9. IsFiniteSet(DOMAIN g) /\ DOMAIN g \subseteq Nat
    <2>1. /\ IsFiniteSet(ToSet(ids))
          /\ \A x : x \in ToSet(ids) <=> \E i \in DOMAIN ids : x = ids[i]
      BY <1>5, ListedFinite
    <2> QED
      BY <1>5, <1>8, <2>1
  <1>10. ASSUME NEW id \in ToSet(ids)
         PROVE  g[id] \in 0 .. 3
    <2>1. PICK S : S = {i \in DOMAIN ids : ids[i] = id}
      OBVIOUS
    <2>2. S \in SUBSET (1 .. n) /\ S # {}
      BY <1>5, <1>10, <2>1 DEF ToSet
    <2>3. PICK m \in 1 .. n : m = Max(S)
      BY <2>2, GreatestOf
    <2>4. g[id] = Grades[e[m].label]
      BY <1>1, <1>4, <1>7, <2>1, <2>3 DEF GradesOf
    <2> QED
      BY <1>3, <1>6, <2>4
  <1> QED
    BY <1>4, <1>5, <1>7, <1>8, <1>9, <1>10 DEF Graded

\* What the metrics of a classified result say of its verdict.
Told(case, result, k) ==
    LET rel == result.relevance
        expected == ExpectedIds(case)
    IN  /\ IsInjective(expected) =>
              (result.actual = expected
               <=> /\ IsZero(rel.false_positive_rate) /\ IsZero(rel.false_negative_rate)
                   /\ IsZero(rel.displacement))
        /\ result.passed =>
              IsOne(result.intent) /\ IsOne(result.filter) /\ IsOne(result.satisfaction)
        /\ rel.ndcg # Unset => rel.ndcg[1] <= rel.ndcg[2]
        /\ rel.recall # Unset /\ Len(result.actual) <= k =>
              rel.recall[1] + rel.false_negative_rate[1] = rel.recall[2]

\* The verdict on a case and its metrics tell one story.
LEMMA VerdictTold ==
    ASSUME NEW case, Golden(case), NEW catalog, IsCatalog(catalog),
           NEW k \in Nat, k <= Len(Discount), NEW mode, NEW slow,
           NEW result, result = CaseResult(case, Served(mode, catalog, case.query, k, slow), k)
    PROVE  Told(case, result, k)
  <1>1. PICK a : a = Served(mode, catalog, case.query, k, slow)
    OBVIOUS
  <1>2. PICK products \in Seq(catalog) : IsInjective(products) /\ a.products = products
    <2>1. PICK query \in Seq(Words) : query = case.query
      BY DEF Golden
    <2> QED
      BY <1>1, <2>1, ServedIs
  <1>3. PICK actual : actual = Ids(products)
    OBVIOUS
  <1>4. actual \in Seq(Nat) /\ IsInjective(actual)
    BY <1>2, <1>3, IdsAre
  <1>5. PICK expected, R, grades : /\ expected = ExpectedIds(case) /\ R = ToSet(expected)
                                   /\ grades = GradesOf(case)
    OBVIOUS
  <1>6. expected \in Seq(Nat) /\ Graded(grades)
    BY <1>5, JudgmentsAre DEF Golden
  <1>7. IsFiniteSet(R)
    BY <1>5, <1>6, ListedFinite
  <1>8. /\ result.actual = actual
        /\ result.intent = query_understanding_field_accuracy(ExpectedIntent(case), a.interpreted)
        /\ result.filter = filter_accuracy(case.constraints, a.applied)
        /\ result.satisfaction = constraint_satisfaction(products, case.constraints)
        /\ result.relevance = Relevance(actual, expected, R, grades, k)
    BY <1>1, <1>2, <1>3, <1>5 DEF CaseResult
  <1>9. /\ result.relevance.recall = recall_at_k(actual, R, k)
        /\ result.relevance.false_positive_rate = false_positive_rate(actual, R)
        /\ result.relevance.false_negative_rate = false_negative_rate(actual, R)
        /\ result.relevance.ndcg = ndcg_at_k(actual, grades, k)
        /\ result.relevance.displacement = Displacement(actual, expected)
    BY <1>8 DEF Relevance
  <1>10. ASSUME IsInjective(expected)
         PROVE  actual = expected <=> /\ IsZero(false_positive_rate(actual, R))
                                      /\ IsZero(false_negative_rate(actual, R))
                                      /\ IsZero(Displacement(actual, expected))
    BY <1>4, <1>5, <1>6, <1>10, SameProducts
  <1>11. ASSUME result.passed
         PROVE  IsOne(result.intent) /\ IsOne(result.filter) /\ IsOne(result.satisfaction)
    <2>1. ~Misread(case, a) /\ ~Misfiltered(case, a) /\ ~Violated(case, a)
      BY <1>1, <1>11, PassedIs
    <2>2. IsOne(result.intent)
      <3>1. PICK e : e = IntentFields(ExpectedIntent(case))
        OBVIOUS
      <3>2. PICK i : i = IntentFields(a.interpreted)
        OBVIOUS
      <3>3. IsFiniteSet(DOMAIN e)
        BY <3>1, IntentFinite
      <3>4. result.intent = Accuracy(e, i) /\ ~Below1(Accuracy(e, i))
        BY <1>8, <2>1, <3>1, <3>2 DEF Misread, query_understanding_field_accuracy
      <3> QED
        BY <3>3, <3>4, AccuracyIs
    <2>3. IsOne(result.filter)
      <3>1. IsFiniteSet(DOMAIN case.constraints)
        BY FieldsFinite DEF Golden
      <3>2. result.filter = Accuracy(case.constraints, a.applied) /\ ~Below1(Accuracy(case.constraints, a.applied))
        BY <1>8, <2>1 DEF Misfiltered, filter_accuracy
      <3> QED
        BY <3>1, <3>2, AccuracyIs
    <2>4. IsOne(result.satisfaction)
      <3>1. ~Below1(constraint_satisfaction(products, case.constraints))
        BY <1>2, <2>1 DEF Violated
      <3> QED
        BY <1>8, <3>1, SatisfactionIs
    <2> QED
      BY <2>2, <2>3, <2>4
  <1>12. ndcg_at_k(actual, grades, k) # Unset =>
             ndcg_at_k(actual, grades, k)[1] <= ndcg_at_k(actual, grades, k)[2]
    BY <1>4, <1>6, NoBetterRanking
  <1>13. recall_at_k(actual, R, k) # Unset /\ Len(actual) <= k =>
             recall_at_k(actual, R, k)[1] + false_negative_rate(actual, R)[1] = recall_at_k(actual, R, k)[2]
    BY <1>4, <1>7, FoundAndMissing
  <1>14. PICK rel : rel = result.relevance
    OBVIOUS
  <1> QED
    BY ONLY <1>5, <1>8, <1>9, <1>10, <1>11, <1>12, <1>13 DEF Told

\* A dataset that the source validates passes with the first product.
LEMMA FirstIsRelevant ==
    ASSUME NEW case, case.query \in Seq(Words),
           case.expected \in Seq([id : Nat, label : DOMAIN Grades]),
           NEW catalog, IsCatalog(catalog), NEW k \in Nat, NEW mode, NEW slow,
           NEW result, result = SourceCaseResult(case, Served(mode, catalog, case.query, k, slow), k)
    PROVE  result.passed <=> /\ result.relevance.reciprocal_rank # Unset
                             /\ IsOne(result.relevance.reciprocal_rank)
  <1>1. PICK a : a = Served(mode, catalog, case.query, k, slow)
    OBVIOUS
  <1>2. PICK products \in Seq(catalog) : a.products = products
    <2>1. PICK query \in Seq(Words) : query = case.query
      OBVIOUS
    <2> QED
      BY <1>1, <2>1, ServedIs
  <1>3. PICK actual \in Seq(Nat) : actual = Ids(products)
    BY <1>2, IdsAre
  <1>4. PICK grades, R : grades = GradesOf(case) /\ R = {id \in DOMAIN grades : grades[id] > 0}
    OBVIOUS
  <1>5. PICK rank, ranks : /\ rank = reciprocal_rank(actual, R)
                           /\ ranks = {i \in DOMAIN actual : actual[i] \in R}
    OBVIOUS
  <1>6. /\ result.passed = (actual # <<>> /\ Head(actual) \in R)
        /\ result.relevance.reciprocal_rank = rank
    BY <1>1, <1>2, <1>3, <1>4, <1>5 DEF SourceCaseResult, Relevance
  <1>7. (actual # <<>> /\ Head(actual) \in R) <=> 1 \in ranks
    BY <1>5
  <1>8. CASE R = {}
    BY <1>5, <1>6, <1>7, <1>8 DEF reciprocal_rank
  <1>9. CASE R # {} /\ ranks = {}
    <2>1. rank = Ratio(0, 1)
      BY <1>5, <1>9 DEF reciprocal_rank
    <2>2. ~IsOne(rank)
      BY <2>1, RatioIs
    <2> QED
      BY <1>6, <1>7, <1>9, <2>2
  <1>10. CASE R # {} /\ ranks # {}
    <2>1. ranks \in SUBSET Nat
      BY <1>5
    <2>2. PICK m \in Nat : m = Min(ranks) /\ m \in ranks /\ \A i \in ranks : m <= i
      BY <1>10, <2>1, LeastOf
    <2>3. \A i \in ranks : i \in Nat /\ 1 <= i
      BY <1>5
    <2>4. m = 1 <=> 1 \in ranks
      BY <2>2, <2>3
    <2>5. rank = Ratio(1, m)
      BY <1>5, <1>10, <2>2 DEF reciprocal_rank
    <2>6. rank # Unset /\ (IsOne(rank) <=> 1 = m)
      BY <2>5, RatioIs
    <2> QED
      BY <1>6, <1>7, <2>4, <2>6
  <1> QED
    BY <1>8, <1>9, <1>10

\* What the review script passes, a healthy system passes too.
LEMMA ReviewAgrees ==
    ASSUME NEW case, Golden(case), NEW catalog, IsCatalog(Catalogs[catalog]),
           ReviewVerdict(case, catalog) = "PASS"
    PROVE  CaseResult(case, Search(Catalogs[catalog], case.query, 100, FALSE), 100).passed
  <1>1. PICK C : C = Catalogs[catalog]
    OBVIOUS
  <1>2. PICK a : a = Search(C, case.query, 100, FALSE)
    OBVIOUS
  <1>3. a.interpreted = ExpectedIntent(case) /\ Ids(a.products) = ExpectedIds(case)
    BY <1>1, <1>2 DEF ReviewVerdict
  <1>4. PICK intent : intent = parse_query(case.query)
    OBVIOUS
  <1>5. PICK retrieved \in Seq(C) :
           IsInjective(retrieved) /\ a = Answered(retrieved, intent, 100, FALSE)
    <2>1. PICK query \in Seq(Words) : query = case.query
      BY DEF Golden
    <2>2. \E r \in Seq(C) :
              /\ IsInjective(r) /\ Len(r) <= CandidateLimit
              /\ \A quick : Search(C, query, 100, quick)
                              = Answered(r, parse_query(query), 100, quick)
      BY <1>1, <2>1, SearchIs
    <2> QED
      BY <1>2, <1>4, <2>1, <2>2
  <1>6. PICK filtered, products : /\ filtered = Filter(retrieved, intent.constraints)
                                  /\ products = Cut(filtered, 100)
    OBVIOUS
  <1>7. /\ a.interpreted = intent /\ a.applied = intent.constraints /\ a.slow = FALSE
        /\ a.retrieved = Ids(retrieved) /\ a.products = products
    BY <1>5, <1>6 DEF Answered
  <1>8. intent = ExpectedIntent(case) /\ intent.constraints = case.constraints
    BY <1>3, <1>7 DEF ExpectedIntent
  <1>9. /\ filtered \in Seq(C) /\ products \in Seq(C)
        /\ \A i \in DOMAIN filtered : /\ Satisfies(filtered[i], case.constraints)
                                      /\ \E j \in DOMAIN retrieved : filtered[i] = retrieved[j]
        /\ \A i \in DOMAIN products : i \in DOMAIN filtered /\ products[i] = filtered[i]
    BY <1>1, <1>5, <1>6, <1>8, AnsweredIs
  <1>10. ~Misread(case, a)
    <2>1. PICK e : e = IntentFields(ExpectedIntent(case))
      OBVIOUS
    <2>2. IsFiniteSet(DOMAIN e)
      BY <2>1, IntentFinite
    <2>3. ~Below1(Accuracy(e, e))
      BY <2>2, AccuracyIs
    <2>4. query_understanding_field_accuracy(ExpectedIntent(case), a.interpreted) = Accuracy(e, e)
      BY <1>3, <2>1 DEF query_understanding_field_accuracy
    <2> QED
      BY <2>3, <2>4 DEF Misread
  <1>11. ~Misfiltered(case, a)
    <2>1. IsFiniteSet(DOMAIN case.constraints)
      BY FieldsFinite DEF Golden
    <2>2. ~Below1(Accuracy(case.constraints, case.constraints))
      BY <2>1, AccuracyIs
    <2> QED
      BY <1>7, <1>8, <2>2 DEF Misfiltered, filter_accuracy
  <1>12. ~Violated(case, a)
    <2>1. ASSUME NEW i \in DOMAIN products
          PROVE  Violations(products[i], case.constraints) = {}
      <3>1. products[i] \in C /\ Satisfies(products[i], case.constraints)
        BY <1>9
      <3>2. products[i].price \in Nat
        BY <1>1, <3>1 DEF IsCatalog
      <3> QED
        BY <3>1, <3>2, ViolationsAre DEF Golden
    <2> QED
      BY <1>7, <1>9, <2>1, SatisfactionIs DEF Violated
  <1>13. ~Missed(case, a)
    <2>1. /\ \A y : y \in ToSet(Ids(products)) <=> \E i \in DOMAIN products : y = products[i].id
          /\ \A y : y \in ToSet(Ids(retrieved)) <=> \E i \in DOMAIN retrieved : y = retrieved[i].id
      BY <1>1, <1>5, <1>9, IdsAre
    <2> QED
      BY <1>3, <1>7, <1>9, <2>1 DEF Missed
  <1>14. ~Gaping(case, a)
    BY <1>3 DEF Gaping
  <1>15. ~Misranked(case, a)
    BY <1>3 DEF Misranked
  <1>16. ~Cluttered(case, a)
    BY <1>3 DEF Cluttered
  <1>17. Classify(case, a) = "NONE"
    BY <1>7, <1>10, <1>11, <1>12, <1>13, <1>14, <1>15, <1>16, Harmless
  <1> QED
    BY <1>1, <1>2, <1>3, <1>17 DEF CaseResult

-----------------------------------------------------------------------------
(* What a command has judged *)

\* A command that evaluates has what is read as a dataset, a golden one when it
\* classifies, and each of its results is that of a case of it.
HasDataset(r) ==
    /\ SourceCases(memo[r].input)
    /\ Classified(r) => HasCases(memo[r].input)
Judging(r) ==
    /\ \E S : memo[r].results \in Seq(S)
    /\ pc[r] \in {"ready", "load", "loadJob", "checkJob"} => memo[r].results = <<>>
    /\ pc[r] = "checkJob" => HasDataset(r)
    /\ pc[r] = "case" \/ memo[r].results # <<>> =>
          /\ HasDataset(r)
          /\ Len(memo[r].results) <= Len(Cases(r))
          /\ pc[r] = "case" => Len(memo[r].results) < Len(Cases(r))
          /\ \A i \in DOMAIN memo[r].results : \E slow \in BOOLEAN :
                memo[r].results[i] = ResultOf(r, Cases(r)[i], slow)

\* The verdicts of the review script are on the cases of a golden dataset.
Reviewed(r) ==
    /\ pc[r] \in {"ready", "review"} => memo[r].results = <<>>
    /\ memo[r].results # <<>> =>
          /\ HasCases(memo[r].input)
          /\ memo[r].results = [i \in DOMAIN Cases(r) |->
                                   ReviewVerdict(Cases(r)[i], Call[r].catalog)]

JudgedInv ==
    /\ StagedInv
    /\ \A r \in Made : /\ Evaluates(r) => Judging(r)
                       /\ Call[r].op = "reviewScript" => Reviewed(r)

\* A list of cases.
LEMMA CasesAre ==
    ASSUME NEW x, SourceCases(x)
    PROVE  /\ x.body.cases \in Seq(ToSet(x.body.cases)) /\ Len(x.body.cases) \in Nat
           /\ x.body.cases # <<>> => Len(x.body.cases) > 0
  <1>1. PICK cases, S : cases = x.body.cases /\ S = ToSet(cases)
    OBVIOUS
  <1>2. cases \in Seq(S)
    BY <1>1 DEF SourceCases
  <1>3. Len(cases) \in Nat /\ (cases # <<>> => Len(cases) > 0)
    BY ONLY <1>2
  <1> QED
    BY <1>1, <1>2, <1>3

\* What the result of a case is does not change.
LEMMA SameResult ==
    \A r, case, slow : ResultOf(r, case, slow)' = ResultOf(r, case, slow)
  BY DEF ResultOf, Response, Classified, Evaluates

\* A step of an evaluation leaves it with results of its cases.
LEMMA Judges ==
    ASSUME StagedInv, NEW r \in Made, Step(r), Evaluates(r), Judging(r)
    PROVE  Judging(r)'
  <1>1. Staged(r) /\ Frame(r) /\ DOMAIN memo = Made /\ Moves(r)
    BY StepStaged DEF StagedInv
  <1>2. ASSUME NEW to, Settle(r, to)
        PROVE  /\ pc'[r] = to
               /\ memo'[r].input = memo[r].input /\ memo'[r].results = memo[r].results
    BY <1>1, <1>2 DEF Settle, After, Staged
  <1>3. CASE /\ memo'[r].input = memo[r].input /\ memo'[r].results = memo[r].results
             /\ pc'[r] \in {"ready", "load", "loadJob"} => pc[r] \in {"ready", "load", "loadJob"}
             /\ pc'[r] \notin {"checkJob", "case"}
    <2>1. Cases(r)' = Cases(r)
      BY <1>3 DEF Cases
    <2>2. HasDataset(r)' <=> HasDataset(r)
      BY <1>3 DEF HasDataset, Classified, Evaluates
    <2> QED
      BY <1>3, <2>1, <2>2, SameResult DEF Judging
  <1>4. CASE Begin(r)
    <2>1. After(r, FirstStep[Call[r].op], memo[r]) /\ pc[r] = "ready"
      BY <1>1, <1>4, FileOutcome, Guards DEF Evaluates
    <2> QED
      BY <1>3, <2>1 DEF After, FirstStep, Evaluates
  <1>5. CASE Crash(r)
    <2>1. Settle(r, "crashed")
      BY <1>1, <1>5, FileOutcome
    <2> QED
      BY ONLY <1>2, <1>3, <2>1
  <1>6. CASE EvaluateLoad(r)
    <2>1. pc[r] = "load" /\ memo[r].results = <<>> /\ Call[r].op = "evaluate"
      <3>1. pc[r] = "load"
        BY <1>6, Guards
      <3>2. Call[r].op = "evaluate"
        BY <1>1, <3>1 DEF Staged, Stages, Answers, Evaluates
      <3> QED
        BY <3>1, <3>2 DEF Judging
    <2>2. CASE Reject(r)
      BY <1>1, <1>2, <1>3, <2>2, Helpers
    <2>3. CASE ~Reject(r)
      <3>1. PICK x : x = Content(Call[r].path)
        OBVIOUS
      <3>2. /\ HasCases(x) /\ validate_golden_dataset(x, Call[r].catalog, TRUE)
            /\ pc'[r] = "case" /\ memo'[r] = [memo[r] EXCEPT !.input = x]
        BY <1>1, <1>6, <2>3, <3>1 DEF EvaluateLoad, Read, Goto, Remember, Made
      <3>3. memo'[r].input = x /\ memo'[r].results = <<>>
        BY <1>1, <2>1, <3>2 DEF Staged
      <3>4. Len(x.body.cases) > 0 /\ Len(<<>>) = 0
        BY <3>2, SomeCase
      <3>5. HasDataset(r)'
        BY <3>2, <3>3 DEF HasDataset, HasCases
      <3>6. Cases(r)' = x.body.cases
        BY <3>3 DEF Cases
      <3>7. Len(x.body.cases) \in Nat
        BY <3>2, CasesAre DEF HasCases
      <3>8. <<>> \in Seq({})
        OBVIOUS
      <3> QED
        BY <3>2, <3>3, <3>4, <3>5, <3>6, <3>7, <3>8 DEF Judging
    <2> QED
      BY <2>2, <2>3
  <1>7. CASE LoadJob(r)
    <2>1. pc[r] = "loadJob" /\ memo[r].results = <<>>
      BY <1>7, Guards DEF Judging
    <2>2. CASE Reject(r)
      BY <1>1, <1>2, <1>3, <2>2, Helpers
    <2>3. CASE ~Reject(r)
      <3>1. PICK x : x = Reconstructed(Imported[Call[r].dataset])
        OBVIOUS
      <3>2. /\ IF Classified(r) THEN HasCases(x) ELSE SourceCases(x)
            /\ pc'[r] = "checkJob" /\ memo'[r] = [memo[r] EXCEPT !.input = x]
        BY <1>1, <1>7, <2>3, <3>1 DEF LoadJob, Read, Goto, Remember, Made
      <3>3. memo'[r].input = x /\ memo'[r].results = <<>>
        BY <1>1, <2>1, <3>2 DEF Staged
      <3>4. HasDataset(r)'
        BY <3>2, <3>3 DEF HasDataset, HasCases, Classified, Evaluates
      <3>5. <<>> \in Seq({})
        OBVIOUS
      <3> QED
        BY <3>2, <3>3, <3>4, <3>5 DEF Judging
    <2> QED
      BY <2>2, <2>3
  <1>8. CASE CheckJob(r)
    <2>1. pc[r] = "checkJob" /\ memo[r].results = <<>> /\ HasDataset(r)
      BY <1>8, Guards DEF Judging
    <2>2. CASE Reject(r)
      BY <1>1, <1>2, <1>3, <2>2, Helpers
    <2>3. CASE ~Reject(r)
      <3>1. pc'[r] = (IF Cases(r) = <<>> THEN "written" ELSE "case") /\ memo' = memo
        BY <1>1, <1>8, <2>3 DEF CheckJob, Skip, Goto, Made
      <3>2. CASE Cases(r) = <<>>
        BY <1>3, <3>1, <3>2
      <3>3. CASE Cases(r) # <<>>
        <4>1. Cases(r)' = Cases(r) /\ (HasDataset(r)' <=> HasDataset(r))
          BY <3>1 DEF Cases, HasDataset, Classified, Evaluates
        <4>2. Len(Cases(r)) \in Nat /\ Len(Cases(r)) > 0
          BY <2>1, <3>3, CasesAre DEF HasDataset, Cases
        <4>3. <<>> \in Seq({}) /\ Len(<<>>) = 0
          OBVIOUS
        <4>4. memo'[r].results = <<>> /\ pc'[r] = "case"
          BY <2>1, <3>1, <3>3
        <4>5. HasDataset(r)'
          BY <2>1, <4>1
        <4> QED
          BY <4>1, <4>2, <4>3, <4>4, <4>5 DEF Judging
      <3> QED
        BY <3>2, <3>3
    <2> QED
      BY <2>2, <2>3
  <1>9. CASE EvaluateCase(r)
    <2>1. pc[r] = "case"
      BY <1>9, Guards
    <2>2. CASE Reject(r)
      BY <1>1, <1>2, <1>3, <2>2, Helpers
    <2>3. CASE ~Reject(r)
      <3>1. PICK n, cases, results : /\ results = memo[r].results /\ n = Len(results) + 1
                                     /\ cases = Cases(r)
        OBVIOUS
      <3>2. PICK x, slow :
               /\ slow \in BOOLEAN /\ x = ResultOf(r, cases[n], slow)
               /\ memo'[r] = [memo[r] EXCEPT !.results = Append(@, x)]
               /\ pc'[r] = IF n # Len(cases) THEN "case"
                           ELSE IF Call[r].op = "evaluate" THEN "look" ELSE "written"
        BY <1>1, <1>9, <2>3, <3>1 DEF EvaluateCase, Goto, Remember, Made
      <3>3. memo'[r].input = memo[r].input /\ memo'[r].results = Append(results, x)
        BY <1>1, <3>1, <3>2 DEF Staged
      <3>4. Cases(r)' = cases /\ (HasDataset(r)' <=> HasDataset(r))
        BY <3>1, <3>3 DEF Cases, HasDataset, Classified, Evaluates
      <3>5. /\ HasDataset(r) /\ Len(cases) \in Nat /\ Len(results) < Len(cases)
            /\ \A i \in DOMAIN results : \E s \in BOOLEAN : results[i] = ResultOf(r, cases[i], s)
        <4>1. HasDataset(r)
          BY <2>1 DEF Judging
        <4>2. Len(cases) \in Nat
          BY <3>1, <4>1, CasesAre DEF HasDataset, Cases
        <4> QED
          BY <2>1, <3>1, <4>1, <4>2 DEF Judging
      <3>6. PICK S : results \in Seq(S)
        BY <3>1 DEF Judging
      <3>7. PICK more : more = Append(results, x)
        OBVIOUS
      <3>8. /\ Len(more) = n /\ DOMAIN more = 1 .. n /\ more[n] = x /\ more \in Seq(S \union {x})
            /\ \A i \in DOMAIN results : more[i] = results[i]
            /\ \A i \in DOMAIN more : i = n \/ i \in DOMAIN results
        BY <3>1, <3>6, <3>7
      <3>9. \A i \in DOMAIN more : \E s \in BOOLEAN : more[i] = ResultOf(r, cases[i], s)
        BY <3>2, <3>5, <3>8
      <3>10. n <= Len(cases) /\ (pc'[r] = "case" => n < Len(cases))
        <4>1. Len(results) \in Nat
          BY <3>6
        <4> QED
          BY <3>1, <3>2, <3>5, <4>1
      <3>11. pc'[r] \notin {"ready", "load", "loadJob", "checkJob"}
        BY <3>2
      <3>12. memo'[r].results = more
        BY <3>3, <3>7
      <3> QED
        BY <3>4, <3>5, <3>8, <3>9, <3>10, <3>11, <3>12, SameResult DEF Judging
    <2> QED
      BY <2>2, <2>3
  <1>10. CASE Call[r].op = "executeJob" /\ Written(r)
    <2>1. Settle(r, "done")
      BY <1>1, <1>10, FileOutcome
    <2> QED
      BY ONLY <1>2, <1>3, <2>1
  <1>11. CASE /\ Call[r].op = "evaluate"
              /\ OpenFile(r) \/ WriteFile(r) \/ WriteFails(r) \/ Look(r) \/ ReplaceArtifact(r)
    <2>1. pc[r] \in {"open", "write", "look", "replace"}
      BY <1>11, Guards
    <2>2. memo'[r].input = memo[r].input /\ memo'[r].results = memo[r].results
          /\ pc'[r] \in Answers \union {"open", "write", "replace"}
      BY <1>1, <1>11, <2>1, Recording
    <2> QED
      BY <1>3, <2>2 DEF Answers
  <1> QED
    BY <1>1, <1>4, <1>5, <1>6, <1>7, <1>8, <1>9, <1>10, <1>11 DEF Moves, Evaluates

\* A step of the review script leaves it with verdicts on the cases that it has read.
LEMMA Reviews ==
    ASSUME StagedInv, NEW r \in Made, Step(r), Call[r].op = "reviewScript", Reviewed(r)
    PROVE  Reviewed(r)'
  <1>1. Staged(r) /\ Frame(r) /\ DOMAIN memo = Made /\ Moves(r)
    BY StepStaged DEF StagedInv
  <1>2. CASE /\ memo'[r].input = memo[r].input /\ memo'[r].results = memo[r].results
             /\ pc'[r] \in {"ready", "review"} => pc[r] \in {"ready", "review"}
    <2>1. Cases(r)' = Cases(r)
      BY <1>2 DEF Cases
    <2>2. HasCases(memo[r].input)' <=> HasCases(memo[r].input)
      BY <1>2
    <2> QED
      BY <1>2, <2>1, <2>2 DEF Reviewed
  <1>3. ASSUME NEW to, Settle(r, to)
        PROVE  /\ pc'[r] = to
               /\ memo'[r].input = memo[r].input /\ memo'[r].results = memo[r].results
    BY <1>1, <1>3 DEF Settle, After, Staged
  <1>4. CASE Begin(r)
    <2>1. FirstStep[Call[r].op] = "review"
      BY DEF FirstStep
    <2>2. Call[r].op # "download"
      OBVIOUS
    <2>3. After(r, "review", memo[r]) /\ pc[r] = "ready"
      BY <1>1, <1>4, <2>1, <2>2, FileOutcome, Guards
    <2> QED
      BY <1>2, <2>3 DEF After
  <1>5. CASE Crash(r)
    <2>1. Settle(r, "crashed")
      BY <1>1, <1>5, FileOutcome
    <2> QED
      BY ONLY <1>2, <1>3, <2>1
  <1>6. CASE ReviewGolden(r)
    <2> DEFINE draft == Content(GoldenDraft(r))
               verdicts == [i \in DOMAIN draft.body.cases |->
                               ReviewVerdict(draft.body.cases[i], Call[r].catalog)]
               to == IF "FAIL" \in ToSet(verdicts) THEN "error" ELSE "done"
    <2>1. \/ /\ Read(r, to, [memo[r] EXCEPT !.input = draft, !.results = verdicts])
             /\ HasCases(draft)
          \/ Reject(r)
      BY <1>6 DEF ReviewGolden
    <2>2. to \notin {"ready", "review"}
      OBVIOUS
    <2>3. PICK x : x = draft
      OBVIOUS
    <2>4. verdicts = [i \in DOMAIN x.body.cases |-> ReviewVerdict(x.body.cases[i], Call[r].catalog)]
      BY <2>3
    <2> HIDE DEF to, draft, verdicts
    <2>5. CASE Read(r, to, [memo[r] EXCEPT !.input = draft, !.results = verdicts]) /\ HasCases(draft)
      <3>1. After(r, to, [memo[r] EXCEPT !.input = draft, !.results = verdicts])
        BY <1>1, <2>5, Helpers
      <3>2. memo'[r].input = x /\ memo'[r].results = verdicts /\ pc'[r] = to
        BY <1>1, <2>3, <3>1 DEF After, Staged
      <3>3. Cases(r)' = x.body.cases
        BY <3>2 DEF Cases
      <3> QED
        BY <2>2, <2>3, <2>4, <2>5, <3>2, <3>3 DEF Reviewed
    <2>6. CASE Reject(r)
      BY <1>1, <1>2, <1>3, <2>6, Helpers
    <2> QED
      BY <2>1, <2>5, <2>6
  <1> QED
    BY <1>1, <1>4, <1>5, <1>6 DEF Moves

\* At the start nothing is judged.
LEMMA InitJudged ==
    ASSUME Init
    PROVE  JudgedInv
  <1>1. PICK w \in Workloads : pc = [r \in w.commands |-> "ready"]
    BY DEF Init
  <1>2. \A r \in Made : pc[r] = "ready" /\ memo[r].results = <<>>
    BY <1>1 DEF Init, Made, Blank
  <1>3. <<>> \in Seq({})
    OBVIOUS
  <1> QED
    BY <1>2, <1>3, InitStaged DEF JudgedInv, Judging, Reviewed

\* A step keeps what is judged.
LEMMA StepJudged ==
    ASSUME JudgedInv, NEW s \in Made, Step(s)
    PROVE  JudgedInv'
  <1>1. StagedInv /\ StagedInv' /\ Frame(s)
    BY StepStaged DEF JudgedInv
  <1>2. ASSUME NEW r \in Made, r # s
        PROVE  (Judging(r)' <=> Judging(r)) /\ (Reviewed(r)' <=> Reviewed(r))
    <2>1. pc'[r] = pc[r] /\ memo'[r] = memo[r]
      BY <1>1, <1>2 DEF Frame
    <2>2. Cases(r)' = Cases(r) /\ (HasDataset(r)' <=> HasDataset(r))
      BY <2>1 DEF Cases, HasDataset, Classified, Evaluates
    <2> QED
      BY <2>1, <2>2, SameResult DEF Judging, Reviewed
  <1>3. Evaluates(s) => Judging(s)'
    BY <1>1, Judges DEF JudgedInv
  <1>4. Call[s].op = "reviewScript" => Reviewed(s)'
    BY <1>1, Reviews DEF JudgedInv
  <1>5. Made' = Made
    BY <1>1 DEF Frame
  <1> QED
    BY <1>1, <1>2, <1>3, <1>4, <1>5 DEF JudgedInv, Evaluates

\* So does a step of none of the commands.
LEMMA StutterJudged ==
    ASSUME JudgedInv, UNCHANGED vars
    PROVE  JudgedInv'
  <1> USE DEF vars
  <1>1. StagedInv' /\ Made' = Made
    <2>1. \A r \in Made : Pending(r)' <=> Pending(r)
      BY DEF Pending, One, Two, Three, Artifact, Config, Draft, Review, Published, GoldenJson,
         GoldenReview, Temporary, Packet
    <2> QED
      BY <2>1 DEF JudgedInv, StagedInv, Staged, Made
  <1>2. \A r : Cases(r)' = Cases(r) /\ (HasDataset(r)' <=> HasDataset(r))
    BY DEF Cases, HasDataset, Classified, Evaluates
  <1>3. \A r : (Judging(r)' <=> Judging(r)) /\ (Reviewed(r)' <=> Reviewed(r))
    BY <1>2, SameResult DEF Judging, Reviewed
  <1> QED
    BY <1>1, <1>3 DEF JudgedInv, Evaluates

\* The results that commands hold are those of cases of their datasets.
THEOREM ResultsAreOfCases == Spec => []JudgedInv
  <1>1. Init => JudgedInv
    BY InitJudged
  <1>2. JudgedInv /\ [Next]_vars => JudgedInv'
    BY StepJudged, StutterJudged DEF Next
  <1> QED
    BY <1>1, <1>2, PTL DEF Spec

\* What the options of a command that evaluates are.
LEMMA Options ==
    ASSUME StagedInv, NEW r \in Made, Evaluates(r)
    PROVE  /\ IsCatalog(Catalogs[Call[r].catalog]) /\ ModeOf[Call[r].system] \in Modes
           /\ Call[r].top_k \in Nat /\ Call[r].top_k <= Len(Discount)
  <1>1. r \in Commands
    BY DEF StagedInv
  <1>2. /\ Call[r].catalog \in DOMAIN Catalogs /\ Call[r].system \in DOMAIN ModeOf
        /\ Call[r].top_k \in 1 .. Len(Discount)
    BY <1>1, EvaluateAssumption DEF Evaluates
  <1>3. Len(Discount) \in Nat
    BY DiscountAssumption
  <1>4. Call[r].top_k \in Nat /\ Call[r].top_k <= Len(Discount)
    BY <1>2, <1>3
  <1> QED
    BY <1>2, <1>4, CatalogAssumption, ModeAssumption DEF IsCatalog

\* Each result is that of a case that was read.
LEMMA ResultIs ==
    ASSUME JudgedInv, NEW r \in Made, Evaluates(r), NEW i \in DOMAIN memo[r].results
    PROVE  /\ \E slow \in BOOLEAN : memo[r].results[i] = ResultOf(r, Cases(r)[i], slow)
           /\ Cases(r)[i].query \in Seq(Words)
           /\ Cases(r)[i].expected \in Seq([id : Nat, label : DOMAIN Grades])
           /\ Classified(r) => Golden(Cases(r)[i])
  <1>1. Judging(r)
    BY DEF JudgedInv
  <1>2. PICK S : memo[r].results \in Seq(S)
    BY <1>1 DEF Judging
  <1>3. memo[r].results # <<>> /\ i \in 1 .. Len(memo[r].results) /\ Len(memo[r].results) \in Nat
    BY <1>2
  <1>4. /\ HasDataset(r) /\ Len(memo[r].results) <= Len(Cases(r))
        /\ \E slow \in BOOLEAN : memo[r].results[i] = ResultOf(r, Cases(r)[i], slow)
    BY <1>1, <1>3 DEF Judging
  <1>5. PICK x : x = memo[r].input /\ SourceCases(x) /\ (Classified(r) => HasCases(x))
    BY <1>4 DEF HasDataset
  <1>6. PICK cases, T : cases = x.body.cases /\ T = ToSet(cases)
    OBVIOUS
  <1>7. cases \in Seq(T) /\ Cases(r) = cases
    BY <1>5, <1>6 DEF SourceCases, Cases
  <1>8. i \in 1 .. Len(cases) /\ cases[i] \in T
    <2>1. i \in 1 .. Len(cases)
      BY <1>3, <1>4, <1>7
    <2> QED
      BY <1>7, <2>1
  <1>9. PICK case : case = cases[i]
    OBVIOUS
  <1>10. /\ case.query \in Seq(Words)
         /\ case.expected \in Seq([id : Nat, label : DOMAIN Grades])
    BY <1>5, <1>6, <1>8, <1>9 DEF SourceCases
  <1>11. ASSUME Classified(r)
         PROVE  Golden(case)
    <2>1. /\ DOMAIN case.constraints = Fields
          /\ \A f \in {"min_price", "max_price"} : case.constraints[f] \in Nat \union {Unset}
      BY <1>5, <1>6, <1>8, <1>9, <1>11 DEF HasCases
    <2> QED
      BY <1>10, <2>1 DEF Golden
  <1> QED
    BY <1>4, <1>7, <1>9, <1>10, <1>11

\* What is judged is the last result of a command.
LEMMA JudgedIs ==
    ASSUME NEW j \in Judged
    PROVE  /\ j[1] \in Made /\ Evaluates(j[1]) /\ Classified(j[1])
           /\ memo[j[1]].results # <<>> /\ j[2] = Len(memo[j[1]].results)
  BY DEF Judged

\* A fault that a system injects into a case that it would pass is called by its name.
THEOREM FaultsAreNamed == Spec => []FaultsNamed
  <1>1. ASSUME JudgedInv
        PROVE  FaultsNamed
    <2>1. ASSUME NEW r \in Made, Evaluates(r), Classified(r), memo[r].results # <<>>,
                 NEW n, n = Len(memo[r].results),
                 NEW case, case = Cases(r)[n], NEW result, result = memo[r].results[n],
                 NEW mode, mode = ModeOf[Call[r].system],
                 NEW catalog, catalog = Catalogs[Call[r].catalog],
                 NEW healthy, healthy = Search(catalog, case.query, Call[r].top_k, FALSE),
                 CaseResult(case, healthy, Call[r].top_k).passed
          PROVE  CalledByName(mode, case, healthy, result, catalog)
      <3>1. StagedInv /\ Judging(r)
        BY <1>1, <2>1 DEF JudgedInv
      <3>2. n \in DOMAIN memo[r].results
        <4>1. PICK S : memo[r].results \in Seq(S)
          BY <3>1 DEF Judging
        <4> QED
          BY <2>1, <4>1
      <3>3. PICK slow \in BOOLEAN : result = ResultOf(r, case, slow)
        BY <1>1, <2>1, <3>2, ResultIs
      <3>4. Golden(case)
        BY <1>1, <2>1, <3>2, ResultIs
      <3>5. PICK k : k = Call[r].top_k
        OBVIOUS
      <3>6. IsCatalog(catalog) /\ mode \in Modes /\ k \in Nat
        BY <2>1, <3>1, <3>5, Options
      <3>7. result = CaseResult(case, Served(mode, catalog, case.query, k, slow), k)
        BY <2>1, <3>3, <3>5 DEF ResultOf, Response
      <3>8. healthy = Search(catalog, case.query, k, FALSE) /\ CaseResult(case, healthy, k).passed
        BY <2>1, <3>5
      <3> QED
        BY ONLY <3>3, <3>4, <3>6, <3>7, <3>8, FaultNamed
    <2>2. ASSUME NEW j \in Judged,
                 NEW r, r = j[1], NEW case, case = Cases(r)[j[2]],
                 NEW healthy,
                 healthy = Search(Catalogs[Call[r].catalog], case.query, Call[r].top_k, FALSE),
                 CaseResult(case, healthy, Call[r].top_k).passed
          PROVE  CalledByName(ModeOf[Call[r].system], case, healthy, memo[r].results[j[2]],
                              Catalogs[Call[r].catalog])
      BY <2>1, <2>2, JudgedIs
    <2> QED
      BY <2>2 DEF FaultsNamed, CalledByName
  <1> QED
    BY <1>1, ResultsAreOfCases, PTL

\* The verdict on a case and its metrics tell one story.
THEOREM VerdictsMatch == Spec => []VerdictMatchesMetrics
  <1>1. ASSUME JudgedInv
        PROVE  VerdictMatchesMetrics
    <2>0. StagedInv
      BY <1>1 DEF JudgedInv
    <2>1. ASSUME NEW r \in Made, Evaluates(r), Classified(r), memo[r].results # <<>>,
                 NEW n, n = Len(memo[r].results)
          PROVE  Told(Cases(r)[n], memo[r].results[n], Call[r].top_k)
      <3>1. Judging(r)
        BY <1>1, <2>1 DEF JudgedInv
      <3>2. n \in DOMAIN memo[r].results
        <4>1. PICK S : memo[r].results \in Seq(S)
          BY <3>1 DEF Judging
        <4> QED
          BY <2>1, <4>1
      <3>3. PICK k, case, result, mode, catalog :
               /\ k = Call[r].top_k /\ case = Cases(r)[n] /\ result = memo[r].results[n]
               /\ mode = ModeOf[Call[r].system] /\ catalog = Catalogs[Call[r].catalog]
        OBVIOUS
      <3>4. PICK slow \in BOOLEAN : result = ResultOf(r, case, slow)
        BY <1>1, <2>1, <3>2, <3>3, ResultIs
      <3>5. Golden(case)
        BY <1>1, <2>1, <3>2, <3>3, ResultIs
      <3>6. IsCatalog(catalog) /\ k \in Nat /\ k <= Len(Discount)
        BY <2>0, <2>1, <3>3, Options
      <3>7. result = CaseResult(case, Served(mode, catalog, case.query, k, slow), k)
        BY <2>1, <3>3, <3>4 DEF ResultOf, Response
      <3>8. Told(case, result, k)
        BY ONLY <3>5, <3>6, <3>7, VerdictTold
      <3> QED
        BY <3>3, <3>8
    <2>2. ASSUME NEW r \in Made, Evaluates(r), ~Classified(r), NEW i \in DOMAIN memo[r].results
          PROVE  memo[r].results[i].passed <=>
                     /\ memo[r].results[i].relevance.reciprocal_rank # Unset
                     /\ IsOne(memo[r].results[i].relevance.reciprocal_rank)
      <3>1. PICK k, case, result, mode, catalog :
               /\ k = Call[r].top_k /\ case = Cases(r)[i] /\ result = memo[r].results[i]
               /\ mode = ModeOf[Call[r].system] /\ catalog = Catalogs[Call[r].catalog]
        OBVIOUS
      <3>2. PICK slow \in BOOLEAN : result = ResultOf(r, case, slow)
        BY <1>1, <2>2, <3>1, ResultIs
      <3>3. case.query \in Seq(Words) /\ case.expected \in Seq([id : Nat, label : DOMAIN Grades])
        BY <1>1, <2>2, <3>1, ResultIs
      <3>4. IsCatalog(catalog) /\ k \in Nat
        BY <2>0, <2>2, <3>1, Options
      <3>5. result = SourceCaseResult(case, Served(mode, catalog, case.query, k, slow), k)
        BY <2>2, <3>1, <3>2 DEF ResultOf, Response
      <3>6. result.passed <=> /\ result.relevance.reciprocal_rank # Unset
                              /\ IsOne(result.relevance.reciprocal_rank)
        BY ONLY <3>3, <3>4, <3>5, FirstIsRelevant
      <3> QED
        BY <3>1, <3>6
    <2>3. ASSUME NEW r \in Made, Call[r].op = "reviewScript", NEW i \in DOMAIN memo[r].results,
                 memo[r].results[i] = "PASS"
          PROVE  CaseResult(Cases(r)[i],
                            Search(Catalogs[Call[r].catalog], Cases(r)[i].query, 100, FALSE),
                            100).passed
      <3>1. Reviewed(r) /\ r \in Commands
        BY <1>1, <2>0, <2>3 DEF JudgedInv, StagedInv
      <3>2. PICK catalog : catalog = Call[r].catalog
        OBVIOUS
      <3>3. IsCatalog(Catalogs[catalog])
        BY <2>3, <3>1, <3>2, EvaluateAssumption, CatalogAssumption DEF IsCatalog
      <3>4. memo[r].results # <<>>
        BY <2>3
      <3>5. PICK x, cases, T : x = memo[r].input /\ cases = x.body.cases /\ T = ToSet(cases)
        OBVIOUS
      <3>6. /\ HasCases(x)
            /\ memo[r].results = [j \in DOMAIN cases |-> ReviewVerdict(cases[j], catalog)]
        BY <3>1, <3>2, <3>4, <3>5 DEF Reviewed, Cases
      <3>7. i \in DOMAIN cases /\ ReviewVerdict(cases[i], catalog) = "PASS"
        BY <2>3, <3>6
      <3>8. cases \in Seq(T)
        BY <3>5, <3>6 DEF HasCases, SourceCases
      <3>9. PICK case : case = cases[i]
        OBVIOUS
      <3>10. case \in T
        BY <3>7, <3>8, <3>9
      <3>11. Golden(case)
        BY <3>5, <3>6, <3>10 DEF HasCases, SourceCases, Golden
      <3>12. ReviewVerdict(case, catalog) = "PASS"
        BY <3>7, <3>9
      <3>13. CaseResult(case, Search(Catalogs[catalog], case.query, 100, FALSE), 100).passed
        BY ONLY <3>3, <3>11, <3>12, ReviewAgrees
      <3> QED
        BY <3>2, <3>5, <3>9, <3>13 DEF Cases
    <2>4. ASSUME NEW j \in Judged
          PROVE  Told(Cases(j[1])[j[2]], memo[j[1]].results[j[2]], Call[j[1]].top_k)
      BY <2>1, JudgedIs
    <2> QED
      BY <2>2, <2>3, <2>4 DEF VerdictMatchesMetrics, Told
  <1> QED
    BY <1>1, ResultsAreOfCases, PTL
===============================================================================
