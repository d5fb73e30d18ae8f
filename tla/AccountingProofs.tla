--------------------------- MODULE AccountingProofs ---------------------------
(***************************************************************************)
(* Theorems about what the SDK adds up: the bytes of the hosts a task      *)
(* talks to (NetworkTotals), for any set of hosts and any caps; the GPU    *)
(* time of its processes (GpuAccounting), for any processes and any length *)
(* of the task; the tokens of a provider's answer (UsagePricing), for any  *)
(* counts; and the usage that rules find in an exchange (UsageObservers),  *)
(* for any numbers in it.                                                  *)
(*                                                                         *)
(* The sums are the library's SumFunctionOnSet, a fold over a set in the   *)
(* order CHOOSE takes its elements.  First: that a sum does not depend on  *)
(* this order, from the induction that the well-founded order of the       *)
(* natural numbers gives for a set of them.                                *)
(***************************************************************************)
EXTENDS NetworkTotals, GpuAccounting, UsagePricing, UsageObservers, FiniteSetTheorems, TLAPS

\* Induction over the natural numbers, for a set of them.
LEMMA NatSetInduction ==
  ASSUME NEW G, 0 \in G, \A n \in Nat : n \in G => n + 1 \in G
  PROVE  \A n \in Nat : n \in G
<1> SUFFICES ASSUME NEW m \in Nat, m \notin G PROVE FALSE
  OBVIOUS
<1> DEFINE T == {n \in Nat : n \notin G}
<1> DEFINE R == OpToRel(<, Nat)
<1>1. PICK x \in T : \A y \in T : ~(<<y, x>> \in R)
  <2>1. T \subseteq Nat /\ T # {}
    BY Zenon
  <2>2. IsWellFoundedOn(R, Nat)
    BY NatLessThanWellFounded, Zenon
  <2> HIDE DEF R, T
  <2> QED BY <2>1, <2>2, WFMin, Zenon
<1>2. \A y \in T : ~(y < x)
  BY <1>1, Zenon DEF OpToRel
<1> HIDE DEF R
<1>3. x \in Nat /\ x # 0 /\ x \notin G
  BY <1>1
<1>4. x - 1 \in Nat /\ x - 1 < x /\ (x - 1) + 1 = x
  BY <1>3
<1>5. x - 1 \notin G
  BY <1>3, <1>4
<1> QED BY <1>2, <1>4, <1>5

\* Induction over the subsets of a finite set, for a set of them.
LEMMA SubsetInduction ==
  ASSUME NEW D, IsFiniteSet(D), NEW G,
         \A s \in SUBSET D : (\A t \in SUBSET s : t # s => t \in G) => s \in G
  PROVE  \A s \in SUBSET D : s \in G
<1> DEFINE H == {n \in Nat : \A s \in SUBSET D : Cardinality(s) <= n => s \in G}
<1>1. \A s \in SUBSET D : IsFiniteSet(s) /\ Cardinality(s) \in Nat
  BY FS_Subset, FS_CardinalityType, Zenon
<1>2. \A s \in SUBSET D : \A t \in SUBSET s :
         t # s => Cardinality(t) < Cardinality(s)
  <2> TAKE s \in SUBSET D
  <2> TAKE t \in SUBSET s
  <2>1. IsFiniteSet(s) /\ Cardinality(s) \in Nat /\ Cardinality(t) \in Nat
    BY <1>1
  <2>2. Cardinality(t) <= Cardinality(s) /\ (Cardinality(s) = Cardinality(t) => s = t)
    BY <2>1, FS_Subset
  <2> QED BY <2>1, <2>2
<1>3. 0 \in H
  <2> SUFFICES ASSUME NEW s \in SUBSET D, Cardinality(s) <= 0 PROVE s \in G
    BY DEF H
  <2>1. \A t \in SUBSET s : t = s
    BY <1>1, <1>2
  <2> QED BY <2>1
<1>4. \A n \in Nat : n \in H => n + 1 \in H
  <2> SUFFICES ASSUME NEW n \in Nat, n \in H, NEW s \in SUBSET D, Cardinality(s) <= n + 1
               PROVE  s \in G
    BY DEF H
  <2>1. \A t \in SUBSET s : t # s => Cardinality(t) <= n /\ t \in SUBSET D
    BY <1>1, <1>2
  <2>2. \A t \in SUBSET s : t # s => t \in G
    BY <2>1
  <2> QED BY <2>2
<1> HIDE DEF H
<1>5. \A n \in Nat : n \in H
  BY <1>3, <1>4, NatSetInduction, Zenon
<1> SUFFICES ASSUME NEW s \in SUBSET D PROVE s \in G
  OBVIOUS
<1>6. Cardinality(s) \in Nat /\ Cardinality(s) \in H
  BY <1>1, <1>5
<1> QED BY <1>6 DEF H
-----------------------------------------------------------------------------
Pick(s) == CHOOSE x \in s : TRUE

\* The function that a sum unfolds to.
Sums(g, f, D) ==
  g = [s \in SUBSET D |-> IF s = {} THEN 0 ELSE f[Pick(s)] + g[s \ {Pick(s)}]]

\* There is a function that gives the sum over every part of a finite set.
LEMMA SumsExist ==
  ASSUME NEW f, NEW D, IsFiniteSet(D)
  PROVE  \E g : Sums(g, f, D)
<1> DEFINE K(n) == {s \in SUBSET D : Cardinality(s) <= n}
           Body(g, s) == IF s = {} THEN 0 ELSE f[Pick(s)] + g[s \ {Pick(s)}]
           G == {n \in Nat : \E g : g = [s \in K(n) |-> Body(g, s)]}
<1>1. \A s \in SUBSET D : IsFiniteSet(s) /\ Cardinality(s) \in Nat
                          /\ (Cardinality(s) = 0 <=> s = {})
  BY FS_Subset, FS_CardinalityType, FS_EmptySet, Zenon
<1>2. \A n \in Nat : \A s \in K(n + 1) : s # {} => s \ {Pick(s)} \in K(n)
  <2> SUFFICES ASSUME NEW n \in Nat, NEW s \in K(n + 1), s # {}
               PROVE  Cardinality(s \ {Pick(s)}) <= n
    BY Zenon
  <2>1. Pick(s) \in s /\ IsFiniteSet(s) /\ Cardinality(s) <= n + 1 /\ Cardinality(s) \in Nat
    BY <1>1 DEF Pick
  <2>2. Cardinality(s \ {Pick(s)}) = Cardinality(s) - 1
    BY <2>1, FS_RemoveElement
  <2> QED BY <2>1, <2>2
<1>3. 0 \in G
  <2>1. \A s \in K(0) : s = {}
    BY <1>1
  <2> DEFINE g == [s \in K(0) |-> 0]
  <2>2. \A s \in K(0) : Body(g, s) = 0
    BY <2>1, Zenon
  <2>3. g = [s \in K(0) |-> Body(g, s)]
    BY <2>2, Zenon
  <2> QED BY <2>3, Zenon
<1>4. \A n \in Nat : n \in G => n + 1 \in G
  <2> SUFFICES ASSUME NEW n \in Nat, NEW g, g = [s \in K(n) |-> Body(g, s)]
               PROVE  \E h : h = [s \in K(n + 1) |-> Body(h, s)]
    <3>1. \A n \in Nat : n + 1 \in Nat
      OBVIOUS
    <3> QED BY <3>1, Zenon
  <2> DEFINE h == [s \in K(n + 1) |-> Body(g, s)]
  <2>1. \A s \in K(n) : s \in K(n + 1)
    BY <1>1
  <2>2. \A s \in K(n) : h[s] = g[s]
    <3> TAKE s \in K(n)
    <3>1. h[s] = Body(g, s)
      BY <2>1, Zenon
    <3>2. g[s] = Body(g, s)
      BY Zenon
    <3> QED BY <3>1, <3>2
  <2>3. \A s \in K(n + 1) : Body(g, s) = Body(h, s)
    <3> HIDE DEF K, h
    <3> TAKE s \in K(n + 1)
    <3> QED BY <1>2, <2>2
  <2>4. h = [s \in K(n + 1) |-> Body(h, s)]
    BY <2>3, Zenon
  <2> QED BY <2>4, Zenon
<1>5. Cardinality(D) \in G
  <2> HIDE DEF G
  <2>1. \A n \in Nat : n \in G
    BY <1>3, <1>4, NatSetInduction, Zenon
  <2> QED BY <2>1, <1>1
<1>6. K(Cardinality(D)) = SUBSET D
  <2>1. \A s \in SUBSET D : Cardinality(s) <= Cardinality(D)
    BY FS_Subset
  <2> QED BY <2>1
<1> QED BY <1>5, <1>6, Zenon DEF Sums

\* SumFunctionOnSet is the value of such a function.
LEMMA SumUnfolds ==
  ASSUME NEW f, NEW S, IsFiniteSet(S)
  PROVE  \E g : Sums(g, f, S) /\ SumFunctionOnSet(f, S) = g[S]
<1> DEFINE g == CHOOSE g : Sums(g, f, S)
<1>1. Sums(g, f, S)
  BY SumsExist, Zenon
<1>2. SumFunctionOnSet(f, S) = g[S]
  BY Zenon DEF SumFunctionOnSet, FoldFunctionOnSet, MapThenFoldSet, Sums, Pick
<1> QED BY <1>1, <1>2
\* A sum over a part of a finite set unfolds as the sum over the whole of it does.
LEMMA SumsAgree ==
  ASSUME NEW f, NEW D, IsFiniteSet(D), NEW g, Sums(g, f, D)
  PROVE  \A s \in SUBSET D : SumFunctionOnSet(f, s) = g[s]
<1> SUFFICES ASSUME NEW S \in SUBSET D PROVE SumFunctionOnSet(f, S) = g[S]
  OBVIOUS
<1>1. IsFiniteSet(S)
  BY FS_Subset
<1>2. PICK h : Sums(h, f, S) /\ SumFunctionOnSet(f, S) = h[S]
  BY <1>1, SumUnfolds, Zenon
<1> DEFINE G == {s \in SUBSET S : h[s] = g[s]}
<1>3. \A s \in SUBSET S : (\A t \in SUBSET s : t # s => t \in G) => s \in G
  <2> SUFFICES ASSUME NEW s \in SUBSET S, \A t \in SUBSET s : t # s => t \in G
               PROVE  h[s] = g[s]
    BY Zenon
  <2>1. s \in SUBSET D
    OBVIOUS
  <2>2. /\ h[s] = IF s = {} THEN 0 ELSE f[Pick(s)] + h[s \ {Pick(s)}]
        /\ g[s] = IF s = {} THEN 0 ELSE f[Pick(s)] + g[s \ {Pick(s)}]
    BY <1>2, <2>1, Zenon DEF Sums
  <2>3. s # {} => h[s \ {Pick(s)}] = g[s \ {Pick(s)}]
    <3> HAVE s # {}
    <3>1. Pick(s) \in s
      BY Zenon DEF Pick
    <3> HIDE DEF G
    <3>2. s \ {Pick(s)} \in G
      BY <3>1
    <3> QED BY <3>2 DEF G
  <2> QED BY <2>2, <2>3
<1>4. \A s \in SUBSET S : s \in G
  <2> HIDE DEF G
  <2> QED BY <1>1, <1>3, SubsetInduction, Zenon
<1> QED BY <1>2, <1>4

\* Over nothing the sum is 0.
LEMMA SumOfNone == ASSUME NEW f PROVE SumFunctionOnSet(f, {}) = 0
<1>1. PICK g : Sums(g, f, {}) /\ SumFunctionOnSet(f, {}) = g[{}]
  BY FS_EmptySet, SumUnfolds, Zenon
<1>2. {} \in SUBSET {}
  OBVIOUS
<1> QED BY <1>1, <1>2, Zenon DEF Sums

\* A sum of integers is one, and any of its terms may be taken first.
LEMMA SumTakes ==
  ASSUME NEW f, NEW S, IsFiniteSet(S), \A x \in S : f[x] \in Int
  PROVE  /\ SumFunctionOnSet(f, S) \in Int
         /\ \A x \in S : SumFunctionOnSet(f, S) = f[x] + SumFunctionOnSet(f, S \ {x})
<1>1. PICK g : Sums(g, f, S)
  BY SumsExist, Zenon
<1>2. \A s \in SUBSET S : SumFunctionOnSet(f, s) = g[s]
  BY <1>1, SumsAgree
<1>3. \A s \in SUBSET S : /\ s = {} => g[s] = 0
                          /\ s # {} => Pick(s) \in s /\ g[s] = f[Pick(s)] + g[s \ {Pick(s)}]
  BY <1>1, Zenon DEF Sums, Pick
<1> DEFINE G == {s \in SUBSET S : /\ g[s] \in Int
                                  /\ \A x \in s : g[s] = f[x] + g[s \ {x}]}
<1>4. \A s \in SUBSET S : (\A t \in SUBSET s : t # s => t \in G) => s \in G
  <2> SUFFICES ASSUME NEW s \in SUBSET S, \A t \in SUBSET s : t # s => t \in G
               PROVE  s \in G
    OBVIOUS
  <2>1. CASE s = {}
    <3>1. g[s] = 0
      BY <2>1, <1>3, Zenon
    <3> QED BY <2>1, <3>1
  <2>2. CASE s # {}
    <3> DEFINE p == Pick(s)
    <3>1. p \in s /\ g[s] = f[p] + g[s \ {p}]
      BY <1>3, <2>2, Zenon
    <3> HIDE DEF p
    <3>2. \A x \in s : s \ {x} \in SUBSET s /\ s \ {x} # s
      OBVIOUS
    <3>3. \A x \in s : s \ {x} \in G
      BY <3>2, Zenon
    <3>4. \A x \in s : g[s \ {x}] \in Int /\ f[x] \in Int
      BY <3>3
    <3>5. g[s] \in Int
      BY <3>1, <3>4
    <3>6. \A x \in s : g[s] = f[x] + g[s \ {x}]
      <4> TAKE x \in s
      <4>1. CASE x = p
        BY <4>1, <3>1
      <4>2. CASE x # p
        <5>1. g[s \ {p}] = f[x] + g[(s \ {x}) \ {p}]
          <6>1. g[s \ {p}] = f[x] + g[(s \ {p}) \ {x}]
            BY <3>1, <3>3, <4>2
          <6>2. (s \ {p}) \ {x} = (s \ {x}) \ {p}
            OBVIOUS
          <6> QED BY <6>1, <6>2, Zenon
        <5>2. g[s \ {x}] = f[p] + g[(s \ {x}) \ {p}]
          BY <3>1, <3>3, <4>2
        <5>3. f[x] \in Int /\ f[p] \in Int
          BY <3>1, <3>4
        <5>4. (s \ {x}) \ {p} \in SUBSET s /\ (s \ {x}) \ {p} # s
          BY <3>1
        <5>5. g[(s \ {x}) \ {p}] \in Int
          BY <5>4
        <5> QED BY <3>1, <5>1, <5>2, <5>3, <5>5
      <4> QED BY <4>1, <4>2
    <3> QED BY <3>5, <3>6
  <2> QED BY <2>1, <2>2
<1>5. S \in G
  <2> HIDE DEF G
  <2>1. \A s \in SUBSET S : s \in G
    BY <1>4, SubsetInduction, Zenon
  <2> QED BY <2>1
<1>6. \A x \in S : S \ {x} \in SUBSET S
  OBVIOUS
<1>7. S \in SUBSET S
  OBVIOUS
<1> QED BY <1>2, <1>5, <1>6, <1>7

\* One more term is added to the sum.
LEMMA SumWith ==
  ASSUME NEW f, NEW S, IsFiniteSet(S), NEW x, x \notin S, \A y \in S \union {x} : f[y] \in Int
  PROVE  SumFunctionOnSet(f, S \union {x}) = f[x] + SumFunctionOnSet(f, S)
<1>1. IsFiniteSet(S \union {x})
  BY FS_AddElement
<1>2. (S \union {x}) \ {x} = S
  OBVIOUS
<1>3. SumFunctionOnSet(f, S \union {x}) = f[x] + SumFunctionOnSet(f, (S \union {x}) \ {x})
  BY <1>1, SumTakes
<1> QED BY <1>2, <1>3

\* Induction over a finite set that grows by one element at a time.
LEMMA GrowingInduction ==
  ASSUME NEW D, IsFiniteSet(D), NEW G, {} \in G,
         \A s \in SUBSET D : \A x \in D : x \notin s /\ s \in G => s \union {x} \in G
  PROVE  D \in G
<1>1. \A s \in SUBSET D : (\A t \in SUBSET s : t # s => t \in G) => s \in G
  <2> SUFFICES ASSUME NEW s \in SUBSET D, \A t \in SUBSET s : t # s => t \in G, s # {}
               PROVE  s \in G
    OBVIOUS
  <2>1. PICK x \in s : TRUE
    OBVIOUS
  <2>2. s \ {x} \in SUBSET s /\ s \ {x} # s /\ s \ {x} \in SUBSET D /\ x \in D
    OBVIOUS
  <2>3. s \ {x} \in G
    BY <2>2
  <2>4. (s \ {x}) \union {x} \in G
    BY <2>2, <2>3
  <2>5. (s \ {x}) \union {x} = s
    OBVIOUS
  <2> QED BY <2>4, <2>5
<1>2. \A s \in SUBSET D : s \in G
  BY <1>1, SubsetInduction, Zenon
<1> QED BY <1>2

\* Equal terms have equal sums.
LEMMA SumSame ==
  ASSUME NEW f, NEW h, NEW S, IsFiniteSet(S),
         \A x \in S : f[x] \in Int /\ h[x] = f[x]
  PROVE  SumFunctionOnSet(h, S) = SumFunctionOnSet(f, S)
<1> DEFINE G == {s \in SUBSET S : SumFunctionOnSet(h, s) = SumFunctionOnSet(f, s)}
<1>1. {} \in G
  BY SumOfNone
<1>2. \A s \in SUBSET S : \A x \in S : x \notin s /\ s \in G => s \union {x} \in G
  <2> SUFFICES ASSUME NEW s \in SUBSET S, NEW x \in S, x \notin s, s \in G
               PROVE  s \union {x} \in G
    BY Zenon
  <2>1. IsFiniteSet(s)
    BY FS_Subset
  <2>2. \A y \in s \union {x} : f[y] \in Int /\ h[y] \in Int /\ h[y] = f[y]
    OBVIOUS
  <2>3. SumFunctionOnSet(f, s \union {x}) = f[x] + SumFunctionOnSet(f, s)
    BY <2>1, <2>2, SumWith
  <2>4. SumFunctionOnSet(h, s \union {x}) = h[x] + SumFunctionOnSet(h, s)
    BY <2>1, <2>2, SumWith
  <2> QED BY <2>3, <2>4
<1> HIDE DEF G
<1>3. S \in G
  BY <1>1, <1>2, GrowingInduction, Zenon
<1> QED BY <1>3 DEF G

\* A sum of natural numbers is one, and no less than any of its terms.
LEMMA SumOfNaturals ==
  ASSUME NEW f, NEW S, IsFiniteSet(S), \A x \in S : f[x] \in Nat
  PROVE  /\ SumFunctionOnSet(f, S) \in Nat
         /\ \A x \in S : f[x] <= SumFunctionOnSet(f, S)
<1> DEFINE G == {s \in SUBSET S : SumFunctionOnSet(f, s) \in Nat}
<1>1. {} \in G
  BY SumOfNone
<1>2. \A s \in SUBSET S : \A x \in S : x \notin s /\ s \in G => s \union {x} \in G
  <2> SUFFICES ASSUME NEW s \in SUBSET S, NEW x \in S, x \notin s, s \in G
               PROVE  s \union {x} \in G
    BY Zenon
  <2>1. IsFiniteSet(s) /\ \A y \in s \union {x} : f[y] \in Int
    BY FS_Subset
  <2>2. SumFunctionOnSet(f, s \union {x}) = f[x] + SumFunctionOnSet(f, s)
    BY <2>1, SumWith
  <2> QED BY <2>2
<1>3. \A s \in SUBSET S : s \in G
  <2> HIDE DEF G
  <2> TAKE s \in SUBSET S
  <2>1. IsFiniteSet(s)
    BY FS_Subset
  <2>2. \A r \in SUBSET s : \A x \in s : x \notin r /\ r \in G => r \union {x} \in G
    BY <1>2
  <2> QED BY <1>1, <2>1, <2>2, GrowingInduction, Zenon
<1>4. \A x \in S : /\ SumFunctionOnSet(f, S) = f[x] + SumFunctionOnSet(f, S \ {x})
                   /\ SumFunctionOnSet(f, S \ {x}) \in Nat
  <2>1. \A x \in S : f[x] \in Int
    OBVIOUS
  <2>2. \A x \in S : SumFunctionOnSet(f, S) = f[x] + SumFunctionOnSet(f, S \ {x})
    BY <2>1, SumTakes
  <2>3. \A x \in S : S \ {x} \in G
    BY <1>3
  <2> QED BY <2>2, <2>3
<1>5. SumFunctionOnSet(f, S) \in Nat
  BY <1>3
<1>6. \A x \in S : f[x] <= SumFunctionOnSet(f, S)
  <2> TAKE x \in S
  <2>1. f[x] \in Nat
    OBVIOUS
  <2>2. /\ SumFunctionOnSet(f, S) = f[x] + SumFunctionOnSet(f, S \ {x})
        /\ SumFunctionOnSet(f, S \ {x}) \in Nat
    BY <1>4, Zenon
  <2> HIDE DEF G
  <2> QED BY <2>1, <2>2
<1> QED BY <1>5, <1>6, Zenon

\* A sum may be split in two.
LEMMA SumSplits ==
  ASSUME NEW f, NEW S, NEW T, IsFiniteSet(S), IsFiniteSet(T), S \intersect T = {},
         \A x \in S \union T : f[x] \in Int
  PROVE  SumFunctionOnSet(f, S \union T) = SumFunctionOnSet(f, S) + SumFunctionOnSet(f, T)
<1> DEFINE G == {s \in SUBSET T : SumFunctionOnSet(f, S \union s) =
                                    SumFunctionOnSet(f, S) + SumFunctionOnSet(f, s)}
<1>1. SumFunctionOnSet(f, S) \in Int
  BY SumTakes
<1>2. {} \in G
  <2>1. S \union {} = S
    OBVIOUS
  <2> QED BY <1>1, <2>1, SumOfNone
<1>3. \A s \in SUBSET T : \A x \in T : x \notin s /\ s \in G => s \union {x} \in G
  <2> SUFFICES ASSUME NEW s \in SUBSET T, NEW x \in T, x \notin s, s \in G
               PROVE  s \union {x} \in G
    BY Zenon
  <2>1. IsFiniteSet(s) /\ IsFiniteSet(S \union s)
    BY FS_Subset, FS_Union
  <2>2. /\ x \notin S \union s
        /\ \A y \in s \union {x} : f[y] \in Int
        /\ \A y \in (S \union s) \union {x} : f[y] \in Int
        /\ \A y \in s : f[y] \in Int
    OBVIOUS
  <2>3. SumFunctionOnSet(f, s \union {x}) = f[x] + SumFunctionOnSet(f, s)
    BY <2>1, <2>2, SumWith
  <2>4. SumFunctionOnSet(f, (S \union s) \union {x}) = f[x] + SumFunctionOnSet(f, S \union s)
    BY <2>1, <2>2, SumWith
  <2>5. SumFunctionOnSet(f, s) \in Int
    BY <2>1, <2>2, SumTakes
  <2>6. (S \union s) \union {x} = S \union (s \union {x})
    OBVIOUS
  <2>7. f[x] \in Int /\ s \union {x} \in SUBSET T
    OBVIOUS
  <2>8. SumFunctionOnSet(f, S \union (s \union {x}))
          = SumFunctionOnSet(f, S) + SumFunctionOnSet(f, s \union {x})
    <3>1. SumFunctionOnSet(f, S \union s) = SumFunctionOnSet(f, S) + SumFunctionOnSet(f, s)
      BY Zenon
    <3>2. SumFunctionOnSet(f, S \union (s \union {x})) = f[x] + SumFunctionOnSet(f, S \union s)
      BY <2>4, <2>6, Zenon
    <3> HIDE DEF G
    <3> QED BY <1>1, <2>3, <2>5, <2>7, <3>1, <3>2
  <2> QED BY <2>7, <2>8, Zenon
<1>4. T \in G
  <2> HIDE DEF G
  <2> QED BY <1>2, <1>3, GrowingInduction, Zenon
<1> QED BY <1>4

\* The elements of a set under other names.
Renames(b, S, T) ==
  /\ \A x \in S : b[x] \in T
  /\ \A t \in T : \E x \in S : t = b[x]
  /\ \A x, y \in S : b[x] = b[y] => x = y

SameTerms(h, f, b, S) == \A x \in S : f[x] \in Int /\ h[b[x]] = f[x]

\* A sum may run over other names of its terms.
LEMMA SumRenamed ==
  ASSUME NEW S, IsFiniteSet(S), NEW T, NEW b, Renames(b, S, T),
         NEW f, NEW h, SameTerms(h, f, b, S)
  PROVE  /\ IsFiniteSet(T)
         /\ Cardinality(T) = Cardinality(S)
         /\ SumFunctionOnSet(h, T) = SumFunctionOnSet(f, S)
<1> USE DEF Renames, SameTerms
<1> DEFINE Image(s) == {b[x] : x \in s}
           G == {s \in SUBSET S : /\ IsFiniteSet(Image(s))
                                  /\ Cardinality(Image(s)) = Cardinality(s)
                                  /\ SumFunctionOnSet(h, Image(s)) = SumFunctionOnSet(f, s)}
<1>1. {} \in G
  <2>1. Image({}) = {}
    OBVIOUS
  <2> QED BY <2>1, SumOfNone, FS_EmptySet, Zenon
<1>2. \A s \in SUBSET S : \A x \in S : x \notin s /\ s \in G => s \union {x} \in G
  <2> SUFFICES ASSUME NEW s \in SUBSET S, NEW x \in S, x \notin s, s \in G
               PROVE  s \union {x} \in G
    BY Zenon
  <2>1. IsFiniteSet(s)
    BY FS_Subset
  <2>2. /\ IsFiniteSet(Image(s)) /\ Cardinality(Image(s)) = Cardinality(s)
        /\ SumFunctionOnSet(h, Image(s)) = SumFunctionOnSet(f, s)
    BY Zenon
  <2>3. Image(s \union {x}) = Image(s) \union {b[x]}
    OBVIOUS
  <2>4. b[x] \notin Image(s)
    OBVIOUS
  <2>5. IsFiniteSet(Image(s) \union {b[x]})
        /\ Cardinality(Image(s) \union {b[x]}) = Cardinality(s) + 1
    BY <2>2, <2>4, FS_AddElement
  <2>6. Cardinality(s \union {x}) = Cardinality(s) + 1
    BY <2>1, FS_AddElement
  <2>7. /\ \A y \in s \union {x} : f[y] \in Int
        /\ \A y \in Image(s) \union {b[x]} : h[y] \in Int
    OBVIOUS
  <2>8. SumFunctionOnSet(f, s \union {x}) = f[x] + SumFunctionOnSet(f, s)
    BY <2>1, <2>7, SumWith
  <2>9. SumFunctionOnSet(h, Image(s) \union {b[x]}) = h[b[x]] + SumFunctionOnSet(h, Image(s))
    <3> HIDE DEF Image, G
    <3> QED BY <2>2, <2>4, <2>7, SumWith
  <2>10. h[b[x]] = f[x] /\ s \union {x} \in SUBSET S
    OBVIOUS
  <2> HIDE DEF Image
  <2> QED BY <2>2, <2>3, <2>5, <2>6, <2>8, <2>9, <2>10, Zenon
<1>3. S \in G
  <2> HIDE DEF G
  <2> QED BY <1>1, <1>2, GrowingInduction, Zenon
<1>4. Image(S) = T
  OBVIOUS
<1> QED BY <1>3, <1>4

\* A finite set has as many elements under other names.
LEMMA RenamedSize ==
  ASSUME NEW S, IsFiniteSet(S), NEW T, NEW b, Renames(b, S, T)
  PROVE  IsFiniteSet(T) /\ Cardinality(T) = Cardinality(S)
<1> DEFINE f == [x \in S |-> 0]
           h == [t \in T |-> 0]
<1>1. SameTerms(h, f, b, S)
  BY DEF SameTerms, Renames
<1> HIDE DEF f, h
<1> QED BY <1>1, SumRenamed
-----------------------------------------------------------------------------
(***************************************************************************)
(* NetworkTotals: the inductive invariant.  A row that counts no exchange  *)
(* is empty, so nothing is lost with a shared row that is not reported.    *)
(***************************************************************************)
Rows == [Columns -> Nat]
Column(c) == [h \in Hosts |-> table[h][c]]
IsRow(r) == r \in Rows /\ (r["calls"] = 0 => r = Zero)

TotalsTypeOK ==
  /\ table \in [Hosts -> Rows] /\ \A h \in Hosts : IsRow(table[h])
  /\ IsRow(rest) /\ totals \in Rows /\ frozen \in BOOLEAN
  /\ IsFiniteSet(Seen)

\* While it counts, the rows of the hosts and the shared one add up to the totals.
RowsAddUp ==
  \A c \in Columns : totals[c] = SumFunctionOnSet(Column(c), Seen) + rest[c]

TotalsInv == TotalsTypeOK /\ RowsAddUp /\ ReportIsTrue

\* The row of a host that was never seen is a row.
LEMMA ZeroIsARow == IsRow(Zero)
BY DEF IsRow, Zero, Rows

\* An exchange added to a row gives a row.
LEMMA MoreIsARow ==
  ASSUME NEW bytes \in Nat, NEW internal \in BOOLEAN
  PROVE  LET more == [calls |-> 1, bytes |-> bytes, external |-> IF internal THEN 0 ELSE bytes]
         IN  \A c \in Columns : more[c] \in Nat /\ more["calls"] = 1
BY DEF Columns

\* Each column of a row grows by what the exchange adds to it.
LEMMA RowGrows ==
  ASSUME NEW r \in Rows, NEW more, \A c \in Columns : more[c] \in Nat, more["calls"] = 1
  PROVE  AddRow(r, more) \in Rows /\ IsRow(AddRow(r, more)) /\ AddRow(r, more) # Zero
<1>1. "calls" \in Columns
  BY DEF Columns
<1>2. AddRow(r, more) \in Rows
  BY DEF AddRow, Rows
<1>3. AddRow(r, more)["calls"] = r["calls"] + 1 /\ r["calls"] \in Nat
  BY <1>1 DEF AddRow, Rows
<1>4. Zero["calls"] = 0
  BY <1>1 DEF Zero
<1> QED BY <1>2, <1>3, <1>4 DEF IsRow

\* The counts of a column are natural numbers.
LEMMA ColumnIsNatural ==
  ASSUME TotalsTypeOK, NEW c \in Columns
  PROVE  \A h \in Hosts : Column(c)[h] = table[h][c] /\ Column(c)[h] \in Nat
BY DEF TotalsTypeOK, Column, Rows

\* Nothing is counted at first.
LEMMA TotalsInitially == TotalsInit => TotalsInv
<1> SUFFICES ASSUME TotalsInit PROVE TotalsInv
  OBVIOUS
<1>1. Seen = {}
  BY DEF TotalsInit, Seen
<1>2. TotalsTypeOK
  BY <1>1, ZeroIsARow, FS_EmptySet DEF TotalsInit, TotalsTypeOK, IsRow, Rows
<1>3. RowsAddUp
  <2>1. \A c \in Columns : Zero[c] = 0
    BY DEF Zero
  <2>2. \A c \in Columns : SumFunctionOnSet(Column(c), {}) = 0
    BY SumOfNone, Zenon
  <2> QED BY <1>1, <2>1, <2>2 DEF TotalsInit, RowsAddUp
<1>4. ReportIsTrue
  BY DEF TotalsInit, ReportIsTrue, ReportAddsUp, ReportNamesTheHeaviest
<1> QED BY <1>2, <1>3, <1>4 DEF TotalsInv

\* An exchange goes to its row, or to the shared one, and to the totals (record).
LEMMA RecordBytesKeeps ==
  ASSUME TotalsInv, RecordBytes
  PROVE  TotalsInv'
<1> USE DEF TotalsInv
<1>1. PICK host \in Hosts, bytes \in 0 .. MaxBytes, internal \in BOOLEAN :
        LET more == [calls |-> 1, bytes |-> bytes, external |-> IF internal THEN 0 ELSE bytes]
            own  == host \in Seen \/ Cardinality(Seen) < LiveCap
        IN  /\ ~frozen
            /\ totals' = AddRow(totals, more)
            /\ table' = IF own THEN [table EXCEPT ![host] = AddRow(@, more)] ELSE table
            /\ rest' = IF own THEN rest ELSE AddRow(rest, more)
            /\ UNCHANGED <<frozen, totalsReport>>
  BY Zenon DEF RecordBytes
<1> DEFINE more == [calls |-> 1, bytes |-> bytes, external |-> IF internal THEN 0 ELSE bytes]
           own  == host \in Seen \/ Cardinality(Seen) < LiveCap
<1>2. (\A c \in Columns : more[c] \in Nat) /\ more["calls"] = 1
  <2>1. bytes \in Nat
    BY TotalsAssumption
  <2>2. "calls" \in Columns
    BY DEF Columns
  <2> QED BY <2>1, <2>2, MoreIsARow, Zenon
<1>3. /\ ~frozen /\ frozen' = frozen /\ totals' = AddRow(totals, more)
      /\ own => table' = [table EXCEPT ![host] = AddRow(table[host], more)] /\ rest' = rest
      /\ ~own => table' = table /\ rest' = AddRow(rest, more)
  BY <1>1, Zenon
<1> HIDE DEF more, own
<1>4. ReportIsTrue'
  BY <1>3 DEF ReportIsTrue, ReportAddsUp, ReportNamesTheHeaviest
<1>5. \A r \in Rows, c \in Columns : AddRow(r, more)[c] = r[c] + more[c] /\ r[c] \in Nat
  BY DEF AddRow, Rows
<1>6. table[host] \in Rows /\ rest \in Rows /\ totals \in Rows
  BY DEF TotalsTypeOK, IsRow
<1>7. AddRow(totals, more) \in Rows
  BY <1>2, <1>6, RowGrows
<1>8. CASE own
  <2>1. /\ table' \in [Hosts -> Rows]
        /\ \A h \in Hosts : IsRow(table'[h])
        /\ table'[host] # Zero /\ \A h \in Hosts \ {host} : table'[h] = table[h]
        /\ table'[host] = AddRow(table[host], more)
    BY <1>2, <1>3, <1>6, <1>8, RowGrows DEF TotalsTypeOK
  <2>2. Seen' = Seen \union {host}
    BY <2>1 DEF Seen
  <2>3. IsFiniteSet(Seen')
    BY <2>2, FS_AddElement DEF TotalsTypeOK
  <2>4. TotalsTypeOK'
    BY <1>3, <1>7, <1>8, <2>1, <2>3 DEF TotalsTypeOK
  <2>5. RowsAddUp'
    <3> SUFFICES ASSUME NEW c \in Columns
                 PROVE  totals'[c] = SumFunctionOnSet(Column(c)', Seen') + rest'[c]
      BY Zenon DEF RowsAddUp
    <3> DEFINE f == Column(c)
               g == Column(c)'
               others == Seen \ {host}
    <3>1. /\ \A h \in Hosts : f[h] = table[h][c] /\ f[h] \in Nat
          /\ \A h \in Hosts : g[h] = table'[h][c] /\ g[h] \in Nat
      BY <2>4, ColumnIsNatural DEF Column, TotalsTypeOK, Rows
    <3>2. Seen \subseteq Hosts /\ IsFiniteSet(Seen) /\ IsFiniteSet(others)
      BY FS_RemoveElement DEF Seen, TotalsTypeOK
    <3>3. g[host] = f[host] + more[c] /\ \A h \in Hosts \ {host} : g[h] = f[h]
      BY <1>5, <1>6, <2>1, <3>1
    <3> HIDE DEF f, g
    <3>4. SumFunctionOnSet(g, others) = SumFunctionOnSet(f, others)
      <4>1. \A h \in others : f[h] \in Int /\ g[h] = f[h]
        BY <3>1, <3>2, <3>3
      <4> HIDE DEF others
      <4> QED BY <3>2, <4>1, SumSame
    <3>5. SumFunctionOnSet(f, Seen) = f[host] + SumFunctionOnSet(f, others)
      <4>1. CASE host \in Seen
        <5>1. \A h \in Seen : f[h] \in Int
          BY <3>1, <3>2
        <5> QED BY <3>2, <4>1, <5>1, SumTakes
      <4>2. CASE host \notin Seen
        <5>1. others = Seen
          BY <4>2
        <5>2. f[host] = 0
          BY <3>1, <4>2 DEF Seen, Zero
        <5>3. \A h \in Seen : f[h] \in Int
          BY <3>1, <3>2
        <5>4. SumFunctionOnSet(f, Seen) \in Int
          BY <3>2, <5>3, SumTakes
        <5> HIDE DEF others
        <5> QED BY <5>1, <5>2, <5>4
      <4> QED BY <4>1, <4>2
    <3>6. SumFunctionOnSet(g, Seen') = g[host] + SumFunctionOnSet(g, others)
      <4>1. Seen' = others \union {host} /\ host \notin others
        BY <2>2
      <4>2. \A h \in others \union {host} : g[h] \in Int
        BY <3>1, <3>2
      <4> HIDE DEF others
      <4> QED BY <3>2, <4>1, <4>2, SumWith
    <3>7. SumFunctionOnSet(f, others) \in Int
      <4>1. \A h \in others : f[h] \in Int
        BY <3>1, <3>2
      <4> HIDE DEF others
      <4> QED BY <3>2, <4>1, SumTakes
    <3>8. totals[c] = SumFunctionOnSet(f, Seen) + rest[c]
      BY Zenon DEF RowsAddUp, f
    <3>9. totals'[c] = totals[c] + more[c] /\ rest'[c] = rest[c]
          /\ totals[c] \in Nat /\ rest[c] \in Nat
      BY <1>3, <1>5, <1>6, <1>8
    <3>10. f[host] \in Nat /\ more[c] \in Nat
      BY <1>2, <3>1
    <3>11. totals'[c] = SumFunctionOnSet(g, Seen') + rest'[c]
      <4> HIDE DEF others
      <4> QED BY <3>3, <3>4, <3>5, <3>6, <3>7, <3>8, <3>9, <3>10
    <3> QED BY <3>11, Zenon DEF g
  <2> QED BY <1>4, <2>4, <2>5
<1>9. CASE ~own
  <2>1. /\ Seen' = Seen /\ \A c \in Columns : Column(c)' = Column(c)
        /\ IsRow(AddRow(rest, more))
    BY <1>2, <1>3, <1>6, <1>9, RowGrows DEF Seen, Column
  <2>2. TotalsTypeOK'
    BY <1>3, <1>7, <1>9, <2>1 DEF TotalsTypeOK
  <2>3. RowsAddUp'
    <3> SUFFICES ASSUME NEW c \in Columns
                 PROVE  totals'[c] = SumFunctionOnSet(Column(c)', Seen') + rest'[c]
      BY Zenon DEF RowsAddUp
    <3>1. totals[c] = SumFunctionOnSet(Column(c), Seen) + rest[c]
      BY Zenon DEF RowsAddUp
    <3>2. SumFunctionOnSet(Column(c), Seen) \in Nat
      <4>1. \A h \in Seen : Column(c)[h] \in Nat
        BY ColumnIsNatural DEF Seen
      <4> QED BY <4>1, SumOfNaturals DEF TotalsTypeOK
    <3>3. SumFunctionOnSet(Column(c)', Seen') = SumFunctionOnSet(Column(c), Seen)
      BY <2>1, Zenon
    <3>4. /\ totals'[c] = totals[c] + more[c] /\ rest'[c] = rest[c] + more[c]
          /\ totals[c] \in Nat /\ rest[c] \in Nat /\ more[c] \in Nat
      BY <1>2, <1>3, <1>5, <1>6, <1>9
    <3> QED BY <3>1, <3>2, <3>3, <3>4
  <2> QED BY <1>4, <2>2, <2>3
<1> QED BY <1>8, <1>9

\* What the report is made of: the rows of the hosts it names, and a shared one.
LEMMA SharedRow ==
  ASSUME TotalsTypeOK, NEW top \in Heaviest
  PROVE  /\ Named(top) \subseteq Seen /\ Named(top) \subseteq Hosts /\ Other \notin Named(top)
         /\ IsFiniteSet(Named(top)) /\ IsFiniteSet(Seen \ Named(top))
         /\ \A c \in Columns :
              /\ Shared(top)[c] = rest[c] + SumFunctionOnSet(Column(c), Seen \ Named(top))
              /\ rest[c] \in Nat /\ SumFunctionOnSet(Column(c), Seen \ Named(top)) \in Nat
              /\ Shared(top)[c] \in Nat
         /\ Shared(top)["calls"] = 0 => \A c \in Columns : Shared(top)[c] = 0
<1>1. top \subseteq Seen /\ IsFiniteSet(Seen) /\ Seen \subseteq Hosts
  BY DEF Heaviest, TotalsTypeOK, Seen
<1>2. /\ Named(top) \subseteq Seen /\ Named(top) \subseteq Hosts /\ Other \notin Named(top)
      /\ IsFiniteSet(Named(top)) /\ IsFiniteSet(Seen \ Named(top))
  <2>1. Named(top) \subseteq Seen
    BY <1>1 DEF Named
  <2> QED BY <1>1, <2>1, FS_Subset DEF Named
<1> DEFINE left == Seen \ Named(top)
<1>3. \A c \in Columns : \A h \in left : Column(c)[h] = table[h][c] /\ Column(c)[h] \in Nat
  BY <1>1, ColumnIsNatural
<1>4. left \subseteq Seen /\ IsFiniteSet(left)
  BY <1>2
<1> HIDE DEF left
<1>5. \A c \in Columns : SumFunctionOnSet(Column(c), left) \in Nat
  BY <1>3, <1>4, SumOfNaturals
<1>6. \A c \in Columns : Shared(top)[c] = rest[c] + SumFunctionOnSet(Column(c), left)
  BY DEF Shared, AddRow, SumOf, Column, left
<1>7. \A c \in Columns : rest[c] \in Nat
  BY DEF TotalsTypeOK, IsRow, Rows
<1>8. ASSUME Shared(top)["calls"] = 0, NEW c \in Columns
      PROVE  Shared(top)[c] = 0
  <2>1. "calls" \in Columns
    BY DEF Columns
  <2>2. rest["calls"] = 0 /\ SumFunctionOnSet(Column("calls"), left) = 0
    BY <1>5, <1>6, <1>7, <1>8, <2>1
  <2>3. rest[c] = 0
    BY <2>2 DEF TotalsTypeOK, IsRow, Zero
  <2>4. left = {}
    <3> SUFFICES ASSUME NEW h \in left PROVE FALSE
      OBVIOUS
    <3>1. Column("calls")[h] <= SumFunctionOnSet(Column("calls"), left)
      BY <1>3, <1>4, <2>1, SumOfNaturals
    <3>2. Column("calls")[h] = table[h]["calls"] /\ Column("calls")[h] \in Nat
      BY <1>3, <2>1
    <3>3. table[h]["calls"] = 0
      BY <2>2, <3>1, <3>2
    <3>4. h \in Seen /\ table[h] # Zero /\ h \in Hosts
      BY <1>4 DEF Seen
    <3> QED BY <3>3, <3>4 DEF TotalsTypeOK, IsRow
  <2>5. SumFunctionOnSet(Column(c), left) = 0
    BY <2>4, SumOfNone
  <2> QED BY <1>6, <2>3, <2>5
<1>9. \A c \in Columns : Shared(top)[c] \in Nat
  BY <1>5, <1>6, <1>7
<1> QED BY <1>2, <1>5, <1>6, <1>7, <1>8, <1>9, Zenon DEF left

\* The rows of a report: as many as there are names, and they add up.
LEMMA ReportOf ==
  ASSUME TotalsTypeOK, RowsAddUp, NEW top \in Heaviest, NEW lines,
         lines = {[host |-> h, row |-> table[h]] : h \in Named(top)}
           \union (IF Shared(top).calls > 0 THEN {[host |-> Other, row |-> Shared(top)]} ELSE {})
  PROVE  /\ \A c \in Columns : SumFunction([r \in lines |-> r.row[c]]) = totals[c]
         /\ {r.host : r \in lines} \ {Other} = Named(top)
         /\ IsFiniteSet(lines)
         /\ Cardinality({r.host : r \in lines}) = Cardinality(lines)
<1> DEFINE entry == [h \in Named(top) |-> [host |-> h, row |-> table[h]]]
           hosts == {entry[h] : h \in Named(top)}
           shared == [host |-> Other, row |-> Shared(top)]
           rows == IF Shared(top).calls > 0 THEN {shared} ELSE {}
<1>1. lines = hosts \union rows
  OBVIOUS
<1>2. \A h \in Named(top) : entry[h].host = h /\ entry[h].row = table[h]
  OBVIOUS
<1>3. \A h, g \in Named(top) : entry[h] = entry[g] => h = g
  BY <1>2, Zenon
<1>4. shared.host = Other /\ shared.row = Shared(top)
  OBVIOUS
<1>5. \A r \in hosts : r.host \in Named(top)
  BY <1>2
<1>6. rows = {} \/ rows = {shared}
  OBVIOUS
<1>7. hosts \intersect rows = {}
  BY <1>4, <1>5, <1>6, SharedRow, Zenon
<1>8. rows = {} => Shared(top)["calls"] = 0
  <2>1. "calls" \in Columns
    BY DEF Columns
  <2>2. Shared(top)["calls"] \in Nat
    BY <2>1, SharedRow, Zenon
  <2>3. rows = {} => ~(Shared(top)["calls"] > 0)
    OBVIOUS
  <2> QED BY <2>2, <2>3
<1>9. IsFiniteSet(rows)
  <2> HIDE DEF shared, rows
  <2> QED BY <1>6, FS_EmptySet, FS_Singleton
<1>10. {r.host : r \in lines} \ {Other} = Named(top)
  <2> DEFINE names == {r.host : r \in lines}
  <2>1. \A n \in names : n = Other \/ n \in Named(top)
    <3>1. \A r \in lines : r.host = Other \/ r.host \in Named(top)
      BY <1>1, <1>4, <1>5, <1>6, Zenon
    <3> QED BY <3>1, Zenon
  <2>2. \A h \in Named(top) : h \in names
    BY <1>1, <1>2, Zenon
  <2>3. Other \notin Named(top)
    BY SharedRow, Zenon
  <2>4. names \ {Other} = Named(top)
    <3> HIDE DEF names
    <3> QED BY <2>1, <2>2, <2>3
  <2> QED BY <2>4
<1>14. IsFiniteSet(Named(top))
  BY SharedRow, Zenon
<1>15. /\ \A h \in Named(top) : entry[h] \in hosts
       /\ \A r \in hosts : \E h \in Named(top) : r = entry[h]
  BY Zenon
<1>16. Renames(entry, Named(top), hosts)
  BY <1>3, <1>15, Zenon DEF Renames
<1> HIDE DEF entry, shared, rows, hosts
<1>11. IsFiniteSet(hosts) /\ IsFiniteSet(lines)
  <2>2. IsFiniteSet(hosts)
    BY <1>14, <1>16, RenamedSize
  <2> QED BY <1>1, <1>9, <2>2, FS_Union
<1>12. ASSUME NEW c \in Columns
       PROVE  SumFunction([r \in lines |-> r.row[c]]) = totals[c]
  <2> DEFINE f == [r \in lines |-> r.row[c]]
             left == Seen \ Named(top)
  <2>1. \A h \in Named(top) : Column(c)[h] = table[h][c] /\ Column(c)[h] \in Nat
    BY SharedRow, ColumnIsNatural
  <2>2. \A h \in Named(top) : f[entry[h]] = Column(c)[h] /\ Column(c)[h] \in Int
    BY <1>1, <1>2, <1>15, <2>1
  <2>3. shared \in rows => f[shared] = Shared(top)[c]
    BY <1>1, <1>4
  <2>4. Shared(top)[c] \in Nat
    <3>1. /\ Shared(top)[c] = rest[c] + SumFunctionOnSet(Column(c), left)
          /\ rest[c] \in Nat /\ SumFunctionOnSet(Column(c), left) \in Nat
      BY SharedRow, Zenon
    <3> QED BY <3>1
  <2>5. DOMAIN f = lines
    OBVIOUS
  <2> HIDE DEF f, left
  <2>6. SumFunctionOnSet(f, hosts) = SumFunctionOnSet(Column(c), Named(top))
    <3>1. SameTerms(f, Column(c), entry, Named(top))
      BY <2>2, Zenon DEF SameTerms
    <3> QED BY <1>14, <1>16, <3>1, SumRenamed
  <2>7. SumFunctionOnSet(f, rows) = Shared(top)[c]
    <3>1. CASE rows = {}
      BY <3>1, <1>8, SharedRow, SumOfNone
    <3>2. CASE rows = {shared}
      <4>1. SumFunctionOnSet(f, {} \union {shared}) = f[shared] + SumFunctionOnSet(f, {})
        <5>1. \A y \in {} \union {shared} : f[y] \in Int
          BY <2>3, <2>4, <3>2
        <5> QED BY <5>1, FS_EmptySet, SumWith
      <4>2. {} \union {shared} = rows
        BY <3>2
      <4>3. f[shared] = Shared(top)[c] /\ SumFunctionOnSet(f, {}) = 0
        BY <2>3, <3>2, SumOfNone
      <4> QED BY <2>4, <4>1, <4>2, <4>3
    <3> QED BY <1>6, <3>1, <3>2 DEF rows
  <2>8. SumFunctionOnSet(f, lines) = SumFunctionOnSet(f, hosts) + SumFunctionOnSet(f, rows)
    <3>1. \A x \in hosts : f[x] \in Int
      BY <1>15, <2>2
    <3>2. \A x \in rows : f[x] \in Int
      BY <1>6, <2>3, <2>4 DEF rows
    <3>3. \A x \in hosts \union rows : f[x] \in Int
      BY <3>1, <3>2
    <3> QED BY <1>1, <1>7, <1>9, <1>11, <3>3, SumSplits
  <2>9. totals[c] = SumFunctionOnSet(Column(c), Seen) + rest[c]
    BY Zenon DEF RowsAddUp
  <2>10. SumFunctionOnSet(Column(c), Seen)
           = SumFunctionOnSet(Column(c), Named(top)) + SumFunctionOnSet(Column(c), left)
    <3>1. Named(top) \union left = Seen /\ Named(top) \intersect left = {}
      BY SharedRow DEF left
    <3>2. IsFiniteSet(Named(top)) /\ IsFiniteSet(left)
      BY SharedRow DEF left
    <3>3. \A h \in Named(top) \union left : Column(c)[h] \in Int
      BY <3>1, ColumnIsNatural DEF Seen
    <3>4. SumFunctionOnSet(Column(c), Named(top) \union left)
            = SumFunctionOnSet(Column(c), Named(top)) + SumFunctionOnSet(Column(c), left)
      BY <3>1, <3>2, <3>3, SumSplits
    <3> QED BY <3>1, <3>4
  <2>11. SumFunctionOnSet(Column(c), Named(top)) \in Nat
    BY <2>1, SharedRow, SumOfNaturals
  <2>12. /\ Shared(top)[c] = rest[c] + SumFunctionOnSet(Column(c), left)
         /\ rest[c] \in Nat /\ SumFunctionOnSet(Column(c), left) \in Nat
    BY SharedRow DEF left
  <2>13. SumFunctionOnSet(f, lines) = totals[c]
    <3> QED BY <2>6, <2>7, <2>8, <2>9, <2>10, <2>11, <2>12
  <2>14. SumFunction(f) = SumFunctionOnSet(f, lines)
    BY <2>5, Zenon DEF SumFunction
  <2> QED BY <2>13, <2>14, Zenon DEF f
<1>13. Cardinality({r.host : r \in lines}) = Cardinality(lines)
  <2> DEFINE name == [r \in lines |-> r.host]
             called == {r.host : r \in lines}
  <2>1. \A r \in lines : name[r] = r.host
    OBVIOUS
  <2>2. \A r, q \in lines : name[r] = name[q] => r = q
    <3>1. \A h \in Named(top) : entry[h].host # shared.host
      BY <1>2, <1>4, SharedRow
    <3>2. \A r, q \in lines : r.host = q.host => r = q
      BY <1>1, <1>2, <1>6, <3>1 DEF rows
    <3> QED BY <2>1, <3>2
  <2>4. (\A r \in lines : name[r] \in called) /\ \A n \in called : \E r \in lines : n = name[r]
    BY <2>1
  <2> HIDE DEF name, called
  <2>5. Cardinality(called) = Cardinality(lines)
    <3>1. Renames(name, lines, called)
      BY <2>2, <2>4, Zenon DEF Renames
    <3> QED BY <1>11, <3>1, RenamedSize
  <2> QED BY <2>5 DEF called
<1> QED BY <1>10, <1>11, <1>12, <1>13

\* What is reported of the counted rows is true (finalize).
LEMMA FinalizeTotalsKeeps ==
  ASSUME TotalsInv, FinalizeTotals
  PROVE  TotalsInv'
<1> USE DEF TotalsInv
<1>1. PICK top \in Heaviest :
        /\ frozen' = TRUE
        /\ totalsReport' = {[host |-> h, row |-> table[h]] : h \in Named(top)}
             \union (IF Shared(top).calls > 0 THEN {[host |-> Other, row |-> Shared(top)]} ELSE {})
        /\ UNCHANGED <<table, rest, totals>>
  BY Zenon DEF FinalizeTotals
<1>2. Seen' = Seen /\ \A c \in Columns : Column(c)' = Column(c)
  BY <1>1 DEF Seen, Column
<1>3. TotalsTypeOK' /\ RowsAddUp'
  BY <1>1, <1>2 DEF TotalsTypeOK, RowsAddUp
<1> DEFINE lines == totalsReport'
           names == {r.host : r \in lines}
<1>4. /\ \A c \in Columns : SumFunction([r \in lines |-> r.row[c]]) = totals[c]
      /\ names \ {Other} = Named(top)
      /\ IsFiniteSet(lines)
      /\ Cardinality(names) = Cardinality(lines)
  BY <1>1, ReportOf, Zenon
<1>5. ReportAddsUp'
  BY <1>1, <1>4, Zenon DEF ReportAddsUp
<1>6. Cardinality(names) <= FinalizeCap + 1
  <2>1. IsFiniteSet(Seen) /\ top \subseteq Seen /\ Cardinality(top) <= FinalizeCap
    <3>1. IsFiniteSet(Seen)
      BY DEF TotalsTypeOK
    <3>2. Cardinality(Seen) \in Nat
      BY <3>1, FS_CardinalityType
    <3> QED BY <3>1, <3>2, TotalsAssumption DEF Heaviest
  <2>2. IsFiniteSet(top) /\ Cardinality(top) \in Nat
    BY <2>1, FS_Subset, FS_CardinalityType
  <2>3. IsFiniteSet(top \union {Other}) /\ Cardinality(top \union {Other}) <= Cardinality(top) + 1
    <3>1. /\ IsFiniteSet(top \union {Other})
          /\ Cardinality(top \union {Other})
               = IF Other \in top THEN Cardinality(top) ELSE Cardinality(top) + 1
      BY <2>2, FS_AddElement, Zenon
    <3> QED BY <2>2, <3>1
  <2>4. names \subseteq top \union {Other}
    BY <1>4 DEF Named
  <2> HIDE DEF names
  <2>5. Cardinality(names) <= Cardinality(top \union {Other})
    BY <2>3, <2>4, FS_Subset
  <2>6. Cardinality(names) \in Nat /\ Cardinality(top \union {Other}) \in Nat
    BY <2>3, <2>4, FS_Subset, FS_CardinalityType
  <2> QED BY <2>1, <2>2, <2>3, <2>5, <2>6, TotalsAssumption
<1>7. \A h \in names \ {Other}, g \in Seen' \ (names \union {Other}) :
         table'[h].bytes >= table'[g].bytes
  <2>1. \A h \in top, g \in Seen \ top : table[h].bytes >= table[g].bytes
    BY DEF Heaviest
  <2>2. \A h \in names \ {Other} : h \in top
    BY <1>4 DEF Named
  <2>3. \A g \in Seen \ (names \union {Other}) : g \in Seen \ top
    BY <1>4 DEF Named
  <2> HIDE DEF names
  <2> QED BY <1>1, <1>2, <2>1, <2>2, <2>3
<1>8. ReportNamesTheHeaviest'
  BY <1>4, <1>6, <1>7, Zenon DEF ReportNamesTheHeaviest
<1> QED BY <1>3, <1>5, <1>8 DEF ReportIsTrue

\* The rows of a report add up to the totals in every column, and it names each host once,
\* the heaviest ones, no more than it may, for any hosts and caps (record, finalize).
THEOREM ReportsAreTrue == TotalsSpec => []ReportIsTrue
<1>1. TotalsInv /\ [TotalsNext]_totalsVars => TotalsInv'
  <2> SUFFICES ASSUME TotalsInv, [TotalsNext]_totalsVars PROVE TotalsInv'
    OBVIOUS
  <2>1. CASE UNCHANGED totalsVars
    BY <2>1 DEF totalsVars, TotalsInv, TotalsTypeOK, RowsAddUp, Seen, Column, ReportIsTrue,
                ReportAddsUp, ReportNamesTheHeaviest
  <2> QED BY <2>1, RecordBytesKeeps, FinalizeTotalsKeeps, Zenon DEF TotalsNext
<1>2. TotalsInv => ReportIsTrue
  BY DEF TotalsInv
<1> QED BY <1>1, <1>2, TotalsInitially, PTL DEF TotalsSpec
-----------------------------------------------------------------------------
\* The largest of some natural numbers is one of them.
LEMMA MaxOf ==
  ASSUME NEW S, IsFiniteSet(S), S # {}, S \subseteq Nat
  PROVE  Max(S) \in S /\ \A y \in S : y <= Max(S)
<1> DEFINE G == {s \in SUBSET S : s # {} => \E x \in s : \A y \in s : x >= y}
<1>1. {} \in G
  OBVIOUS
<1>2. \A s \in SUBSET S : \A x \in S : x \notin s /\ s \in G => s \union {x} \in G
  <2> SUFFICES ASSUME NEW s \in SUBSET S, NEW x \in S, x \notin s, s \in G
               PROVE  \E m \in s \union {x} : \A y \in s \union {x} : m >= y
    BY Zenon
  <2>1. CASE s = {}
    BY <2>1
  <2>2. CASE s # {}
    <3>1. PICK m \in s : \A y \in s : m >= y
      BY <2>2, Zenon
    <3> HIDE DEF G
    <3>2. CASE m >= x
      BY <3>1, <3>2
    <3>3. CASE ~(m >= x)
      <4>1. \A y \in s \union {x} : x >= y
        BY <3>1, <3>3
      <4> QED BY <4>1
    <3> QED BY <3>2, <3>3
  <2> QED BY <2>1, <2>2
<1>3. S \in G
  <2> HIDE DEF G
  <2> QED BY <1>1, <1>2, GrowingInduction, Zenon
<1>4. \E x \in S : \A y \in S : x >= y
  BY <1>3, Zenon
<1>5. Max(S) \in S /\ \A y \in S : Max(S) >= y
  BY <1>4, Zenon DEF Max
<1> HIDE DEF G
<1> QED BY <1>5

\* So is the least.
LEMMA MinOf ==
  ASSUME NEW S, S # {}, S \subseteq Nat
  PROVE  Min(S) \in S /\ \A y \in S : Min(S) <= y
<1> DEFINE G == {n \in Nat : \A x \in S : x <= n => \E m \in S : \A y \in S : m <= y}
<1>1. 0 \in G
  OBVIOUS
<1>2. \A n \in Nat : n \in G => n + 1 \in G
  <2> SUFFICES ASSUME NEW n \in Nat, n \in G, NEW x \in S, x <= n + 1
               PROVE  \E m \in S : \A y \in S : m <= y
    OBVIOUS
  <2>1. CASE \E y \in S : y <= n
    BY <2>1
  <2>2. CASE ~\E y \in S : y <= n
    BY <2>2
  <2> QED BY <2>1, <2>2
<1>3. \A n \in Nat : n \in G
  <2> HIDE DEF G
  <2> QED BY <1>1, <1>2, NatSetInduction, Zenon
<1>4. PICK x \in S : TRUE
  OBVIOUS
<1>5. x \in Nat /\ x <= x
  OBVIOUS
<1>6. \E m \in S : \A y \in S : m <= y
  BY <1>3, <1>5
<1> HIDE DEF G
<1> QED BY <1>6, Zenon DEF Min

Ascending(s) == \A i, j \in 1 .. Len(s) : i < j => s[i] < s[j]

\* How many of the times are earlier than a time.
Below(S, t) == {s \in S : s < t}
Rank(S, t) == Cardinality(Below(S, t))

\* Times of a set have different ranks, below its size.
LEMMA RanksDiffer ==
  ASSUME NEW S, IsFiniteSet(S), S \subseteq Nat
  PROVE  /\ Cardinality(S) \in Nat
         /\ \A t \in S : Rank(S, t) \in 0 .. Cardinality(S) - 1
         /\ \A t \in S : \A u \in S : t < u => Rank(S, t) < Rank(S, u)
         /\ \A t \in S : \A u \in S : Rank(S, t) = Rank(S, u) => t = u
<1>0. Cardinality(S) \in Nat
  BY FS_CardinalityType
<1>1. \A t \in S : IsFiniteSet(Below(S, t)) /\ Rank(S, t) \in Nat
  <2> TAKE t \in S
  <2>1. Below(S, t) \subseteq S
    BY DEF Below
  <2>2. IsFiniteSet(Below(S, t))
    BY <2>1, FS_Subset, Zenon
  <2> QED BY <2>2, FS_CardinalityType, Zenon DEF Rank
<1>2. \A t \in S : \A u \in S : t < u => Rank(S, t) < Rank(S, u)
  <2> SUFFICES ASSUME NEW t \in S, NEW u \in S, t < u PROVE Rank(S, t) < Rank(S, u)
    OBVIOUS
  <2> DEFINE more == Below(S, t) \union {t}
  <2>0. t \in Nat /\ u \in Nat /\ ~(t < t)
    OBVIOUS
  <2>1. t \notin Below(S, t)
    BY <2>0 DEF Below
  <2>2. more \subseteq Below(S, u)
    <3> SUFFICES ASSUME NEW x \in more PROVE x \in Below(S, u)
      OBVIOUS
    <3>1. x \in S /\ (x < t \/ x = t)
      BY DEF Below
    <3>2. x \in Nat
      BY <3>1
    <3>3. x < u
      BY <2>0, <3>1, <3>2
    <3> QED BY <3>1, <3>3 DEF Below
  <2>3. Cardinality(more) = Rank(S, t) + 1
    BY <1>1, <2>1, FS_AddElement DEF Rank
  <2> HIDE DEF more
  <2>4. Cardinality(more) <= Rank(S, u)
    BY <1>1, <2>2, FS_Subset DEF Rank
  <2> QED BY <1>1, <2>3, <2>4
<1>3. \A t \in S : Rank(S, t) \in 0 .. Cardinality(S) - 1
  <2> TAKE t \in S
  <2> DEFINE rest1 == S \ {t}
  <2>0. t \in Nat /\ ~(t < t)
    OBVIOUS
  <2>1. Below(S, t) \subseteq rest1
    BY <2>0 DEF Below
  <2>2. Cardinality(rest1) = Cardinality(S) - 1 /\ IsFiniteSet(rest1)
    BY FS_RemoveElement
  <2> HIDE DEF rest1
  <2>3. Rank(S, t) <= Cardinality(rest1)
    BY <2>1, <2>2, FS_Subset DEF Rank
  <2> QED BY <1>0, <1>1, <2>2, <2>3
<1>4. \A t \in S : \A u \in S : Rank(S, t) = Rank(S, u) => t = u
  <2> SUFFICES ASSUME NEW t \in S, NEW u \in S, Rank(S, t) = Rank(S, u), t # u PROVE FALSE
    OBVIOUS
  <2>1. t \in Nat /\ u \in Nat /\ (t < u \/ u < t)
    OBVIOUS
  <2>2. Rank(S, t) < Rank(S, u) \/ Rank(S, u) < Rank(S, t)
    BY <1>2, <2>1
  <2> QED BY <1>1, <2>2
<1> QED BY <1>0, <1>2, <1>3, <1>4

\* Each number below the size is the rank of a time.
LEMMA RanksAreAll ==
  ASSUME NEW S, IsFiniteSet(S), S \subseteq Nat
  PROVE  \A i \in 0 .. Cardinality(S) - 1 : \E t \in S : Rank(S, t) = i
<1> DEFINE rank == [t \in S |-> Rank(S, t)]
           T == 0 .. Cardinality(S) - 1
<1>1. /\ Cardinality(S) \in Nat
      /\ \A t \in S : Rank(S, t) \in T
      /\ \A t \in S : \A u \in S : Rank(S, t) = Rank(S, u) => t = u
  BY RanksDiffer
<1>2. IsFiniteSet(T) /\ Cardinality(T) = Cardinality(S)
  <2>1. 0 \in Int /\ Cardinality(S) - 1 \in Int
    BY <1>1
  <2>2. Cardinality(T) = IF 0 > Cardinality(S) - 1 THEN 0 ELSE Cardinality(S) - 1 - 0 + 1
    BY <2>1, FS_Interval, Zenon
  <2>3. IsFiniteSet(T)
    BY <2>1, FS_Interval, Zenon
  <2> HIDE DEF T
  <2> QED BY <1>1, <2>2, <2>3
<1>3. rank \in Injection(S, T)
  <2>1. rank \in [S -> T] /\ DOMAIN rank = S /\ \A t \in S : rank[t] = Rank(S, t)
    <3>1. DOMAIN rank = S /\ \A t \in S : rank[t] = Rank(S, t)
      BY Zenon
    <3> HIDE DEF T
    <3>2. rank \in [S -> T]
      BY <1>1
    <3> QED BY <3>1, <3>2, Zenon
  <2> HIDE DEF rank, T
  <2>2. \A t \in S : \A u \in S : rank[t] = rank[u] => t = u
    BY <1>1, <2>1
  <2>3. IsInjective(rank)
    BY <2>1, <2>2, Zenon DEF IsInjective
  <2> QED BY <2>1, <2>3, Zenon DEF Injection
<1>4. \A t \in S : rank[t] = Rank(S, t)
  BY Zenon
<1> HIDE DEF rank, T
<1>5. rank \in Surjection(S, T)
  BY <1>2, <1>3, FS_Injection, Zenon
<1> QED BY <1>4, <1>5, Zenon DEF Surjection, T

\* The times in order are all of the times, each once.
LEMMA InOrderIs ==
  ASSUME NEW S, IsFiniteSet(S), S \subseteq Nat
  PROVE  InOrder(S) \in Seq(S) /\ Range(InOrder(S)) = S /\ Ascending(InOrder(S))
<1> DEFINE n == Cardinality(S)
           q == InOrder(S)
<1>1. /\ n \in Nat
      /\ \A t \in S : Rank(S, t) \in 0 .. n - 1
      /\ \A t \in S : \A u \in S : t < u => Rank(S, t) < Rank(S, u)
      /\ \A t \in S : \A u \in S : Rank(S, t) = Rank(S, u) => t = u
  BY RanksDiffer, Zenon
<1>2. q = [i \in 1 .. n |-> CHOOSE t \in S : Rank(S, t) = i - 1]
  BY Zenon DEF InOrder, Rank, Below
<1>3. \A i \in 1 .. n : q[i] \in S /\ Rank(S, q[i]) = i - 1
  <2> TAKE i \in 1 .. n
  <2>1. i - 1 \in 0 .. n - 1
    BY <1>1
  <2>2. \E t \in S : Rank(S, t) = i - 1
    BY <2>1, RanksAreAll, Zenon
  <2> HIDE DEF q
  <2>3. q[i] = CHOOSE t \in S : Rank(S, t) = i - 1
    BY <1>2, Zenon
  <2> QED BY <2>2, <2>3, Zenon
<1> HIDE DEF q, n
<1>4. q \in [1 .. n -> S]
  BY <1>2, <1>3
<1>5. q \in Seq(S) /\ Len(q) = n /\ DOMAIN q = 1 .. n
  BY <1>1, <1>4
<1>6. Range(q) = S
  <2>1. \A t \in S : \E i \in 1 .. n : q[i] = t
    <3> TAKE t \in S
    <3>1. Rank(S, t) + 1 \in 1 .. n /\ (Rank(S, t) + 1) - 1 = Rank(S, t)
      BY <1>1
    <3>2. q[Rank(S, t) + 1] \in S /\ Rank(S, q[Rank(S, t) + 1]) = Rank(S, t)
      BY <1>3, <3>1
    <3>3. q[Rank(S, t) + 1] = t
      BY <1>1, <3>2, Zenon
    <3> QED BY <3>1, <3>3, Zenon
  <2> QED BY <1>3, <1>5, <2>1, Zenon DEF Range
<1>7. Ascending(q)
  <2> SUFFICES ASSUME NEW i \in 1 .. n, NEW j \in 1 .. n, i < j PROVE q[i] < q[j]
    BY <1>5 DEF Ascending
  <2>1. q[i] \in S /\ q[j] \in S /\ Rank(S, q[i]) = i - 1 /\ Rank(S, q[j]) = j - 1
    BY <1>3
  <2>2. q[i] \in Nat /\ q[j] \in Nat
    BY <2>1
  <2>3. q[i] # q[j] /\ ~(q[j] < q[i])
    <3>1. i - 1 # j - 1 /\ ~(j - 1 < i - 1)
      BY <1>1
    <3>2. q[j] < q[i] => Rank(S, q[j]) < Rank(S, q[i])
      BY <1>1, <2>1, Zenon
    <3> QED BY <2>1, <3>1, <3>2, Zenon
  <2> HIDE DEF q
  <2> QED BY <2>2, <2>3
<1> QED BY <1>5, <1>6, <1>7 DEF q

\* Ascending sequences joined are ascending when the second one comes later.
LEMMA JoinedAscends ==
  ASSUME NEW s \in Seq(Nat), NEW t \in Seq(Nat)
  PROVE  /\ s \o t \in Seq(Nat)
         /\ Range(s \o t) = Range(s) \union Range(t)
         /\ Ascending(s) /\ Ascending(t) /\ (\A x \in Range(s) : \A y \in Range(t) : x < y)
              => Ascending(s \o t)
<1> DEFINE j == s \o t
           m == Len(s)
           n == Len(t)
<1>1. /\ j \in Seq(Nat) /\ Len(j) = m + n /\ m \in Nat /\ n \in Nat
      /\ DOMAIN j = 1 .. m + n /\ DOMAIN s = 1 .. m /\ DOMAIN t = 1 .. n
  OBVIOUS
<1>2. \A i \in 1 .. m : i \in 1 .. m + n /\ j[i] = s[i] /\ s[i] \in Nat
  OBVIOUS
<1>3. \A i \in 1 .. n : m + i \in 1 .. m + n /\ j[m + i] = t[i] /\ t[i] \in Nat
  OBVIOUS
<1>4. \A i \in 1 .. m + n : i > m => i - m \in 1 .. n /\ j[i] = t[i - m]
  OBVIOUS
<1> HIDE DEF j, m, n
<1>5. \A i \in 1 .. m + n : j[i] \in Range(s) \union Range(t)
  <2> TAKE i \in 1 .. m + n
  <2>1. CASE i <= m
    <3>1. i \in 1 .. m
      BY <1>1, <2>1
    <3> QED BY <1>1, <1>2, <3>1 DEF Range
  <2>2. CASE i > m
    <3>1. i - m \in DOMAIN t /\ j[i] = t[i - m]
      BY <1>1, <1>4, <2>2
    <3> QED BY <3>1, Zenon DEF Range
  <2> QED BY <1>1, <2>1, <2>2
<1>6. \A i \in 1 .. m : s[i] \in Range(j)
  BY <1>1, <1>2, Zenon DEF Range
<1>7. \A i \in 1 .. n : t[i] \in Range(j)
  BY <1>1, <1>3, Zenon DEF Range
<1>8. Range(j) = Range(s) \union Range(t)
  BY <1>1, <1>5, <1>6, <1>7, Zenon DEF Range
<1>9. ASSUME Ascending(s), Ascending(t), \A x \in Range(s) : \A y \in Range(t) : x < y
      PROVE  Ascending(j)
  <2> SUFFICES ASSUME NEW i \in 1 .. m + n, NEW k \in 1 .. m + n, i < k PROVE j[i] < j[k]
    BY <1>1 DEF Ascending
  <2>0. /\ \A a \in 1 .. m : \A b \in 1 .. m : a < b => s[a] < s[b]
        /\ \A a \in 1 .. n : \A b \in 1 .. n : a < b => t[a] < t[b]
    BY <1>9, Zenon DEF Ascending, m, n
  <2>1. CASE k <= m
    <3>1. i \in 1 .. m /\ k \in 1 .. m
      BY <1>1, <2>1
    <3> QED BY <1>2, <2>0, <3>1
  <2>2. CASE i > m
    <3>1. i - m \in 1 .. n /\ k - m \in 1 .. n /\ j[i] = t[i - m] /\ j[k] = t[k - m]
      BY <1>1, <1>4, <2>2
    <3>2. i - m < k - m
      BY <1>1
    <3> QED BY <2>0, <3>1, <3>2
  <2>3. CASE i <= m /\ k > m
    <3>1. i \in 1 .. m /\ k - m \in 1 .. n /\ j[k] = t[k - m]
      BY <1>1, <1>4, <2>3
    <3>2. j[i] \in Range(s) /\ j[k] \in Range(t)
      BY <1>1, <1>2, <3>1, Zenon DEF Range
    <3> QED BY <1>9, <3>2
  <2> QED BY <1>1, <2>1, <2>2, <2>3
<1> QED BY <1>1, <1>8, <1>9, Zenon DEF j
-----------------------------------------------------------------------------
(***************************************************************************)
(* GpuAccounting: the inductive invariant.                                 *)
(***************************************************************************)
GpuTypeOK ==
  /\ clock \in Nat /\ running \subseteq Processes
  /\ samples \in [Processes -> SUBSET (1 .. clock)]
  /\ buffer \in [Processes -> SUBSET (1 .. clock)]
  /\ \A p \in Processes : buffer[p] \subseteq samples[p]
  /\ taskAt \in {"new", "open", "stopping", "built", "cut short"}
  /\ span \in [from : Nat, to : Nat]
  /\ lastSeen \in [Processes -> Nat] /\ baseline \in [Processes -> Nat]
  /\ collected \in [Processes -> Seq(Nat)]
  /\ sampler \in [busy : BOOLEAN, at : Nat, read : [Processes -> SUBSET (1 .. clock)],
                  lost : Nat]

Going == taskAt \in {"new", "open", "stopping"}
During(p) == {t \in samples[p] : t > span.from /\ t <= sampler.at}
Reached(p) == {t \in buffer[p] : t > span.from /\ t <= sampler.at /\ t > sampler.lost}

\* The readings come after the start of the task, and nobody was seen after the last one.
ReadingsAreTimely ==
  /\ span.from <= sampler.at /\ sampler.at <= clock
  /\ \A p \in Processes : lastSeen[p] <= sampler.at
  /\ ~sampler.busy => sampler.read = Nothing
  /\ taskAt = "stopping" => span.to <= clock
  /\ taskAt = "new" => span.from = 0 /\ sampler.at = 0 /\ ~sampler.busy

\* What a reading found, and the driver still has, is collected, or the thread is about to;
\* or it was lost.
ReadingsAreKept ==
  \A p \in Processes : Reached(p) \subseteq Range(collected[p]) \union sampler.read[p]

\* A process that had a sample at a time was seen at it, another one was not seen.
SeenBy(p, when, seen) ==
  IF \E t \in samples[p] : t <= when THEN seen = when ELSE seen = 0

\* As long as no process has ended, one that has been on the device has a sample for every
\* tick since, of which the driver has the last.
Unbroken(p) ==
  /\ samples[p] # {} => p \in running
  /\ \A t \in samples[p] : \A u \in Nat : t <= u /\ u <= clock => u \in samples[p]
  /\ clock \in samples[p] => clock \in buffer[p]

\* If the reading at the start of the task was not in vain, the last reading saw whoever
\* was there, and what is collected are samples of the task, each once and in the order
\* of time.
Caught(p) ==
  /\ SeenBy(p, sampler.at, lastSeen[p])
  /\ taskAt # "new" => SeenBy(p, span.from, baseline[p])
Gathered(p) ==
  /\ Range(collected[p]) \union sampler.read[p] \subseteq During(p)
  /\ Ascending(collected[p])
  /\ \A s \in Range(collected[p]) : \A t \in sampler.read[p] : s < t

Steady == gone = {} /\ (taskAt = "new" \/ baseline # None0)
SteadyDevice == Steady => \A p \in Processes : Unbroken(p) /\ Caught(p) /\ Gathered(p)

GpuInv ==
  /\ GpuTypeOK
  /\ Going => ReadingsAreTimely /\ ReadingsAreKept /\ SteadyDevice
  /\ GpuTimeIsTrue

\* Nobody has paid before the task is finished.
LEMMA NobodyHasPaid == Going' => GpuTimeIsTrue'
BY DEF Going, GpuTimeIsTrue, NothingKeptIsMissed, SteadyProcessesPayWhatTheyRan,
       SteadyProcessesPayToTheEnd, Finished

\* The samples of the driver are times up to now.
LEMMA SamplesType ==
  ASSUME GpuTypeOK, NEW p \in Processes
  PROVE  /\ clock \in Nat /\ samples[p] \subseteq 1 .. clock
         /\ \A t \in samples[p] : t \in Nat /\ 1 <= t /\ t <= clock
         /\ buffer[p] \subseteq samples[p]
<1>1. clock \in Nat /\ samples[p] \subseteq 1 .. clock /\ buffer[p] \subseteq samples[p]
  BY DEF GpuTypeOK
<1> QED BY <1>1

\* Some samples of a process are finitely many.
LEMMA SamplesAreTimes ==
  ASSUME GpuTypeOK, NEW p \in Processes, NEW T, T \subseteq samples[p]
  PROVE  IsFiniteSet(T) /\ T \subseteq Nat
<1>1. clock \in Nat /\ samples[p] \subseteq 1 .. clock
  BY DEF GpuTypeOK
<1>2. 1 \in Int /\ clock \in Int
  BY <1>1
<1>3. IsFiniteSet(1 .. clock)
  BY <1>2, FS_Interval, Zenon
<1>4. T \subseteq 1 .. clock
  BY <1>1, Zenon
<1>5. IsFiniteSet(T)
  BY <1>3, <1>4, FS_Subset, Zenon
<1>6. T \subseteq Nat
  BY <1>4
<1> QED BY <1>5, <1>6

\* The time asked for is not later than the last reading, so that no later sample is missed.
LEMMA SinceIs ==
  ASSUME NEW seen \in [Processes -> Nat], NEW a \in Nat, \A p \in Processes : seen[p] <= a
  PROVE  /\ Since(seen) \in Nat /\ Since(seen) <= a
         /\ (\A p \in Processes : seen[p] \in {0, a}) /\ (\E p \in Processes : seen[p] = a)
              => Since(seen) = a
         /\ (\A p \in Processes : seen[p] = 0) => Since(seen) = 0
<1> DEFINE times == {seen[p] : p \in Processes} \ {0}
<1>1. times \subseteq Nat /\ \A t \in times : t <= a /\ t # 0
  OBVIOUS
<1>2. Since(seen) = IF times = {} THEN 0 ELSE Min(times)
  BY DEF Since
<1>3. (\A p \in Processes : seen[p] \in {0, a}) => \A t \in times : t = a
  OBVIOUS
<1>4. (\E p \in Processes : seen[p] = a) => a = 0 \/ a \in times
  OBVIOUS
<1>5. (\A p \in Processes : seen[p] = 0) => times = {}
  OBVIOUS
<1> HIDE DEF times
<1>6. times # {} => Min(times) \in times
  BY <1>1, MinOf, Zenon
<1>7. CASE times = {}
  BY <1>2, <1>4, <1>7
<1>8. CASE times # {}
  BY <1>1, <1>2, <1>3, <1>5, <1>6, <1>8
<1> QED BY <1>7, <1>8

\* The driver answers with every sample it has later than the last reading, and perhaps
\* more.
LEMMA UtilizationIs ==
  ASSUME GpuTypeOK, NEW seen \in [Processes -> Nat], NEW a \in Nat,
         \A p \in Processes : seen[p] <= a, NEW p \in Processes
  PROVE  /\ Utilization(seen)[p] \subseteq buffer[p]
         /\ Utilization(seen)[p] \subseteq samples[p]
         /\ \A t \in buffer[p] : t > a => t \in Utilization(seen)[p]
<1>1. Since(seen) \in Nat /\ Since(seen) <= a
  BY SinceIs
<1>2. Utilization(seen)[p] = {t \in buffer[p] : t > Since(seen)}
  BY Zenon DEF Utilization
<1>3. (\A t \in samples[p] : t \in Nat) /\ buffer[p] \subseteq samples[p]
  BY SamplesType
<1>4. \A t \in buffer[p] : t > a => t > Since(seen)
  BY <1>1, <1>3
<1> QED BY <1>2, <1>3, <1>4

\* What is noted of a process is the latest time seen of it.
LEMMA NotedIs ==
  ASSUME GpuTypeOK, NEW seen \in [Processes -> Nat], NEW read, NEW p \in Processes,
         read[p] \subseteq samples[p]
  PROVE  LET m == Noted(seen, read)[p]
         IN  /\ m \in {seen[p]} \union read[p] /\ m \in Nat
             /\ \A t \in {seen[p]} \union read[p] : t <= m
<1> DEFINE M == {seen[p]} \union read[p]
<1>1. IsFiniteSet(read[p]) /\ read[p] \subseteq Nat
  BY SamplesAreTimes
<1>2. IsFiniteSet(M)
  BY <1>1, FS_AddElement
<1>3. M \subseteq Nat /\ M # {}
  BY <1>1
<1>4. Noted(seen, read)[p] = Max(M)
  BY Zenon DEF Noted
<1> HIDE DEF M
<1>5. Max(M) \in M /\ \A t \in M : t <= Max(M)
  BY <1>2, <1>3, MaxOf, Zenon
<1>6. Max(M) \in Nat
  BY <1>3, <1>5
<1> QED BY <1>4, <1>5, <1>6, Zenon DEF M

\* What is noted has the type of what was seen, and is no later than now.
LEMMA NotedType ==
  ASSUME GpuTypeOK, NEW seen \in [Processes -> Nat], NEW a \in Nat, a <= clock,
         \A p \in Processes : seen[p] <= a
  PROVE  /\ Utilization(seen) \in [Processes -> SUBSET (1 .. clock)]
         /\ Noted(seen, Utilization(seen)) \in [Processes -> Nat]
         /\ \A p \in Processes : Noted(seen, Utilization(seen))[p] <= clock
<1> DEFINE U == Utilization(seen)
           N == Noted(seen, U)
<1>1. \A p \in Processes : U[p] \subseteq samples[p]
  BY UtilizationIs, Zenon
<1>2. \A p \in Processes : samples[p] \subseteq 1 .. clock
  BY DEF GpuTypeOK
<1>3. U = [p \in Processes |-> U[p]]
  BY Zenon DEF Utilization
<1>4. N = [p \in Processes |-> N[p]]
  BY Zenon DEF Noted
<1> HIDE DEF U, N
<1>5. \A p \in Processes : N[p] \in {seen[p]} \union U[p] /\ N[p] \in Nat
  BY <1>1, NotedIs, Zenon DEF N
<1>6. \A p \in Processes : N[p] <= clock
  <2> TAKE p \in Processes
  <2>1. clock \in Nat /\ seen[p] \in Nat /\ seen[p] <= a
    BY SamplesType
  <2>2. \A t \in U[p] : t <= clock
    BY <1>1, SamplesType, Zenon
  <2> QED BY <1>5, <2>1, <2>2
<1>7. U \in [Processes -> SUBSET (1 .. clock)]
  BY <1>1, <1>2, <1>3, Zenon
<1>8. N \in [Processes -> Nat]
  BY <1>4, <1>5, Zenon
<1> QED BY <1>6, <1>7, <1>8, Zenon DEF U, N

\* On a steady device exactly the samples later than the last reading are found, and who
\* has one is noted as seen now.
LEMMA SteadyReading ==
  ASSUME GpuTypeOK, NEW seen \in [Processes -> Nat], NEW a \in Nat, a <= clock,
         \A p \in Processes : Unbroken(p) /\ SeenBy(p, a, seen[p]), NEW p \in Processes
  PROVE  /\ Utilization(seen)[p] = {t \in buffer[p] : t > a}
         /\ SeenBy(p, clock, Noted(seen, Utilization(seen))[p])
<1> DEFINE U == Utilization(seen)
           N == Noted(seen, U)
<1>0. /\ clock \in Nat
      /\ \A q \in Processes : samples[q] \subseteq 1 .. clock /\ buffer[q] \subseteq samples[q]
  BY DEF GpuTypeOK
<1>1. \A q \in Processes : seen[q] \in {0, a} /\ seen[q] <= a
  BY DEF SeenBy
<1>2. U[p] = {t \in buffer[p] : t > Since(seen)} /\ Since(seen) \in Nat
  BY <1>1, SinceIs, Zenon DEF Utilization
<1>3. U[p] = {t \in buffer[p] : t > a}
  <2>1. CASE \E q \in Processes : seen[q] = a
    <3>1. Since(seen) = a
      BY <1>1, <2>1, SinceIs, Zenon
    <3> QED BY <1>2, <3>1, Zenon
  <2>2. CASE \A q \in Processes : seen[q] # a
    <3>1. \A q \in Processes : seen[q] = 0
      BY <1>1, <2>2, Zenon
    <3>2. Since(seen) = 0
      BY <1>1, <3>1, SinceIs, Zenon
    <3>3. \A t \in buffer[p] : t > a /\ t > 0
      <4> TAKE t \in buffer[p]
      <4>1. t \in samples[p]
        BY <1>0
      <4>2. ~(t <= a)
        BY <2>2, <4>1, Zenon DEF SeenBy
      <4> QED BY <1>0, <4>1, <4>2
    <3> HIDE DEF U
    <3> QED BY <1>2, <3>2, <3>3
  <2> QED BY <2>1, <2>2, Zenon
<1>4. U[p] \subseteq buffer[p] /\ U[p] \subseteq samples[p]
  BY <1>0, <1>2, Zenon
<1>5. /\ N[p] \in {seen[p]} \union U[p] /\ N[p] \in Nat
      /\ \A t \in {seen[p]} \union U[p] : t <= N[p]
  BY <1>4, NotedIs, Zenon
<1> HIDE DEF U, N
<1>6. SeenBy(p, clock, N[p])
  <2>1. CASE samples[p] = {}
    <3>1. U[p] = {} /\ seen[p] = 0
      BY <1>4, <2>1 DEF SeenBy
    <3> QED BY <1>5, <2>1, <3>1 DEF SeenBy
  <2>2. CASE samples[p] # {}
    <3>1. PICK t \in samples[p] : TRUE
      BY <2>2
    <3>2. t \in Nat /\ t <= clock
      BY <1>0, <3>1
    <3>3. clock \in samples[p] /\ clock \in buffer[p]
      BY <1>0, <3>1, <3>2 DEF Unbroken
    <3>4. clock \in {seen[p]} \union U[p]
      <4>1. CASE clock > a
        BY <1>3, <3>3, <4>1
      <4>2. CASE ~(clock > a)
        <5>1. clock = a /\ t <= a
          BY <1>0, <3>2, <4>2
        <5> QED BY <3>1, <5>1 DEF SeenBy
      <4> QED BY <4>1, <4>2
    <3>5. \A u \in {seen[p]} \union U[p] : u <= clock
      BY <1>0, <1>1, <1>4
    <3>6. N[p] = clock
      BY <1>0, <1>5, <3>4, <3>5
    <3> QED BY <3>1, <3>2, <3>6 DEF SeenBy
  <2> QED BY <2>1, <2>2
<1> QED BY <1>3, <1>6 DEF U, N

\* The task has not begun.
LEMMA GpuInitially == GpuInit => GpuInv
<1> SUFFICES ASSUME GpuInit PROVE GpuInv
  OBVIOUS
<1>1. /\ clock = 0 /\ running = {} /\ taskAt = "new"
      /\ samples = [p \in Processes |-> {}] /\ sampler.read = [p \in Processes |-> {}]
      /\ buffer = [p \in Processes |-> {}]
      /\ span = [from |-> 0, to |-> 0] /\ sampler.at = 0 /\ sampler.busy = FALSE
      /\ lastSeen = [p \in Processes |-> 0] /\ baseline = [p \in Processes |-> 0]
      /\ collected = [p \in Processes |-> <<>>]
      /\ sampler = [busy |-> FALSE, at |-> 0, read |-> [p \in Processes |-> {}], lost |-> 0]
  BY DEF GpuInit, None0, Nothing
<1>2. GpuTypeOK
  BY <1>1 DEF GpuTypeOK
<1>3. ReadingsAreTimely
  BY <1>1 DEF ReadingsAreTimely, Nothing
<1>4. \A p \in Processes : Reached(p) = {} /\ Range(collected[p]) = {} /\ samples[p] = {}
                           /\ sampler.read[p] = {} /\ collected[p] = <<>> /\ lastSeen[p] = 0
  BY <1>1 DEF Reached, Range
<1>5. ReadingsAreKept
  BY <1>4 DEF ReadingsAreKept
<1>6. SteadyDevice
  <2> SUFFICES ASSUME NEW p \in Processes PROVE Unbroken(p) /\ Caught(p) /\ Gathered(p)
    BY DEF SteadyDevice
  <2>1. Unbroken(p)
    BY <1>4 DEF Unbroken
  <2>2. Caught(p)
    BY <1>1, <1>4 DEF Caught, SeenBy
  <2>3. Gathered(p)
    BY <1>4 DEF Gathered, Ascending
  <2> QED BY <2>1, <2>2, <2>3
<1>7. GpuTimeIsTrue
  BY <1>1 DEF GpuTimeIsTrue, NothingKeptIsMissed, SteadyProcessesPayWhatTheyRan,
              SteadyProcessesPayToTheEnd, Finished
<1> QED BY <1>1, <1>2, <1>3, <1>5, <1>6, <1>7 DEF GpuInv

\* A tick adds a sample to each running process, and the driver drops some.
LEMMA TickKeeps == GpuInv /\ Tick => GpuInv'
<1> SUFFICES ASSUME GpuInv, Tick PROVE GpuInv'
  OBVIOUS
<1>1. /\ Going
      /\ GpuTypeOK /\ ReadingsAreTimely /\ ReadingsAreKept /\ SteadyDevice
  BY DEF GpuInv, Tick, Finished, GpuTypeOK, Going
<1>2. /\ clock' = clock + 1
      /\ samples' = [p \in Processes |->
                       IF p \in running THEN samples[p] \union {clock + 1} ELSE samples[p]]
      /\ running' = running /\ gone' = gone /\ taskAt' = taskAt /\ span' = span
      /\ lastSeen' = lastSeen /\ baseline' = baseline /\ collected' = collected
      /\ sampler' = sampler
  BY DEF Tick
<1>3. \A p \in Processes :
        /\ samples'[p] = IF p \in running THEN samples[p] \union {clock + 1} ELSE samples[p]
        /\ clock \in Nat /\ samples[p] \subseteq 1 .. clock
        /\ \A t \in samples[p] : t \in Nat /\ 1 <= t /\ t <= clock
  BY <1>1, <1>2, SamplesType, Zenon
<1>4. clock \in Nat /\ sampler.at \in Nat /\ span.from \in Nat /\ span.to \in Nat
      /\ sampler.at <= clock /\ span.from <= sampler.at
  BY <1>1 DEF GpuTypeOK, ReadingsAreTimely
<1>12. /\ buffer' = [p \in Processes |-> buffer'[p]]
       /\ \A p \in Processes : /\ buffer'[p] \subseteq samples'[p]
                               /\ buffer'[p] \subseteq buffer[p] \union {clock + 1}
                               /\ clock + 1 \in samples'[p] => clock + 1 \in buffer'[p]
  <2>1. PICK oldest \in 1 .. clock + 1 :
          buffer' = [p \in Processes |-> {t \in samples'[p] :
                                            /\ t \in buffer[p] \union {clock + 1}
                                            /\ t >= oldest}]
    BY DEF Tick
  <2>2. clock + 1 >= oldest
    BY <1>4
  <2>3. \A p \in Processes :
          buffer'[p] = {t \in samples'[p] : t \in buffer[p] \union {clock + 1} /\ t >= oldest}
    BY <2>1, Zenon
  <2>4. buffer' = [p \in Processes |-> buffer'[p]]
    BY <2>1, Zenon
  <2> QED BY <2>2, <2>3, <2>4
<1>5. GpuTypeOK'
  <2>1. 1 .. clock \subseteq 1 .. clock'
    BY <1>2, <1>4
  <2>2. \A p \in Processes : samples'[p] \subseteq 1 .. clock'
    BY <1>2, <1>3, <1>4
  <2>3. samples' \in [Processes -> SUBSET (1 .. clock')]
    BY <1>2, <2>2, Zenon
  <2>4. sampler' \in [busy : BOOLEAN, at : Nat, read : [Processes -> SUBSET (1 .. clock')],
                      lost : Nat]
    BY <1>1, <1>2, <2>1 DEF GpuTypeOK
  <2>5. /\ running' \subseteq Processes
        /\ taskAt' \in {"new", "open", "stopping", "built", "cut short"}
        /\ span' \in [from : Nat, to : Nat]
        /\ lastSeen' \in [Processes -> Nat] /\ baseline' \in [Processes -> Nat]
        /\ collected' \in [Processes -> Seq(Nat)]
    BY <1>1, <1>2, Zenon DEF GpuTypeOK
  <2>6. clock' \in Nat
    BY <1>2, <1>4
  <2>7. \A p \in Processes : buffer'[p] \subseteq 1 .. clock'
    BY <1>12, <2>2, Zenon
  <2>8. buffer' \in [Processes -> SUBSET (1 .. clock')]
    BY <1>12, <2>7, Zenon
  <2>9. \A p \in Processes : buffer'[p] \subseteq samples'[p]
    BY <1>12
  <2> QED BY <2>3, <2>4, <2>5, <2>6, <2>8, <2>9, Zenon DEF GpuTypeOK
<1>6. ReadingsAreTimely'
  BY <1>1, <1>2, <1>4 DEF ReadingsAreTimely, Nothing
<1>7. \A p \in Processes : During(p)' = During(p) /\ Reached(p)' \subseteq Reached(p)
  <2> TAKE p \in Processes
  <2>1. During(p)' = During(p)
    BY <1>2, <1>3, <1>4 DEF During
  <2>2. ~(clock + 1 <= sampler.at)
    BY <1>4
  <2> QED BY <1>2, <1>12, <2>1, <2>2 DEF Reached
<1>8. ReadingsAreKept'
  BY <1>1, <1>2, <1>7 DEF ReadingsAreKept
<1>9. SteadyDevice'
  <2> SUFFICES ASSUME Steady, NEW p \in Processes
               PROVE  Unbroken(p)' /\ Caught(p)' /\ Gathered(p)'
    BY <1>2 DEF SteadyDevice, Steady, None0
  <2>1. Unbroken(p) /\ Caught(p) /\ Gathered(p)
    BY <1>1 DEF SteadyDevice
  <2>2. Unbroken(p)'
    <3>1. samples'[p] # {} => p \in running
      BY <1>3, <2>1 DEF Unbroken
    <3>2. ASSUME NEW t \in samples'[p], NEW u \in Nat, t <= u, u <= clock + 1
          PROVE  u \in samples'[p]
      <4>1. p \in running /\ samples'[p] = samples[p] \union {clock + 1}
        BY <1>3, <3>1, <3>2
      <4>2. CASE u = clock + 1
        BY <4>1, <4>2
      <4>3. CASE u # clock + 1
        <5>1. u <= clock /\ t # clock + 1
          BY <1>4, <3>2, <4>3
        <5>2. t \in samples[p]
          BY <3>2, <4>1, <5>1
        <5> QED BY <2>1, <3>2, <4>1, <5>1, <5>2 DEF Unbroken
      <4> QED BY <4>2, <4>3
    <3> QED BY <1>2, <1>12, <3>1, <3>2 DEF Unbroken
  <2>3. \A a \in Nat : a <= clock =>
          ((\E t \in samples'[p] : t <= a) <=> (\E t \in samples[p] : t <= a))
    <3> TAKE a \in Nat
    <3> HAVE a <= clock
    <3>1. CASE p \in running
      <4>1. ~(clock + 1 <= a)
        BY <1>4
      <4>2. samples'[p] = samples[p] \union {clock + 1}
        BY <1>3, <3>1
      <4> QED BY <4>1, <4>2
    <3>2. CASE p \notin running
      <4>1. samples'[p] = samples[p]
        BY <1>3, <3>2
      <4> QED BY <4>1
    <3> QED BY <3>1, <3>2
  <2>4. Caught(p)'
    <3>1. span.from <= clock
      BY <1>4
    <3> QED BY <1>2, <1>4, <2>1, <2>3, <3>1 DEF Caught, SeenBy
  <2>5. Gathered(p)'
    BY <1>2, <1>7, <2>1 DEF Gathered, Ascending
  <2> QED BY <2>2, <2>4, <2>5
<1>10. Going'
  BY <1>1, <1>2 DEF Going
<1> QED BY <1>5, <1>6, <1>8, <1>9, <1>10, NobodyHasPaid DEF GpuInv

\* A process that starts has no sample yet.
LEMMA ProcessStartsKeeps ==
  ASSUME GpuInv, NEW p \in Processes, ProcessStarts(p) PROVE GpuInv'
<1>1. /\ Going
      /\ GpuTypeOK /\ ReadingsAreTimely /\ ReadingsAreKept /\ SteadyDevice
  BY DEF GpuInv, ProcessStarts, Finished, GpuTypeOK, Going
<1>2. /\ running' = running \union {p}
      /\ clock' = clock /\ samples' = samples /\ buffer' = buffer /\ gone' = gone
      /\ taskAt' = taskAt /\ span' = span /\ lastSeen' = lastSeen /\ baseline' = baseline
      /\ collected' = collected /\ sampler' = sampler
  BY DEF ProcessStarts
<1>3. GpuTypeOK'
  BY <1>1, <1>2 DEF GpuTypeOK
<1>4. ReadingsAreTimely' /\ ReadingsAreKept'
  BY <1>1, <1>2 DEF ReadingsAreTimely, ReadingsAreKept, Reached, Nothing
<1>5. SteadyDevice'
  BY <1>1, <1>2
     DEF SteadyDevice, Steady, None0, Unbroken, Caught, SeenBy, Gathered, Ascending, During
<1>6. Going'
  BY <1>1, <1>2 DEF Going
<1> QED BY <1>3, <1>4, <1>5, <1>6, NobodyHasPaid DEF GpuInv

\* When a process ends the device is not steady any more.
LEMMA ProcessEndsKeeps ==
  ASSUME GpuInv, NEW p \in Processes, ProcessEnds(p) PROVE GpuInv'
<1>1. /\ Going
      /\ GpuTypeOK /\ ReadingsAreTimely /\ ReadingsAreKept
  BY DEF GpuInv, ProcessEnds, Finished, GpuTypeOK, Going
<1>2. /\ running' = running \ {p} /\ gone' # {}
      /\ clock' = clock /\ samples' = samples /\ buffer' = buffer /\ taskAt' = taskAt
      /\ span' = span /\ lastSeen' = lastSeen /\ baseline' = baseline
      /\ collected' = collected /\ sampler' = sampler
  BY DEF ProcessEnds
<1>3. GpuTypeOK'
  BY <1>1, <1>2 DEF GpuTypeOK
<1>4. ReadingsAreTimely' /\ ReadingsAreKept'
  BY <1>1, <1>2 DEF ReadingsAreTimely, ReadingsAreKept, Reached, Nothing
<1>5. SteadyDevice'
  BY <1>2 DEF SteadyDevice, Steady
<1>6. Going'
  BY <1>1, <1>2 DEF Going
<1> QED BY <1>3, <1>4, <1>5, <1>6, NobodyHasPaid DEF GpuInv

\* The end of the task comes after every reading so far.
LEMMA EndGpuTaskKeeps == GpuInv /\ EndGpuTask => GpuInv'
<1> SUFFICES ASSUME GpuInv, EndGpuTask PROVE GpuInv'
  OBVIOUS
<1>1. /\ taskAt = "open" /\ Going
      /\ GpuTypeOK /\ ReadingsAreTimely /\ ReadingsAreKept /\ SteadyDevice
  BY DEF GpuInv, EndGpuTask, Going
<1>2. /\ taskAt' = "stopping" /\ span' = [span EXCEPT !.to = clock]
      /\ running' = running /\ gone' = gone
      /\ clock' = clock /\ samples' = samples /\ buffer' = buffer
      /\ lastSeen' = lastSeen /\ baseline' = baseline
      /\ collected' = collected /\ sampler' = sampler
  BY DEF EndGpuTask, driver
<1>3. span'.from = span.from /\ span'.to = clock /\ span' \in [from : Nat, to : Nat]
  BY <1>1, <1>2 DEF GpuTypeOK
<1>4. GpuTypeOK'
  BY <1>1, <1>2, <1>3 DEF GpuTypeOK
<1>5. clock \in Nat /\ sampler.at \in Nat /\ sampler.at <= clock
  BY <1>1 DEF GpuTypeOK, ReadingsAreTimely
<1>6. ReadingsAreTimely'
  BY <1>1, <1>2, <1>3, <1>5 DEF ReadingsAreTimely, Nothing
<1>7. ReadingsAreKept'
  BY <1>1, <1>2, <1>3 DEF ReadingsAreKept, Reached
<1>8. SteadyDevice'
  BY <1>1, <1>2, <1>3
     DEF SteadyDevice, Steady, None0, Unbroken, Caught, SeenBy, Gathered, Ascending, During
<1>9. Going'
  BY <1>2 DEF Going
<1> QED BY <1>4, <1>6, <1>7, <1>8, <1>9, NobodyHasPaid DEF GpuInv

\* The first reading takes place as the task begins, or fails (snapshot_start).
LEMMA SnapshotStartKeeps == GpuInv /\ SnapshotStart => GpuInv'
<1> SUFFICES ASSUME GpuInv, SnapshotStart PROVE GpuInv'
  OBVIOUS
<1> DEFINE U == Utilization(None0)
           N == Noted(None0, U)
<1>1. /\ taskAt = "new" /\ Going
      /\ GpuTypeOK /\ ReadingsAreTimely /\ ReadingsAreKept /\ SteadyDevice
  BY DEF GpuInv, SnapshotStart, Going
<1>2. /\ taskAt' = "open" /\ span' = [span EXCEPT !.from = clock]
      /\ sampler' = [sampler EXCEPT !.at = clock]
      /\ lastSeen' \in {N, None0} /\ baseline' = lastSeen'
      /\ running' = running /\ gone' = gone /\ buffer' = buffer
      /\ clock' = clock /\ samples' = samples /\ collected' = collected
  BY Zenon DEF SnapshotStart, driver
<1>3. clock \in Nat /\ span.from = 0 /\ sampler.at = 0 /\ ~sampler.busy
      /\ sampler.read = Nothing
  BY <1>1 DEF GpuTypeOK, ReadingsAreTimely
<1>4. span'.from = clock /\ span' \in [from : Nat, to : Nat]
  BY <1>1, <1>2, <1>3 DEF GpuTypeOK
<1>5. sampler'.at = clock /\ sampler'.busy = sampler.busy /\ sampler'.read = sampler.read
      /\ sampler' \in [busy : BOOLEAN, at : Nat, read : [Processes -> SUBSET (1 .. clock)],
                       lost : Nat]
  BY <1>1, <1>2, <1>3 DEF GpuTypeOK
<1>6. None0 \in [Processes -> Nat] /\ \A p \in Processes : None0[p] = 0 /\ None0[p] <= 0
  BY DEF None0
<1>7. lastSeen' \in [Processes -> Nat] /\ \A p \in Processes : lastSeen'[p] <= clock
  <2>1. N \in [Processes -> Nat] /\ \A p \in Processes : N[p] <= clock
    BY <1>1, <1>3, <1>6, NotedType
  <2> HIDE DEF N, U
  <2>2. CASE lastSeen' = N
    BY <2>1, <2>2
  <2>3. CASE lastSeen' = None0
    BY <1>3, <1>6, <2>3
  <2> QED BY <1>2, <2>2, <2>3
<1>8. Steady' => /\ lastSeen' = N /\ Steady
                 /\ \A p \in Processes : SeenBy(p, clock, N[p])
  <2> SUFFICES ASSUME Steady'
               PROVE  /\ lastSeen' = N /\ Steady
                      /\ \A p \in Processes : SeenBy(p, clock, N[p])
    OBVIOUS
  <2>0. baseline' # None0' /\ None0' = None0 /\ gone = {}
    BY <1>2 DEF Steady, None0
  <2>1. lastSeen' = N
    BY <1>2, <2>0, Zenon
  <2>2. Steady
    BY <1>1, <2>0 DEF Steady
  <2>3. \A q \in Processes : Unbroken(q) /\ SeenBy(q, 0, None0[q])
    <3> TAKE q \in Processes
    <3>1. Unbroken(q)
      BY <1>1, <2>2 DEF SteadyDevice
    <3>2. None0[q] = 0
      BY <1>6
    <3> QED BY <3>1, <3>2 DEF SeenBy
  <2>4. \A p \in Processes : SeenBy(p, clock, N[p])
    BY <1>1, <1>3, <1>6, <2>3, SteadyReading
  <2> QED BY <2>1, <2>2, <2>4, Zenon
<1> HIDE DEF U, N
<1>9. GpuTypeOK'
  BY <1>1, <1>2, <1>4, <1>5, <1>7 DEF GpuTypeOK
<1>10. ReadingsAreTimely'
  BY <1>2, <1>3, <1>4, <1>5, <1>7 DEF ReadingsAreTimely, Nothing
<1>11. \A p \in Processes : During(p)' = {} /\ During(p) = {} /\ Reached(p)' = {}
  <2> TAKE p \in Processes
  <2>1. (\A t \in samples[p] : t \in Nat) /\ buffer[p] \subseteq samples[p]
    BY <1>1, SamplesType
  <2>2. During(p)' = {} /\ During(p) = {}
    BY <1>2, <1>3, <1>4, <1>5, <2>1 DEF During
  <2>3. Reached(p)' = {}
    BY <1>2, <1>3, <1>4, <1>5, <2>1 DEF Reached
  <2> QED BY <2>2, <2>3
<1>12. ReadingsAreKept'
  BY <1>11 DEF ReadingsAreKept
<1>13. SteadyDevice'
  <2> SUFFICES ASSUME Steady', NEW p \in Processes
               PROVE  Unbroken(p)' /\ Caught(p)' /\ Gathered(p)'
    BY DEF SteadyDevice
  <2>1. Unbroken(p) /\ Gathered(p)
    BY <1>1, <1>8 DEF SteadyDevice
  <2>2. Unbroken(p)'
    BY <1>2, <2>1 DEF Unbroken
  <2>3. SeenBy(p, clock, lastSeen'[p])
    BY <1>8
  <2>4. Caught(p)'
    BY <1>2, <1>4, <1>5, <2>3 DEF Caught, SeenBy
  <2>5. Gathered(p)'
    BY <1>2, <1>5, <1>11, <2>1 DEF Gathered, Ascending
  <2> QED BY <2>2, <2>4, <2>5
<1>14. Going'
  BY <1>2 DEF Going
<1> QED BY <1>9, <1>10, <1>12, <1>13, <1>14, NobodyHasPaid DEF GpuInv

\* What a reading of the thread finds, and notes.
LEMMA ReadingIs ==
  ASSUME GpuTypeOK, ReadingsAreTimely, SteadyDevice
  PROVE  LET U == Utilization(lastSeen)
             N == Noted(lastSeen, U)
         IN  /\ U \in [Processes -> SUBSET (1 .. clock)]
             /\ N \in [Processes -> Nat] /\ \A p \in Processes : N[p] <= clock
             /\ \A p \in Processes : /\ U[p] \subseteq samples[p]
                                     /\ \A t \in buffer[p] : t > sampler.at => t \in U[p]
             /\ Steady => \A p \in Processes : /\ U[p] = {t \in buffer[p] : t > sampler.at}
                                               /\ SeenBy(p, clock, N[p])
<1> DEFINE U == Utilization(lastSeen)
           N == Noted(lastSeen, U)
           a == sampler.at
<1>1. /\ clock \in Nat /\ a \in Nat /\ a <= clock
      /\ lastSeen \in [Processes -> Nat] /\ \A p \in Processes : lastSeen[p] <= a
  BY DEF GpuTypeOK, ReadingsAreTimely
<1>2. /\ U \in [Processes -> SUBSET (1 .. clock)]
      /\ N \in [Processes -> Nat] /\ \A p \in Processes : N[p] <= clock
  BY <1>1, NotedType
<1>3. \A p \in Processes : /\ U[p] \subseteq samples[p]
                           /\ \A t \in buffer[p] : t > a => t \in U[p]
  BY <1>1, UtilizationIs
<1>4. Steady => \A p \in Processes : /\ U[p] = {t \in buffer[p] : t > a}
                                     /\ SeenBy(p, clock, N[p])
  <2> SUFFICES ASSUME Steady, NEW p \in Processes
               PROVE  U[p] = {t \in buffer[p] : t > a} /\ SeenBy(p, clock, N[p])
    BY Zenon
  <2>1. \A q \in Processes : Unbroken(q) /\ SeenBy(q, a, lastSeen[q])
    BY DEF SteadyDevice, Caught
  <2> HIDE DEF a
  <2> QED BY <1>1, <2>1, SteadyReading
<1> HIDE DEF U, N
<1> QED BY <1>2, <1>3, <1>4, Zenon DEF U, N

\* A reading finds every sample since the one before that the driver still has
\* (_sample_loop).
LEMMA SamplerReadsKeeps == GpuInv /\ SamplerReads => GpuInv'
<1> SUFFICES ASSUME GpuInv, SamplerReads PROVE GpuInv'
  OBVIOUS
<1> DEFINE U == Utilization(lastSeen)
           N == Noted(lastSeen, U)
           a == sampler.at
<1>1. /\ taskAt = "open" /\ Going /\ a < clock /\ ~sampler.busy
      /\ GpuTypeOK /\ ReadingsAreTimely /\ ReadingsAreKept /\ SteadyDevice
  BY DEF GpuInv, SamplerReads, SamplerAsks, Going
<1>2. /\ sampler' = [sampler EXCEPT !.busy = TRUE, !.at = clock, !.read = U]
      /\ lastSeen' = N
      /\ taskAt' = taskAt /\ span' = span /\ baseline' = baseline
      /\ running' = running /\ gone' = gone /\ buffer' = buffer
      /\ clock' = clock /\ samples' = samples /\ collected' = collected
  BY Zenon DEF SamplerReads, SamplerAsks, driver
<1>3. /\ clock \in Nat /\ span.from \in Nat /\ a \in Nat
      /\ span.from <= a /\ a <= clock /\ sampler.read = Nothing
  BY <1>1 DEF GpuTypeOK, ReadingsAreTimely
<1>4. /\ U \in [Processes -> SUBSET (1 .. clock)]
      /\ N \in [Processes -> Nat] /\ \A p \in Processes : N[p] <= clock
  BY <1>1, ReadingIs
<1>5. \A p \in Processes : /\ U[p] \subseteq samples[p]
                           /\ \A t \in buffer[p] : t > a => t \in U[p]
  BY <1>1, ReadingIs
<1>6. Steady => \A p \in Processes : /\ U[p] = {t \in buffer[p] : t > a}
                                     /\ SeenBy(p, clock, N[p])
  BY <1>1, ReadingIs
<1> HIDE DEF U, N
<1>7. /\ sampler'.at = clock /\ sampler'.busy /\ sampler'.read = U
      /\ sampler'.lost = sampler.lost
      /\ sampler' \in [busy : BOOLEAN, at : Nat, read : [Processes -> SUBSET (1 .. clock)],
                       lost : Nat]
  BY <1>1, <1>2, <1>3, <1>4 DEF GpuTypeOK
<1>8. GpuTypeOK'
  BY <1>1, <1>2, <1>4, <1>7 DEF GpuTypeOK
<1>9. ReadingsAreTimely'
  BY <1>1, <1>2, <1>3, <1>4, <1>7 DEF ReadingsAreTimely
<1>10. \A p \in Processes : sampler.read[p] = {}
  BY <1>3 DEF Nothing
<1>11. ReadingsAreKept'
  <2> SUFFICES ASSUME NEW p \in Processes, NEW t \in Reached(p)'
               PROVE  t \in Range(collected[p]) \union U[p]
    BY <1>2, <1>7 DEF ReadingsAreKept
  <2>1. t \in buffer[p] /\ t > span.from /\ t > sampler.lost
    BY <1>2, <1>7 DEF Reached
  <2>2. t \in Nat
    BY <1>1, <2>1, SamplesType
  <2>3. CASE t <= a
    BY <1>1, <1>10, <2>1, <2>3 DEF ReadingsAreKept, Reached
  <2>4. CASE t > a
    BY <1>5, <2>1, <2>4
  <2> QED BY <1>3, <2>2, <2>3, <2>4
<1>12. SteadyDevice'
  <2> SUFFICES ASSUME Steady, NEW p \in Processes
               PROVE  Unbroken(p)' /\ Caught(p)' /\ Gathered(p)'
    BY <1>2 DEF SteadyDevice, Steady, None0
  <2>1. Unbroken(p) /\ Caught(p) /\ Gathered(p)
    BY <1>1 DEF SteadyDevice
  <2>2. Unbroken(p)'
    BY <1>2, <2>1 DEF Unbroken
  <2>3. Caught(p)'
    BY <1>2, <1>6, <1>7, <2>1 DEF Caught, SeenBy
  <2>4. Range(collected[p]) \subseteq During(p) /\ Ascending(collected[p])
    BY <2>1 DEF Gathered
  <2>5. U[p] = {t \in buffer[p] : t > a}
    BY <1>6
  <2>6. /\ \A t \in samples[p] : t \in Nat /\ t <= clock
        /\ buffer[p] \subseteq samples[p]
    BY <1>1, SamplesType
  <2>7. During(p) \subseteq During(p)' /\ U[p] \subseteq During(p)'
    <3>1. During(p)' = {t \in samples[p] : t > span.from /\ t <= clock}
      BY <1>2, <1>7 DEF During
    <3>2. During(p) = {t \in samples[p] : t > span.from /\ t <= a}
      BY DEF During
    <3> HIDE DEF a
    <3> QED BY <1>3, <2>5, <2>6, <3>1, <3>2
  <2>8. \A s \in Range(collected[p]) : \A t \in U[p] : s < t
    <3>1. \A s \in During(p) : s \in samples[p] /\ s <= a
      BY DEF During
    <3> HIDE DEF a
    <3> QED BY <1>3, <2>4, <2>5, <2>6, <3>1
  <2>9. Gathered(p)'
    BY <1>2, <1>7, <2>4, <2>7, <2>8 DEF Gathered, Ascending
  <2> QED BY <2>2, <2>3, <2>9
<1>13. Going'
  BY <1>1, <1>2 DEF Going
<1> QED BY <1>8, <1>9, <1>11, <1>12, <1>13, NobodyHasPaid DEF GpuInv

\* A reading that fails leaves what is known as it was (nvml_reader.py).
LEMMA ReadingFailsKeeps == GpuInv /\ ReadingFails => GpuInv'
<1> SUFFICES ASSUME GpuInv, ReadingFails PROVE GpuInv'
  OBVIOUS
<1>1. /\ taskAt = "open" /\ Going
      /\ GpuTypeOK /\ ReadingsAreTimely /\ ReadingsAreKept /\ SteadyDevice
  BY DEF GpuInv, ReadingFails, SamplerAsks, Going
<1>2. /\ taskAt' = taskAt /\ span' = span /\ baseline' = baseline /\ lastSeen' = lastSeen
      /\ sampler' = sampler /\ running' = running /\ gone' = gone /\ buffer' = buffer
      /\ clock' = clock /\ samples' = samples /\ collected' = collected
  BY DEF ReadingFails, SamplerAsks, driver
<1>3. GpuTypeOK'
  BY <1>1, <1>2 DEF GpuTypeOK
<1>4. ReadingsAreTimely' /\ ReadingsAreKept'
  BY <1>1, <1>2 DEF ReadingsAreTimely, ReadingsAreKept, Reached, Nothing
<1>5. SteadyDevice'
  BY <1>1, <1>2
     DEF SteadyDevice, Steady, None0, Unbroken, Caught, SeenBy, Gathered, Ascending, During
<1>6. Going'
  BY <1>1, <1>2 DEF Going
<1> QED BY <1>3, <1>4, <1>5, <1>6, NobodyHasPaid DEF GpuInv

\* What was noted and lost is before the time of the loss (gpu_accountant.py
\* _collect_samples).
LEMMA ReadingIsLostKeeps == GpuInv /\ ReadingIsLost => GpuInv'
<1> SUFFICES ASSUME GpuInv, ReadingIsLost PROVE GpuInv'
  OBVIOUS
<1> DEFINE U == Utilization(lastSeen)
           N == Noted(lastSeen, U)
           a == sampler.at
<1>1. /\ taskAt = "open" /\ Going /\ a < clock /\ ~sampler.busy
      /\ GpuTypeOK /\ ReadingsAreTimely /\ ReadingsAreKept /\ SteadyDevice
  BY DEF GpuInv, ReadingIsLost, SamplerAsks, Going
<1>2. /\ sampler' = [sampler EXCEPT !.at = clock, !.lost = clock]
      /\ lastSeen' = N
      /\ taskAt' = taskAt /\ span' = span /\ baseline' = baseline
      /\ running' = running /\ gone' = gone /\ buffer' = buffer
      /\ clock' = clock /\ samples' = samples /\ collected' = collected
  BY Zenon DEF ReadingIsLost, SamplerAsks, driver
<1>3. /\ clock \in Nat /\ span.from \in Nat /\ a \in Nat
      /\ span.from <= a /\ a <= clock /\ sampler.read = Nothing
  BY <1>1 DEF GpuTypeOK, ReadingsAreTimely
<1>4. N \in [Processes -> Nat] /\ \A p \in Processes : N[p] <= clock
  BY <1>1, ReadingIs
<1>6. Steady => \A p \in Processes : SeenBy(p, clock, N[p])
  BY <1>1, ReadingIs
<1> HIDE DEF U, N
<1>7. /\ sampler'.at = clock /\ ~sampler'.busy /\ sampler'.read = Nothing
      /\ sampler'.lost = clock
      /\ sampler' \in [busy : BOOLEAN, at : Nat, read : [Processes -> SUBSET (1 .. clock)],
                       lost : Nat]
  BY <1>1, <1>2, <1>3 DEF GpuTypeOK
<1>8. GpuTypeOK'
  BY <1>1, <1>2, <1>4, <1>7 DEF GpuTypeOK
<1>9. ReadingsAreTimely'
  BY <1>1, <1>2, <1>3, <1>4, <1>7 DEF ReadingsAreTimely, Nothing
<1>10. \A p \in Processes : Nothing[p] = {} /\ Reached(p)' = {}
  <2> TAKE p \in Processes
  <2>1. \A t \in buffer[p] : t \in Nat
    BY <1>1, SamplesType
  <2> QED BY <1>2, <1>3, <1>7, <2>1 DEF Nothing, Reached
<1>11. ReadingsAreKept'
  BY <1>10 DEF ReadingsAreKept
<1>12. SteadyDevice'
  <2> SUFFICES ASSUME Steady, NEW p \in Processes
               PROVE  Unbroken(p)' /\ Caught(p)' /\ Gathered(p)'
    BY <1>2 DEF SteadyDevice, Steady, None0
  <2>1. Unbroken(p) /\ Caught(p) /\ Gathered(p)
    BY <1>1 DEF SteadyDevice
  <2>2. Unbroken(p)'
    BY <1>2, <2>1 DEF Unbroken
  <2>3. Caught(p)'
    BY <1>2, <1>6, <1>7, <2>1 DEF Caught, SeenBy
  <2>4. During(p) \subseteq During(p)'
    <3>1. During(p)' = {t \in samples[p] : t > span.from /\ t <= clock}
      BY <1>2, <1>7 DEF During
    <3>2. During(p) = {t \in samples[p] : t > span.from /\ t <= a}
      BY DEF During
    <3>3. \A t \in samples[p] : t \in Nat
      BY <1>1, SamplesType
    <3> HIDE DEF a
    <3> QED BY <1>3, <3>1, <3>2, <3>3
  <2>5. Gathered(p)'
    BY <1>2, <1>3, <1>7, <1>10, <2>1, <2>4 DEF Gathered, Ascending
  <2> QED BY <2>2, <2>3, <2>5
<1>13. Going'
  BY <1>1, <1>2 DEF Going
<1> QED BY <1>8, <1>9, <1>11, <1>12, <1>13, NobodyHasPaid DEF GpuInv

\* What is added comes after what was collected, in the order of time.
LEMMA ExtendedIs ==
  ASSUME GpuTypeOK, NEW with \in [Processes -> SUBSET (1 .. clock)]
  PROVE  /\ Extended(with) \in [Processes -> Seq(Nat)]
         /\ \A p \in Processes :
              /\ Range(Extended(with)[p]) = Range(collected[p]) \union with[p]
              /\ Ascending(collected[p])
                 /\ (\A s \in Range(collected[p]) : \A t \in with[p] : s < t)
                   => Ascending(Extended(with)[p])
<1>1. Extended(with) = [p \in Processes |-> Extended(with)[p]]
  BY Zenon DEF Extended
<1>2. ASSUME NEW p \in Processes
      PROVE  /\ Extended(with)[p] \in Seq(Nat)
             /\ Range(Extended(with)[p]) = Range(collected[p]) \union with[p]
             /\ Ascending(collected[p])
                /\ (\A s \in Range(collected[p]) : \A t \in with[p] : s < t)
                  => Ascending(Extended(with)[p])
  <2> DEFINE q == InOrder(with[p])
  <2>1. clock \in Nat /\ collected[p] \in Seq(Nat) /\ with[p] \subseteq 1 .. clock
    BY DEF GpuTypeOK
  <2>2. IsFiniteSet(1 .. clock)
    <3>1. 1 \in Int /\ clock \in Int
      BY <2>1
    <3> QED BY <3>1, FS_Interval, Zenon
  <2>3. IsFiniteSet(with[p]) /\ with[p] \subseteq Nat
    <3>1. IsFiniteSet(with[p])
      BY <2>1, <2>2, FS_Subset, Zenon
    <3> QED BY <2>1, <3>1
  <2>4. q \in Seq(with[p]) /\ Range(q) = with[p] /\ Ascending(q)
    BY <2>3, InOrderIs, Zenon
  <2>5. Extended(with)[p] = collected[p] \o q
    BY Zenon DEF Extended
  <2> HIDE DEF q
  <2>6. q \in Seq(Nat)
    BY <2>3, <2>4
  <2>7. /\ collected[p] \o q \in Seq(Nat)
        /\ Range(collected[p] \o q) = Range(collected[p]) \union Range(q)
        /\ Ascending(collected[p]) /\ Ascending(q)
           /\ (\A x \in Range(collected[p]) : \A y \in Range(q) : x < y)
             => Ascending(collected[p] \o q)
    BY <2>1, <2>6, JoinedAscends, Zenon
  <2> QED BY <2>4, <2>5, <2>7, Zenon
<1>3. Extended(with) \in [Processes -> Seq(Nat)]
  BY <1>1, <1>2, Zenon
<1> QED BY <1>2, <1>3, Zenon

\* What was read joins what was collected before.
LEMMA SamplerStoresKeeps == GpuInv /\ SamplerStores => GpuInv'
<1> SUFFICES ASSUME GpuInv, SamplerStores PROVE GpuInv'
  OBVIOUS
<1> DEFINE E == Extended(sampler.read)
<1>1. /\ sampler.busy /\ GpuTypeOK /\ Going
      /\ ReadingsAreTimely /\ ReadingsAreKept /\ SteadyDevice
  BY DEF GpuInv, SamplerStores, Finished, GpuTypeOK, Going
<1>2. /\ collected' = E
      /\ sampler' = [sampler EXCEPT !.busy = FALSE, !.read = Nothing]
      /\ taskAt' = taskAt /\ span' = span /\ baseline' = baseline /\ lastSeen' = lastSeen
      /\ running' = running /\ gone' = gone /\ clock' = clock /\ samples' = samples
      /\ buffer' = buffer
  BY Zenon DEF SamplerStores, driver
<1>3. /\ sampler'.at = sampler.at /\ sampler'.lost = sampler.lost
      /\ ~sampler'.busy /\ sampler'.read = Nothing
      /\ sampler' \in [busy : BOOLEAN, at : Nat, read : [Processes -> SUBSET (1 .. clock)],
                       lost : Nat]
  BY <1>1, <1>2 DEF GpuTypeOK, Nothing
<1>4. sampler.read \in [Processes -> SUBSET (1 .. clock)]
  BY <1>1 DEF GpuTypeOK
<1>5. /\ E \in [Processes -> Seq(Nat)]
      /\ \A p \in Processes :
              /\ Range(E[p]) = Range(collected[p]) \union sampler.read[p]
              /\ Ascending(collected[p])
                 /\ (\A s \in Range(collected[p]) : \A t \in sampler.read[p] : s < t)
                   => Ascending(E[p])
  BY <1>1, <1>4, ExtendedIs, Zenon
<1> HIDE DEF E
<1>6. GpuTypeOK'
  BY <1>1, <1>2, <1>3, <1>5 DEF GpuTypeOK
<1>7. \A p \in Processes : /\ During(p)' = During(p) /\ Reached(p)' = Reached(p)
                           /\ Nothing[p] = {}
  BY <1>2, <1>3 DEF During, Reached, Nothing
<1>8. ReadingsAreTimely'
  BY <1>1, <1>2, <1>3 DEF ReadingsAreTimely, Nothing
<1>9. ReadingsAreKept'
  BY <1>1, <1>2, <1>3, <1>5, <1>7 DEF ReadingsAreKept
<1>10. SteadyDevice'
  <2> SUFFICES ASSUME Steady, NEW p \in Processes
               PROVE  Unbroken(p)' /\ Caught(p)' /\ Gathered(p)'
    BY <1>2 DEF SteadyDevice, Steady, None0
  <2>1. Unbroken(p) /\ Caught(p) /\ Gathered(p)
    BY <1>1 DEF SteadyDevice
  <2>2. Unbroken(p)'
    BY <1>2, <2>1 DEF Unbroken
  <2>3. Caught(p)'
    BY <1>2, <1>3, <2>1 DEF Caught, SeenBy
  <2>4. Range(E[p]) \subseteq During(p) /\ Ascending(E[p])
    BY <1>5, <2>1 DEF Gathered
  <2>5. Gathered(p)'
    <3>1. Ascending(collected[p])'
      BY <1>2, <2>4 DEF Ascending
    <3>2. Range(collected'[p]) \subseteq During(p)' /\ sampler'.read[p] = {}
      BY <1>2, <1>3, <1>7, <2>4
    <3> QED BY <3>1, <3>2 DEF Gathered
  <2> QED BY <2>2, <2>3, <2>5
<1>11. Going'
  BY <1>1, <1>2 DEF Going
<1> QED BY <1>6, <1>8, <1>9, <1>10, <1>11, NobodyHasPaid DEF GpuInv

\* The intervals between ascending times add up to the one from the first time to the last.
LEMMA IntervalsAddUp ==
  ASSUME NEW s \in Seq(Nat), Ascending(s), NEW first \in Nat,
         \A i \in 1 .. Len(s) : first <= s[i], NEW terms,
         \A i \in 1 .. Len(s) :
           terms[i] = LET before == IF i = 1 THEN first ELSE s[i - 1]
                      IN  IF s[i] > before THEN s[i] - before ELSE 0
  PROVE  Len(s) > 0 => SumFunctionOnSet(terms, 1 .. Len(s)) = s[Len(s)] - first
<1> DEFINE n == Len(s)
           G == {k \in Nat : 0 < k /\ k <= n => SumFunctionOnSet(terms, 1 .. k) = s[k] - first}
<1>1. n \in Nat /\ \A i \in 1 .. n : s[i] \in Nat /\ first <= s[i]
  OBVIOUS
<1>2. \A i \in 1 .. n : i > 1 => i - 1 \in 1 .. n /\ s[i - 1] \in Nat /\ s[i - 1] < s[i]
  BY <1>1 DEF Ascending
<1>3. \A i \in 1 .. n : terms[i] = IF i = 1 THEN s[i] - first ELSE s[i] - s[i - 1]
  <2> TAKE i \in 1 .. n
  <2>1. CASE i = 1
    BY <1>1, <2>1
  <2>2. CASE i # 1
    BY <1>1, <1>2, <2>2
  <2> QED BY <2>1, <2>2
<1> HIDE DEF n
<1>4. \A i \in 1 .. n : terms[i] \in Int
  BY <1>1, <1>2, <1>3
<1>5. 0 \in G
  OBVIOUS
<1>6. \A k \in Nat : k \in G => k + 1 \in G
  <2> SUFFICES ASSUME NEW k \in Nat, k \in G, k + 1 <= n
               PROVE  SumFunctionOnSet(terms, 1 .. k + 1) = s[k + 1] - first
    OBVIOUS
  <2>1. 1 .. k + 1 = (1 .. k) \union {k + 1} /\ k + 1 \notin 1 .. k /\ k + 1 \in 1 .. n
        /\ 1 .. k + 1 \subseteq 1 .. n
    BY <1>1
  <2>2. IsFiniteSet(1 .. k)
    <3>1. 1 \in Int /\ k \in Int
      OBVIOUS
    <3> QED BY <3>1, FS_Interval, Zenon
  <2>3. \A y \in (1 .. k) \union {k + 1} : terms[y] \in Int
    BY <1>4, <2>1, Zenon
  <2>4. SumFunctionOnSet(terms, (1 .. k) \union {k + 1})
          = terms[k + 1] + SumFunctionOnSet(terms, 1 .. k)
    BY <2>1, <2>2, <2>3, SumWith, Zenon
  <2>5. CASE k = 0
    <3>1. SumFunctionOnSet(terms, 1 .. k) = 0
      <4>1. 1 .. k = {}
        BY <2>5
      <4> QED BY <4>1, SumOfNone, Zenon
    <3> QED BY <1>1, <1>3, <2>1, <2>4, <2>5, <3>1
  <2>6. CASE k > 0
    <3>1. SumFunctionOnSet(terms, 1 .. k) = s[k] - first
      BY <1>1, <2>6
    <3>2. terms[k + 1] = s[k + 1] - s[k]
      BY <1>3, <2>1, <2>6
    <3>3. k \in 1 .. n /\ s[k] \in Nat /\ s[k + 1] \in Nat
      BY <1>1, <2>1, <2>6
    <3>4. SumFunctionOnSet(terms, 1 .. k + 1) = terms[k + 1] + SumFunctionOnSet(terms, 1 .. k)
      BY <2>1, <2>4, Zenon
    <3> HIDE DEF G
    <3> QED BY <3>1, <3>2, <3>3, <3>4
  <2> QED BY <2>5, <2>6
<1>7. \A k \in Nat : k \in G
  <2> HIDE DEF G
  <2> QED BY <1>5, <1>6, NatSetInduction, Zenon
<1> QED BY <1>1, <1>7 DEF n

\* Of a process whose samples S up to c have no gaps some later than a time were found,
\* in the order of time; if it was seen before the task that was at this time.
SampledSince(p, found, base, from, c, S) ==
  /\ found[p] \in Seq(Nat) /\ Ascending(found[p])
  /\ base \in [Processes -> Nat] /\ base # None0
  /\ from \in Nat /\ c \in Nat /\ S \subseteq 1 .. c
  /\ \A t \in Range(found[p]) : t \in S /\ t > from
  /\ \A t \in S : \A u \in Nat : t <= u /\ u <= c => u \in S
  /\ base[p] # 0 => base[p] = from /\ \E t \in S : t <= from

LastFound(p, found, from) == Max({from} \union Range(found[p]))
RanTo(p, found, from, S) == {t \in S : t > from /\ t <= LastFound(p, found, from)}

\* A process with samples for every tick since it was on the device is charged for the
\* ticks up to the last sample found; those after the first one only, when it had none
\* before the task.
LEMMA ChargedIs ==
  ASSUME NEW p \in Processes, NEW found, NEW base, NEW from, NEW c, NEW S,
         SampledSince(p, found, base, from, c, S)
  PROVE  /\ LastFound(p, found, from) \in Nat
         /\ \A t \in Range(found[p]) : t <= LastFound(p, found, from)
         /\ Elapsed(p, found, base) <= Cardinality(RanTo(p, found, from, S))
         /\ base[p] # 0 => Elapsed(p, found, base) = Cardinality(RanTo(p, found, from, S))
         /\ Cardinality(RanTo(p, found, from, S)) \in Nat
<1> USE DEF SampledSince
<1> DEFINE s == found[p]
           n == Len(s)
           M == {from} \union Range(s)
           last == LastFound(p, found, from)
           ran == {t \in S : t > from /\ t <= last}
           first == FirstFrom(p, found, base)
           terms == [i \in DOMAIN s |->
                       LET before == IF i = 1 THEN first ELSE s[i - 1]
                       IN  IF s[i] > before THEN s[i] - before ELSE 0]
<1>1. /\ DOMAIN s = 1 .. n /\ n \in Nat /\ \A i \in 1 .. n : s[i] \in Nat
      /\ \A i, j \in 1 .. n : i < j => s[i] < s[j]
  <2>1. DOMAIN s = 1 .. n /\ n \in Nat /\ \A i \in 1 .. n : s[i] \in Nat
    OBVIOUS
  <2>2. \A i, j \in 1 .. n : i < j => s[i] < s[j]
    BY Zenon DEF Ascending
  <2> QED BY <2>1, <2>2, Zenon
<1>2. Elapsed(p, found, base) = SumFunctionOnSet(terms, 1 .. n)
  <2>1. Elapsed(p, found, base) = SumFunction(terms)
    BY Zenon DEF Elapsed
  <2>2. DOMAIN terms = 1 .. n
    BY <1>1, Zenon
  <2> HIDE DEF terms
  <2> QED BY <2>1, <2>2, Zenon DEF SumFunction
<1>3. /\ base[p] # 0 => first = base[p]
      /\ base[p] = 0 => first = s[1]
      /\ base[p] \in Nat
  <2>1. base[p] # 0 => first = base[p]
    BY DEF FirstFrom
  <2>2. base[p] = 0 => first = s[1]
    BY DEF FirstFrom
  <2> QED BY <2>1, <2>2
<1>4. \A i \in 1 .. n : terms[i] = LET before == IF i = 1 THEN first ELSE s[i - 1]
                                   IN  IF s[i] > before THEN s[i] - before ELSE 0
  BY <1>1, Zenon
<1>5. Range(s) = {s[i] : i \in 1 .. n} /\ s \in Seq(Nat) /\ Ascending(s)
  BY <1>1, Zenon DEF Range
<1>6. \A i \in 1 .. n : s[i] \in S /\ s[i] > from
  BY <1>5
<1> HIDE DEF terms, first, s
<1>7. IsFiniteSet(S)
  <2>1. 1 \in Int /\ c \in Int
    OBVIOUS
  <2>2. IsFiniteSet(1 .. c)
    BY <2>1, FS_Interval, Zenon
  <2> QED BY <2>2, FS_Subset, Zenon
<1>8. IsFiniteSet(M) /\ M # {} /\ M \subseteq Nat
  <2>1. Range(s) \subseteq S
    BY Zenon DEF s
  <2>2. IsFiniteSet(Range(s))
    BY <1>7, <2>1, FS_Subset, Zenon
  <2>3. IsFiniteSet(Range(s) \union {from})
    BY <2>2, FS_AddElement, Zenon
  <2>4. M = Range(s) \union {from}
    OBVIOUS
  <2>5. M # {} /\ M \subseteq Nat
    <3>1. S \subseteq Nat
      OBVIOUS
    <3>2. Range(s) \subseteq Nat
      BY <2>1, <3>1, Zenon
    <3> QED BY <3>2
  <2> HIDE DEF M
  <2> QED BY <2>3, <2>4, <2>5
<1>9. last \in M /\ last \in Nat /\ \A t \in M : t <= last
  <2>0. last = Max(M)
    BY Zenon DEF s, LastFound
  <2> HIDE DEF M
  <2>1. last \in M /\ \A t \in M : t <= last
    BY <1>8, <2>0, MaxOf, Zenon
  <2> QED BY <1>8, <2>1
<1>10. IsFiniteSet(ran) /\ Cardinality(ran) \in Nat
  <2>1. ran \subseteq S
    OBVIOUS
  <2>2. IsFiniteSet(ran)
    BY <1>7, <2>1, FS_Subset, Zenon
  <2> QED BY <2>2, FS_CardinalityType, Zenon
<1>11. /\ from <= last /\ \A i \in 1 .. n : s[i] <= last
       /\ \A t \in Range(s) : t <= last
  BY <1>5, <1>9
<1>14. (\A t \in S : t \in Nat /\ t <= c) /\ n \in Nat
  BY <1>1
<1> SUFFICES /\ Elapsed(p, found, base) <= Cardinality(ran)
             /\ base[p] # 0 => Elapsed(p, found, base) = Cardinality(ran)
  BY <1>9, <1>10, <1>11, Zenon DEF s, RanTo
<1> HIDE DEF n, last
<1>12. CASE n = 0
  <2>1. Range(s) = {} /\ 1 .. n = {}
    BY <1>5, <1>12
  <2>2. last = from
    BY <1>9, <2>1 DEF M
  <2>3. ran = {}
    <3>1. \A t \in S : ~(t > from /\ t <= last)
      <4> HIDE DEF M
      <4> QED BY <1>14, <2>2
    <3> QED BY <3>1, Zenon
  <2>4. Elapsed(p, found, base) = 0 /\ Cardinality(ran) = 0
    BY <1>2, <2>1, <2>3, SumOfNone, FS_EmptySet, Zenon
  <2> QED BY <2>4
<1>13. CASE n > 0
  <2>0. n \in 1 .. n /\ 1 \in 1 .. n
    BY <1>1, <1>13
  <2>1. last = s[n]
    <3>1. \A i \in 1 .. n : s[i] <= s[n]
      <4> TAKE i \in 1 .. n
      <4>1. CASE i = n
        BY <1>1, <4>1
      <4>2. CASE i # n
        BY <1>1, <2>0, <4>2
      <4> QED BY <4>1, <4>2
    <3>2. \A t \in M : t <= s[n]
      <4>1. from <= s[n]
        BY <1>1, <1>6, <2>0
      <4> QED BY <1>5, <3>1, <4>1
    <3>3. last <= s[n] /\ s[n] <= last /\ s[n] \in Nat
      BY <1>1, <1>9, <1>11, <2>0, <3>2
    <3> QED BY <1>9, <3>3
  <2>2. first \in Nat /\ \A i \in 1 .. n : first <= s[i]
    <3>1. CASE base[p] # 0
      <4>1. first = from
        BY <1>3, <3>1
      <4> QED BY <1>1, <1>6, <4>1
    <3>2. CASE base[p] = 0
      <4>1. first = s[1]
        BY <1>3, <3>2
      <4>2. \A i \in 1 .. n : s[1] <= s[i]
        <5> TAKE i \in 1 .. n
        <5>1. CASE i = 1
          BY <1>1, <5>1
        <5>2. CASE i # 1
          BY <1>1, <2>0, <5>2
        <5> QED BY <5>1, <5>2
      <4> QED BY <1>1, <2>0, <4>1, <4>2
    <3> QED BY <3>1, <3>2
  <2>3. Elapsed(p, found, base) = last - first
    <3>1. SumFunctionOnSet(terms, 1 .. n) = s[n] - first
      <4>1. SumFunctionOnSet(terms, 1 .. Len(s)) = s[Len(s)] - first
        <5>1. \A i \in 1 .. Len(s) : first <= s[i]
          BY <2>2, Zenon DEF n
        <5>2. \A i \in 1 .. Len(s) :
                terms[i] = LET before == IF i = 1 THEN first ELSE s[i - 1]
                           IN  IF s[i] > before THEN s[i] - before ELSE 0
          BY <1>4, Zenon DEF n
        <5>3. Len(s) > 0 /\ first \in Nat /\ s \in Seq(Nat) /\ Ascending(s)
          BY <1>5, <1>13, <2>2, Zenon DEF n
        <5> HIDE DEF M
        <5> QED BY <5>1, <5>2, <5>3, IntervalsAddUp, Zenon
      <4> QED BY <4>1, Zenon DEF n
    <3> QED BY <1>2, <2>1, <3>1, Zenon
  <2>4. (first + 1) .. last \subseteq ran
    <3>1. \E t \in S : t <= first
      <4>1. CASE base[p] # 0
        BY <1>3, <4>1
      <4>2. CASE base[p] = 0
        <5>1. first = s[1] /\ s[1] \in S /\ s[1] \in Nat
          BY <1>1, <1>3, <1>6, <2>0, <4>2
        <5> QED BY <5>1
      <4> QED BY <4>1, <4>2
    <3>2. PICK t \in S : t <= first
      BY <3>1, Zenon
    <3>3. from <= first
      <4>1. CASE base[p] # 0
        BY <1>3, <4>1
      <4>2. CASE base[p] = 0
        BY <1>1, <1>3, <1>6, <2>0, <4>2
      <4> QED BY <4>1, <4>2
    <3>4. last \in S /\ last <= c
      BY <1>6, <1>14, <2>0, <2>1
    <3>5. t \in Nat
      BY <1>14, <3>2
    <3>6. ASSUME NEW u \in (first + 1) .. last PROVE u \in S /\ u > from /\ u <= last
      <4>1. u \in Nat /\ t <= u /\ u <= c /\ u > from /\ u <= last
        BY <1>9, <2>2, <3>2, <3>3, <3>4, <3>5
      <4> QED BY <3>2, <4>1
    <3> QED BY <3>6, Zenon
  <2>5. base[p] # 0 => ran \subseteq (first + 1) .. last
    <3> SUFFICES ASSUME base[p] # 0, NEW t \in ran PROVE t \in (first + 1) .. last
      BY Zenon
    <3>1. first = from
      BY <1>3
    <3>2. t \in Nat /\ t > from /\ t <= last
      BY <1>14
    <3> QED BY <1>9, <3>1, <3>2
  <2>6. first <= last
    BY <2>0, <2>1, <2>2
  <2>7. Cardinality((first + 1) .. last) = last - first
    <3>1. first + 1 \in Int /\ last \in Int
      BY <1>9, <2>2
    <3>2. Cardinality((first + 1) .. last)
            = IF first + 1 > last THEN 0 ELSE last - (first + 1) + 1
      BY <3>1, FS_Interval, Zenon
    <3> HIDE DEF M
    <3> QED BY <1>9, <2>2, <2>6, <3>2
  <2>8. Cardinality((first + 1) .. last) <= Cardinality(ran)
    BY <1>10, <2>4, FS_Subset, Zenon
  <2>9. base[p] # 0 => ran = (first + 1) .. last
    BY <2>4, <2>5, Zenon
  <2>10. /\ Elapsed(p, found, base) <= Cardinality(ran)
         /\ base[p] # 0 => Elapsed(p, found, base) = Cardinality(ran)
    BY <2>3, <2>7, <2>8, <2>9
  <2> QED BY <2>10
<1> QED BY <1>12, <1>13, <1>14

\* A task that ends on a steady device charges its processes for what they ran.
LEMMA SteadyCharges ==
  ASSUME GpuTypeOK, span.from <= clock, Steady, taskAt # "new", NEW p \in Processes,
         Unbroken(p), SeenBy(p, span.from, baseline[p]), NEW found \in [Processes -> Seq(Nat)],
         Ascending(found[p]), \A t \in Range(found[p]) : t \in samples[p] /\ t > span.from,
         NEW within, running \subseteq within
  PROVE  LET last == Max({span.from} \union Range(found[p]))
             ran == Cardinality({t \in samples[p] : t > span.from /\ t <= last})
             paid == Integrated(found, baseline, within)[p]
         IN  /\ paid <= ran /\ (baseline[p] # 0 => paid = ran)
             /\ last \in Nat /\ \A t \in Range(found[p]) : t <= last
<1> DEFINE last == Max({span.from} \union Range(found[p]))
           ran == {t \in samples[p] : t > span.from /\ t <= last}
           paid == Integrated(found, baseline, within)[p]
<1>1. /\ clock \in Nat /\ span.from \in Nat /\ baseline \in [Processes -> Nat]
      /\ samples[p] \subseteq 1 .. clock
  BY DEF GpuTypeOK
<1>2. baseline # None0
  BY DEF Steady
<1>3. baseline[p] # 0 => baseline[p] = span.from /\ \E t \in samples[p] : t <= span.from
  BY DEF SeenBy
<1>4. \A t \in samples[p] : \A u \in Nat : t <= u /\ u <= clock => u \in samples[p]
  BY Zenon DEF Unbroken
<1>5. found[p] \in Seq(Nat)
  OBVIOUS
<1>6. /\ last \in Nat /\ \A t \in Range(found[p]) : t <= last
      /\ Elapsed(p, found, baseline) <= Cardinality(ran)
      /\ baseline[p] # 0 => Elapsed(p, found, baseline) = Cardinality(ran)
      /\ Cardinality(ran) \in Nat
  <2>1. \A t \in Range(found[p]) : t \in samples[p] /\ t > span.from
    OBVIOUS
  <2>2. Ascending(found[p]) /\ clock \in Nat
    BY <1>1
  <2> HIDE DEF last, ran
  <2>3. last = LastFound(p, found, span.from)
    BY Zenon DEF last, LastFound
  <2>4. ran = RanTo(p, found, span.from, samples[p])
    BY <2>3, Zenon DEF ran, RanTo
  <2>5. SampledSince(p, found, baseline, span.from, clock, samples[p])
    BY <1>1, <1>2, <1>3, <1>4, <1>5, <2>1, <2>2, Zenon DEF SampledSince
  <2> QED BY <2>3, <2>4, <2>5, ChargedIs, Zenon
<1>7. paid = IF p \in within THEN Elapsed(p, found, baseline) ELSE 0
  BY Zenon DEF Integrated
<1>8. p \notin within => baseline[p] = 0
  BY DEF Unbroken, SeenBy
<1> HIDE DEF last, ran, paid
<1>9. CASE p \in within
  BY <1>6, <1>7, <1>9, Zenon DEF last, ran, paid
<1>10. CASE p \notin within
  <2>1. paid = 0 /\ baseline[p] = 0 /\ 0 <= Cardinality(ran)
    BY <1>6, <1>7, <1>8, <1>10
  <2> QED BY <1>6, <2>1, Zenon DEF last, ran, paid
<1> QED BY <1>9, <1>10

\* The last reading, if it is answered, completes the samples, and they are added up.
LEMMA LastCollectionKeeps == GpuInv /\ LastCollection => GpuInv'
<1> SUFFICES ASSUME GpuInv, LastCollection PROVE GpuInv'
  OBVIOUS
<1> DEFINE U == Utilization(lastSeen)
           N == Noted(lastSeen, U)
           C == Extended(U)
           a == sampler.at
<1>1. /\ taskAt = "stopping" /\ Going /\ ~sampler.busy
      /\ GpuTypeOK /\ ReadingsAreTimely /\ ReadingsAreKept /\ SteadyDevice
  BY DEF GpuInv, LastCollection, Going
<1>2. /\ taskAt' = "built" /\ lastSeen' = N /\ collected' = C
      /\ gpuTime' = Integrated(C, baseline, scope \union running)
      /\ span' = span /\ baseline' = baseline /\ sampler' = sampler /\ buffer' = buffer
      /\ running' = running /\ gone' = gone /\ clock' = clock /\ samples' = samples
  BY Zenon DEF LastCollection, driver, Build
<1>3. /\ clock \in Nat /\ span.from \in Nat /\ span.to \in Nat /\ a \in Nat
      /\ span.from <= a /\ a <= clock /\ span.to <= clock /\ sampler.lost \in Nat
      /\ sampler.read = Nothing
  BY <1>1 DEF GpuTypeOK, ReadingsAreTimely
<1>4. /\ U \in [Processes -> SUBSET (1 .. clock)]
      /\ N \in [Processes -> Nat]
  BY <1>1, ReadingIs
<1>5. \A p \in Processes : /\ U[p] \subseteq samples[p]
                           /\ \A t \in buffer[p] : t > a => t \in U[p]
  BY <1>1, ReadingIs
<1>6. /\ C \in [Processes -> Seq(Nat)]
      /\ \A p \in Processes :
              /\ Range(C[p]) = Range(collected[p]) \union U[p]
              /\ Ascending(collected[p])
                 /\ (\A s \in Range(collected[p]) : \A t \in U[p] : s < t)
                   => Ascending(C[p])
  BY <1>1, <1>4, ExtendedIs, Zenon
<1>7. Steady => \A p \in Processes : U[p] = {t \in buffer[p] : t > a}
  BY <1>1, ReadingIs
<1> HIDE DEF U, N, C
<1>8. GpuTypeOK'
  BY <1>1, <1>2, <1>4, <1>6 DEF GpuTypeOK
<1>9. \A p \in Processes : sampler.read[p] = {}
  BY <1>3 DEF Nothing
<1>10. ASSUME NEW p \in Processes, NEW t \in buffer[p], t > span.from, t > sampler.lost
       PROVE  t \in Range(C[p])
  <2>1. t \in Nat
    BY <1>1, <1>10, SamplesType
  <2>2. CASE t <= a
    BY <1>1, <1>6, <1>9, <1>10, <2>2 DEF ReadingsAreKept, Reached
  <2>3. CASE t > a
    BY <1>5, <1>6, <1>10, <2>3
  <2> QED BY <1>3, <2>1, <2>2, <2>3
<1>11. NothingKeptIsMissed'
  BY <1>2, <1>10 DEF NothingKeptIsMissed
<1>12. ASSUME Steady, NEW p \in Processes
       PROVE  LET last == Max({span.from} \union Range(C[p]))
                  ran == Cardinality({t \in samples[p] : t > span.from /\ t <= last})
              IN  /\ gpuTime'[p] <= ran /\ (baseline[p] # 0 => gpuTime'[p] = ran)
                  /\ last \in Nat /\ \A t \in Range(C[p]) : t <= last
  <2>1. Unbroken(p) /\ Caught(p) /\ Gathered(p)
    BY <1>1, <1>12 DEF SteadyDevice
  <2>2. /\ \A t \in samples[p] : t \in Nat /\ t <= clock
        /\ buffer[p] \subseteq samples[p]
    BY <1>1, SamplesType
  <2>3. Range(collected[p]) \subseteq During(p) /\ Ascending(collected[p])
    BY <2>1 DEF Gathered
  <2>4. U[p] = {t \in buffer[p] : t > a}
    BY <1>7, <1>12
  <2>5. During(p) = {t \in samples[p] : t > span.from /\ t <= a}
    BY DEF During
  <2> HIDE DEF a
  <2>6. \A s \in During(p) : \A t \in U[p] : s < t
    BY <1>3, <2>2, <2>4, <2>5
  <2>7. Ascending(C[p])
    BY <1>6, <2>3, <2>6
  <2>8. \A t \in Range(C[p]) : t \in samples[p] /\ t > span.from
    <3>1. \A t \in U[p] : t \in samples[p] /\ t > span.from
      BY <1>3, <2>2, <2>4
    <3> QED BY <1>6, <2>3, <2>5, <3>1
  <2>9. span.from <= clock /\ SeenBy(p, span.from, baseline[p]) /\ taskAt # "new"
    BY <1>1, <1>3, <2>1 DEF Caught
  <2>10. running \subseteq scope \union running
    OBVIOUS
  <2> QED BY <1>1, <1>2, <1>6, <1>12, <2>1, <2>7, <2>8, <2>9, <2>10, SteadyCharges, Zenon
<1>13. SteadyProcessesPayWhatTheyRan'
  <2> SUFFICES ASSUME gone = {}, baseline # None0, NEW p \in Processes
               PROVE  LET last == Max({span.from} \union Range(C[p]))
                          ran == Cardinality({t \in samples[p] : t > span.from /\ t <= last})
                      IN  gpuTime'[p] <= ran /\ (baseline[p] # 0 => gpuTime'[p] = ran)
    BY <1>2, Zenon DEF SteadyProcessesPayWhatTheyRan, None0, RanUntil, LastCollected
  <2>1. Steady
    BY DEF Steady
  <2> QED BY <1>12, <2>1, Zenon
<1>14. SteadyProcessesPayToTheEnd'
  <2> SUFFICES ASSUME gone = {}, baseline # None0, NEW p \in Processes,
                      NEW t \in samples[p], t > span.from, t <= span.to, t > sampler.lost
               PROVE  t <= Max({span.from} \union Range(C[p]))
    BY <1>2, Zenon DEF SteadyProcessesPayToTheEnd, None0, RanUntil, LastCollected
  <2>1. Steady
    BY DEF Steady
  <2> DEFINE last == Max({span.from} \union Range(C[p]))
  <2>2. last \in Nat /\ \A u \in Range(C[p]) : u <= last
    BY <1>12, <2>1, Zenon
  <2>3. t \in Nat /\ t <= clock
    BY <1>1, SamplesType
  <2>4. clock \in buffer[p]
    BY <1>1, <1>3, <2>1, <2>3 DEF SteadyDevice, Unbroken
  <2>5. clock \in Range(C[p])
    BY <1>3, <1>10, <2>3, <2>4
  <2>6. clock <= last
    BY <2>2, <2>5
  <2> HIDE DEF last
  <2>7. t <= last
    BY <1>3, <2>2, <2>3, <2>6
  <2> QED BY <2>7 DEF last
<1> QED BY <1>2, <1>8, <1>11, <1>13, <1>14 DEF GpuInv, GpuTimeIsTrue, Going

\* A task that is cut short is charged for what was stored.
LEMMA CutShortKeeps == GpuInv /\ (LastCollectionFails \/ StopTimesOut) => GpuInv'
<1> SUFFICES ASSUME GpuInv, LastCollectionFails \/ StopTimesOut PROVE GpuInv'
  OBVIOUS
<1>1. /\ taskAt = "stopping" /\ Going
      /\ GpuTypeOK /\ ReadingsAreTimely /\ ReadingsAreKept /\ SteadyDevice
  BY DEF GpuInv, LastCollectionFails, StopTimesOut, Going
<1>2. /\ taskAt' = "cut short" /\ collected' = collected
      /\ gpuTime' = Integrated(collected, baseline, scope \union running)
      /\ lastSeen' \in {lastSeen, Noted(lastSeen, Utilization(lastSeen))}
      /\ span' = span /\ baseline' = baseline /\ sampler' = sampler /\ buffer' = buffer
      /\ running' = running /\ gone' = gone /\ clock' = clock /\ samples' = samples
  BY Zenon DEF LastCollectionFails, StopTimesOut, driver, Build
<1>3. lastSeen' \in [Processes -> Nat]
  <2>1. Noted(lastSeen, Utilization(lastSeen)) \in [Processes -> Nat]
    BY <1>1, ReadingIs
  <2>2. lastSeen \in [Processes -> Nat]
    BY <1>1 DEF GpuTypeOK
  <2> QED BY <1>2, <2>1, <2>2, Zenon
<1>4. GpuTypeOK'
  BY <1>1, <1>2, <1>3 DEF GpuTypeOK
<1>5. ASSUME Steady, NEW p \in Processes
      PROVE  LET last == Max({span.from} \union Range(collected[p]))
                 ran == Cardinality({t \in samples[p] : t > span.from /\ t <= last})
             IN  gpuTime'[p] <= ran /\ (baseline[p] # 0 => gpuTime'[p] = ran)
  <2>1. Unbroken(p) /\ Caught(p) /\ Gathered(p)
    BY <1>1, <1>5 DEF SteadyDevice
  <2>2. Ascending(collected[p]) /\ \A t \in Range(collected[p]) : t \in samples[p]
                                                                /\ t > span.from
    BY <2>1 DEF Gathered, During
  <2>3. span.from <= clock /\ SeenBy(p, span.from, baseline[p]) /\ taskAt # "new"
    BY <1>1, <2>1 DEF Caught, ReadingsAreTimely, GpuTypeOK
  <2>4. running \subseteq scope \union running /\ collected \in [Processes -> Seq(Nat)]
    BY <1>1 DEF GpuTypeOK
  <2> QED BY <1>1, <1>2, <1>5, <2>1, <2>2, <2>3, <2>4, SteadyCharges, Zenon
<1>6. SteadyProcessesPayWhatTheyRan'
  <2> SUFFICES ASSUME gone = {}, baseline # None0, NEW p \in Processes
               PROVE  LET last == Max({span.from} \union Range(collected[p]))
                          ran == Cardinality({t \in samples[p] : t > span.from /\ t <= last})
                      IN  gpuTime'[p] <= ran /\ (baseline[p] # 0 => gpuTime'[p] = ran)
    BY <1>2, Zenon DEF SteadyProcessesPayWhatTheyRan, None0, RanUntil, LastCollected
  <2>1. Steady
    BY DEF Steady
  <2> QED BY <1>5, <2>1, Zenon
<1>7. NothingKeptIsMissed' /\ SteadyProcessesPayToTheEnd' /\ ~Going'
  BY <1>2 DEF NothingKeptIsMissed, SteadyProcessesPayToTheEnd, Going
<1> QED BY <1>4, <1>6, <1>7 DEF GpuInv, GpuTimeIsTrue

\* Nothing changes when no variable does.
LEMMA GpuStutters == GpuInv /\ UNCHANGED gpuVars => GpuInv'
<1> SUFFICES ASSUME GpuInv, UNCHANGED gpuVars PROVE GpuInv'
  OBVIOUS
<1>1. /\ clock' = clock /\ running' = running /\ gone' = gone /\ samples' = samples
      /\ buffer' = buffer
      /\ taskAt' = taskAt /\ span' = span /\ lastSeen' = lastSeen /\ baseline' = baseline
      /\ collected' = collected /\ sampler' = sampler /\ gpuTime' = gpuTime
  BY DEF gpuVars
<1>2. GpuTypeOK => GpuTypeOK'
  BY <1>1 DEF GpuTypeOK
<1>3. (Going' <=> Going) /\ (ReadingsAreTimely => ReadingsAreTimely') /\ (Steady' <=> Steady)
  BY <1>1 DEF Going, ReadingsAreTimely, Nothing, Steady, None0
<1>4. \A p \in Processes :
        /\ Reached(p)' = Reached(p) /\ Unbroken(p)' = Unbroken(p)
        /\ Caught(p)' = Caught(p) /\ Gathered(p)' = Gathered(p)
  BY <1>1 DEF Reached, During, Unbroken, Caught, SeenBy, Gathered, Ascending
<1>5. /\ ReadingsAreKept => ReadingsAreKept'
      /\ SteadyDevice => SteadyDevice'
  BY <1>1, <1>3, <1>4 DEF ReadingsAreKept, SteadyDevice
<1>6. NothingKeptIsMissed => NothingKeptIsMissed'
  BY <1>1 DEF NothingKeptIsMissed
<1>7. SteadyProcessesPayWhatTheyRan => SteadyProcessesPayWhatTheyRan'
  BY <1>1, Zenon DEF SteadyProcessesPayWhatTheyRan, Finished, None0, RanUntil, LastCollected
<1>8. SteadyProcessesPayToTheEnd => SteadyProcessesPayToTheEnd'
  BY <1>1, Zenon DEF SteadyProcessesPayToTheEnd, None0, RanUntil, LastCollected
<1> QED BY <1>1, <1>2, <1>3, <1>5, <1>6, <1>7, <1>8 DEF GpuInv, GpuTimeIsTrue

\* Whatever samples the driver drops and whichever readings fail or are lost: once the
\* thread has stopped and the last reading was answered, no sample of the task that the
\* driver still has is missing; and on a steady device each process is charged for the
\* ticks it ran up to the last sample collected, also when the thread did not stop in time.
\* For any processes and any length of the task (gpu_accountant.py _collect_samples,
\* _stop_sampling, snapshot_end_and_build).
THEOREM GpuTimesAreTrue == GpuSpec => []GpuTimeIsTrue
<1>1. GpuInv /\ [GpuNext]_gpuVars => GpuInv'
  <2> SUFFICES ASSUME GpuInv, GpuNext \/ UNCHANGED gpuVars PROVE GpuInv'
    OBVIOUS
  <2>1. ASSUME NEW p \in Processes, ProcessStarts(p) \/ ProcessEnds(p) PROVE GpuInv'
    BY <2>1, ProcessStartsKeeps, ProcessEndsKeeps
  <2> QED BY <2>1, TickKeeps, SnapshotStartKeeps, SamplerReadsKeeps, ReadingFailsKeeps,
             ReadingIsLostKeeps, SamplerStoresKeeps, EndGpuTaskKeeps, LastCollectionKeeps,
             CutShortKeeps, GpuStutters
          DEF GpuNext
<1>2. GpuInv => GpuTimeIsTrue
  BY DEF GpuInv
<1> QED BY GpuInitially, <1>1, <1>2, PTL DEF GpuSpec
-----------------------------------------------------------------------------
(***************************************************************************)
(* UsagePricing: sums over the few buckets of a report.                    *)
(***************************************************************************)
\* Sums of one, two and three terms.
LEMMA SumOfOne ==
  ASSUME NEW f, NEW a, f[a] \in Int
  PROVE  SumFunctionOnSet(f, {a}) = f[a]
<1>1. SumFunctionOnSet(f, {} \union {a}) = f[a] + SumFunctionOnSet(f, {})
  <2>1. IsFiniteSet({}) /\ \A y \in {} \union {a} : f[y] \in Int
    BY FS_EmptySet
  <2>2. a \notin {}
    OBVIOUS
  <2> QED BY <2>1, <2>2, SumWith, Zenon
<1>2. {} \union {a} = {a}
  OBVIOUS
<1>3. SumFunctionOnSet(f, {}) = 0
  BY SumOfNone, Zenon
<1> QED BY <1>1, <1>2, <1>3

LEMMA SumOfTwo ==
  ASSUME NEW f, NEW a, NEW b, a # b, f[a] \in Int, f[b] \in Int
  PROVE  SumFunctionOnSet(f, {a, b}) = f[a] + f[b]
<1>1. SumFunctionOnSet(f, {a} \union {b}) = f[b] + SumFunctionOnSet(f, {a})
  <2>1. IsFiniteSet({a})
    BY FS_Singleton
  <2>2. b \notin {a} /\ \A y \in {a} \union {b} : f[y] \in Int
    OBVIOUS
  <2> QED BY <2>1, <2>2, SumWith, Zenon
<1>2. {a} \union {b} = {a, b}
  OBVIOUS
<1>3. SumFunctionOnSet(f, {a}) = f[a]
  BY SumOfOne, Zenon
<1>4. SumFunctionOnSet(f, {a, b}) = f[b] + f[a]
  BY <1>1, <1>2, <1>3, Zenon
<1>5. f[b] + f[a] = f[a] + f[b]
  OBVIOUS
<1> QED BY <1>4, <1>5, Zenon

LEMMA SumOfThree ==
  ASSUME NEW f, NEW a, NEW b, NEW c, a # b, c # a, c # b,
         f[a] \in Int, f[b] \in Int, f[c] \in Int
  PROVE  SumFunctionOnSet(f, {a, b, c}) = f[a] + f[b] + f[c]
<1>1. SumFunctionOnSet(f, {a, b} \union {c}) = f[c] + SumFunctionOnSet(f, {a, b})
  <2>1. IsFiniteSet({a, b})
    <3>1. IsFiniteSet({a} \union {b})
      BY FS_Singleton, FS_AddElement, Zenon
    <3>2. {a} \union {b} = {a, b}
      OBVIOUS
    <3> QED BY <3>1, <3>2
  <2>2. c \notin {a, b} /\ \A y \in {a, b} \union {c} : f[y] \in Int
    OBVIOUS
  <2> QED BY <2>1, <2>2, SumWith, Zenon
<1>2. {a, b} \union {c} = {a, b, c}
  OBVIOUS
<1>3. SumFunctionOnSet(f, {a, b}) = f[a] + f[b]
  BY SumOfTwo, Zenon
<1>4. SumFunctionOnSet(f, {a, b, c}) = f[c] + (f[a] + f[b])
  BY <1>1, <1>2, <1>3, Zenon
<1>5. f[c] + (f[a] + f[b]) = f[a] + f[b] + f[c]
  OBVIOUS
<1> QED BY <1>4, <1>5, Zenon

\* The input of a report is the sum of three buckets.
LEMMA OverTheInput ==
  ASSUME NEW f, f["input_tokens"] \in Int, f["cache_read_input_tokens"] \in Int,
         f["cache_write_input_tokens"] \in Int
  PROVE  Total(f, InputMetrics) = f["input_tokens"] + f["cache_read_input_tokens"]
                                    + f["cache_write_input_tokens"]
<1> DEFINE a == "input_tokens"
           b == "cache_read_input_tokens"
           c == "cache_write_input_tokens"
<1>1. Total(f, InputMetrics) = SumFunctionOnSet(f, {a, b, c})
  BY Zenon DEF Total, InputMetrics
<1>2. f[a] \in Int /\ f[b] \in Int /\ f[c] \in Int /\ a # b /\ c # a /\ c # b
  OBVIOUS
<1>3. SumFunctionOnSet(f, {a, b, c}) = f[a] + f[b] + f[c]
  <2> HIDE DEF a, b, c
  <2> QED BY <1>2, SumOfThree, SMT
<1> QED BY <1>1, <1>3, Zenon

\* All buckets are those of the input and those of the output.
LEMMA OverTheBuckets ==
  ASSUME NEW f, \A m \in InputMetrics \union OutputMetrics : f[m] \in Int
  PROVE  /\ Total(f, InputMetrics) = f["input_tokens"] + f["cache_read_input_tokens"]
                                       + f["cache_write_input_tokens"]
         /\ Total(f, OutputMetrics) = f["output_tokens"] + f["reasoning_output_tokens"]
         /\ Total(f, InputMetrics \union OutputMetrics) =
              Total(f, InputMetrics) + Total(f, OutputMetrics)
<1>1. /\ f["input_tokens"] \in Int /\ f["cache_read_input_tokens"] \in Int
      /\ f["cache_write_input_tokens"] \in Int
      /\ f["output_tokens"] \in Int /\ f["reasoning_output_tokens"] \in Int
  BY DEF InputMetrics, OutputMetrics
<1>2. "output_tokens" # "reasoning_output_tokens"
  OBVIOUS
<1>3. Total(f, InputMetrics) = f["input_tokens"] + f["cache_read_input_tokens"]
                                 + f["cache_write_input_tokens"]
  BY <1>1, OverTheInput, Zenon
<1>4. Total(f, OutputMetrics) = f["output_tokens"] + f["reasoning_output_tokens"]
  BY <1>1, <1>2, SumOfTwo, Zenon DEF Total, OutputMetrics
<1>5. IsFiniteSet(InputMetrics) /\ IsFiniteSet(OutputMetrics)
  <2>1. \A a, b, c : IsFiniteSet({a, b, c}) /\ IsFiniteSet({a, b})
    <3> TAKE a, b, c
    <3>1. IsFiniteSet({} \union {a})
      BY FS_EmptySet, FS_AddElement, Zenon
    <3>2. IsFiniteSet(({} \union {a}) \union {b})
      BY <3>1, FS_AddElement, Zenon
    <3>3. IsFiniteSet((({} \union {a}) \union {b}) \union {c})
      BY <3>2, FS_AddElement, Zenon
    <3>4. ({} \union {a}) \union {b} = {a, b}
      OBVIOUS
    <3>5. (({} \union {a}) \union {b}) \union {c} = {a, b, c}
      OBVIOUS
    <3> QED BY <3>2, <3>3, <3>4, <3>5
  <2> QED BY <2>1, Zenon DEF InputMetrics, OutputMetrics
<1>6. InputMetrics \intersect OutputMetrics = {}
  BY DEF InputMetrics, OutputMetrics
<1>7. Total(f, InputMetrics \union OutputMetrics) =
        Total(f, InputMetrics) + Total(f, OutputMetrics)
  BY <1>5, <1>6, SumSplits, Zenon DEF Total
<1> QED BY <1>3, <1>4, <1>7

\* Text and audio.
LEMMA OverTheModalities ==
  ASSUME NEW f, f["text"] \in Int, f["audio"] \in Int
  PROVE  Total(f, Modalities) = f["text"] + f["audio"]
<1>1. "text" # "audio"
  OBVIOUS
<1>2. Total(f, {"text", "audio"}) = f["text"] + f["audio"]
  BY <1>1, SumOfTwo, Zenon DEF Total
<1> QED BY <1>2, Zenon DEF Modalities

\* Text, audio and what has no modality.
LEMMA OverTheGeminiModalities ==
  ASSUME NEW f, f["text"] \in Int, f["audio"] \in Int, f["unspecified"] \in Int
  PROVE  Total(f, GeminiModalities) = f["text"] + f["audio"] + f["unspecified"]
<1> DEFINE a == "text"
           b == "audio"
           c == "unspecified"
<1>1. Total(f, GeminiModalities) = SumFunctionOnSet(f, {a, b, c})
  <2>1. GeminiModalities = {a, b, c}
    BY DEF GeminiModalities, Modalities
  <2> QED BY <2>1, Zenon DEF Total
<1>2. f[a] \in Int /\ f[b] \in Int /\ f[c] \in Int /\ a # b /\ c # a /\ c # b
  OBVIOUS
<1>3. SumFunctionOnSet(f, {a, b, c}) = f[a] + f[b] + f[c]
  <2> HIDE DEF a, b, c
  <2> QED BY <1>2, SumOfThree, SMT
<1> QED BY <1>1, <1>3, Zenon

\* What OrZero and Clamp make of a count.
LEMMA CountsAre ==
  /\ \A x \in Counts : x \in Int /\ 0 <= x /\ x \in Nat
  /\ \A x \in Optional : /\ x # Absent => x \in Counts
                         /\ OrZero(x) \in Nat
                         /\ OrZero(x) = IF x = Absent THEN 0 ELSE x
BY DEF Counts, Optional, OrZero, Absent
-----------------------------------------------------------------------------
(***************************************************************************)
(* Each token of a report is in one bucket.                                *)
(***************************************************************************)
\* A report that is not refused is split without a rest (normalize_openai_usage).
LEMMA OpenAITokens ==
  ASSUME NEW r \in OpenAIReports, ~OpenAIRefuses(r)
  PROVE  /\ Total(NormalizeOpenAI(r), InputMetrics) = r.input
         /\ Total(NormalizeOpenAI(r), OutputMetrics) = r.output
         /\ \A m \in DOMAIN NormalizeOpenAI(r) : NormalizeOpenAI(r)[m] >= 0
<1> DEFINE n == NormalizeOpenAI(r)
           cached == OrZero(r.cached)
           write == OrZero(r.write)
           reasoning == OrZero(r.reasoning)
<1>1. /\ r.input \in Nat /\ r.output \in Nat /\ cached \in Nat /\ write \in Nat
      /\ reasoning \in Nat /\ cached + write <= r.input /\ reasoning <= r.output
  <2>1. /\ r.input \in Optional /\ r.output \in Optional /\ r.cached \in Optional
        /\ r.write \in Optional /\ r.reasoning \in Optional
    BY DEF OpenAIReports
  <2>2. r.input \in Nat /\ r.output \in Nat /\ cached \in Nat /\ write \in Nat
        /\ reasoning \in Nat
    BY <2>1, CountsAre DEF OpenAIRefuses
  <2>3. ~(cached + write > r.input) /\ ~(reasoning > r.output)
    BY DEF OpenAIRefuses
  <2> HIDE DEF cached, write, reasoning
  <2> QED BY <2>2, <2>3
<1>2. /\ n["input_tokens"] = r.input - cached - write
      /\ n["cache_read_input_tokens"] = cached /\ n["cache_write_input_tokens"] = write
      /\ n["output_tokens"] = r.output - reasoning
      /\ n["reasoning_output_tokens"] = reasoning
      /\ DOMAIN n = InputMetrics \union OutputMetrics
  BY DEF NormalizeOpenAI, InputMetrics, OutputMetrics
<1> HIDE DEF n, cached, write, reasoning
<1>3. \A m \in InputMetrics \union OutputMetrics : n[m] \in Int /\ n[m] >= 0
  BY <1>1, <1>2 DEF InputMetrics, OutputMetrics
<1>4. /\ Total(n, InputMetrics) = n["input_tokens"] + n["cache_read_input_tokens"]
                                    + n["cache_write_input_tokens"]
      /\ Total(n, OutputMetrics) = n["output_tokens"] + n["reasoning_output_tokens"]
  BY <1>3, OverTheBuckets, Zenon
<1>5. Total(n, InputMetrics) = r.input /\ Total(n, OutputMetrics) = r.output
  BY <1>1, <1>2, <1>4
<1> QED BY <1>2, <1>3, <1>5, Zenon DEF n

\* Also when the caches do not fit (perplexity.py _token_measurement).
LEMMA PerplexityTokens ==
  ASSUME NEW r \in OpenAIReports, r.input # Absent
  PROVE  Total(PerplexityBuckets(r), InputMetrics) = r.input
<1> DEFINE n == PerplexityBuckets(r)
           cached == OrZero(r.cached)
           write == OrZero(r.write)
<1>1. r.input \in Nat /\ cached \in Nat /\ write \in Nat /\ OrZero(r.input) = r.input
  <2>1. r.input \in Optional /\ r.cached \in Optional /\ r.write \in Optional
    BY DEF OpenAIReports
  <2> QED BY <2>1, CountsAre
<1>2. \/ /\ n["input_tokens"] = r.input - cached - write
         /\ n["cache_read_input_tokens"] = cached /\ n["cache_write_input_tokens"] = write
      \/ /\ n["input_tokens"] = OrZero(r.input)
         /\ n["cache_read_input_tokens"] = 0 /\ n["cache_write_input_tokens"] = 0
  BY DEF PerplexityBuckets
<1> HIDE DEF n, cached, write
<1>3. /\ n["input_tokens"] \in Int /\ n["cache_read_input_tokens"] \in Int
      /\ n["cache_write_input_tokens"] \in Int
  BY <1>1, <1>2
<1>4. Total(n, InputMetrics) = n["input_tokens"] + n["cache_read_input_tokens"]
                                 + n["cache_write_input_tokens"]
  BY <1>3, OverTheInput, Zenon
<1>5. Total(n, InputMetrics) = r.input
  BY <1>1, <1>2, <1>4
<1> QED BY <1>5 DEF n

\* The input of a batch (_batch_measurement).
LEMMA BatchTokens ==
  ASSUME NEW r \in OpenAIReports, r.input >= OrZero(r.cached)
  PROVE  OpenAIBatchBuckets(r).batch_input_tokens
           + OpenAIBatchBuckets(r).batch_cache_read_input_tokens = r.input
<1>1. r.input \in Int /\ OrZero(r.cached) \in Nat /\ r.input # Absent
  <2>1. r.input \in Optional /\ r.cached \in Optional
    BY DEF OpenAIReports
  <2>2. OrZero(r.cached) \in Nat
    BY <2>1, CountsAre
  <2> QED BY <2>1, <2>2, CountsAre DEF Absent
<1> QED BY <1>1 DEF OpenAIBatchBuckets, Clamp

\* The counts of a realtime report.
LEMMA RealtimeTypes ==
  ASSUME NEW r \in RealtimeReports
  PROVE  /\ r.input \in Optional /\ r.cached \in Optional
         /\ OrZero(r.cached) \in Nat
         /\ \A k \in Modalities : /\ r.parts[k] \in Optional /\ r.cachedParts[k] \in Optional
                                  /\ OrZero(r.parts[k]) \in Nat
                                  /\ OrZero(r.cachedParts[k]) \in Nat
                                  /\ r.parts[k] # Absent => r.parts[k] = OrZero(r.parts[k])
         /\ Classified(r) = OrZero(r.parts["text"]) + OrZero(r.parts["audio"])
         /\ Classified(r) \in Nat
         /\ r.input # Absent => r.input \in Nat
<1>1. /\ r.input \in Optional /\ r.cached \in Optional
      /\ \A k \in Modalities : r.parts[k] \in Optional /\ r.cachedParts[k] \in Optional
  BY DEF RealtimeReports
<1>2. \A k \in Modalities : /\ OrZero(r.parts[k]) \in Nat
                            /\ OrZero(r.cachedParts[k]) \in Nat
                            /\ r.parts[k] # Absent => r.parts[k] = OrZero(r.parts[k])
  BY <1>1, CountsAre
<1>3. "text" \in Modalities /\ "audio" \in Modalities
  BY DEF Modalities
<1>4. OrZero(r.cached) \in Nat /\ (r.input # Absent => r.input \in Nat)
  BY <1>1, CountsAre
<1>5. Classified(r) = OrZero(r.parts["text"]) + OrZero(r.parts["audio"])
  BY DEF Classified
<1> QED BY <1>1, <1>2, <1>3, <1>4, <1>5

\* What a modality was counted with is in one of its three buckets.
LEMMA RealtimeParts ==
  ASSUME NEW r \in RealtimeReports, NEW k \in Modalities
  PROVE  LET b == RealtimeBuckets(r)
         IN  /\ b.full[k] \in Nat /\ b.discounted[k] \in Nat /\ b.gross[k] \in Nat
             /\ b.full[k] + b.discounted[k] + b.gross[k] = OrZero(r.parts[k])
             /\ ~RealtimeSplitIsComplete(r) => b.full[k] = 0
             /\ r.parts[k] = Absent => b.full[k] = 0
             /\ RealtimeIsSplit(r, k) => b.full[k] = r.parts[k] - OrZero(r.cachedParts[k])
<1> DEFINE b == RealtimeBuckets(r)
<1>1. /\ b.full[k] = IF RealtimeIsSplit(r, k) THEN r.parts[k] - OrZero(r.cachedParts[k]) ELSE 0
      /\ b.discounted[k] = IF RealtimeIsSplit(r, k) THEN OrZero(r.cachedParts[k]) ELSE 0
      /\ b.gross[k] = IF r.parts[k] # Absent /\ ~RealtimeIsSplit(r, k) THEN r.parts[k] ELSE 0
  BY DEF RealtimeBuckets
<1>2. /\ OrZero(r.parts[k]) \in Nat /\ OrZero(r.cachedParts[k]) \in Nat
      /\ r.parts[k] # Absent => r.parts[k] = OrZero(r.parts[k])
      /\ r.parts[k] = Absent => OrZero(r.parts[k]) = 0
  BY RealtimeTypes DEF OrZero
<1>3. RealtimeIsSplit(r, k) <=>
        /\ r.parts[k] # Absent /\ RealtimeSplitIsComplete(r)
        /\ OrZero(r.cachedParts[k]) <= r.parts[k]
  BY Zenon DEF RealtimeIsSplit
<1> HIDE DEF b
<1>4. CASE RealtimeIsSplit(r, k)
  BY <1>1, <1>2, <1>3, <1>4 DEF b
<1>5. CASE ~RealtimeIsSplit(r, k)
  BY <1>1, <1>2, <1>5 DEF b
<1> QED BY <1>4, <1>5

\* The modalities and what is in none of them add up to the input.
LEMMA RealtimeTokens ==
  ASSUME NEW r \in RealtimeReports, r.input # Absent, ~RealtimeBuckets(r).inconsistent
  PROVE  Total(RealtimeBuckets(r).full, Modalities)
           + Total(RealtimeBuckets(r).discounted, Modalities)
           + Total(RealtimeBuckets(r).gross, Modalities) + RealtimeBuckets(r).unclassified = r.input
<1> DEFINE b == RealtimeBuckets(r)
           T == "text"
           A == "audio"
<1>1. T \in Modalities /\ A \in Modalities
  BY DEF Modalities
<1>2. /\ \A k \in {T, A} : /\ b.full[k] \in Nat /\ b.discounted[k] \in Nat /\ b.gross[k] \in Nat
                           /\ b.full[k] + b.discounted[k] + b.gross[k] = OrZero(r.parts[k])
  BY <1>1, RealtimeParts
<1>3. /\ Classified(r) = OrZero(r.parts[T]) + OrZero(r.parts[A])
      /\ Classified(r) \in Nat /\ r.input \in Nat
      /\ OrZero(r.parts[T]) \in Nat /\ OrZero(r.parts[A]) \in Nat
  BY <1>1, RealtimeTypes
<1>4. /\ b.inconsistent = (r.input # Absent /\ Classified(r) > r.input)
      /\ b.unclassified = IF Classified(r) = 0 THEN r.input ELSE Clamp(r.input - Classified(r))
  BY DEF RealtimeBuckets
<1>5. b.unclassified = r.input - Classified(r)
  <2>1. ~(Classified(r) > r.input)
    BY <1>4
  <2> HIDE DEF b
  <2> QED BY <1>3, <1>4, <2>1 DEF Clamp
<1> HIDE DEF b
<1>6. /\ Total(b.full, Modalities) = b.full[T] + b.full[A]
      /\ Total(b.discounted, Modalities) = b.discounted[T] + b.discounted[A]
      /\ Total(b.gross, Modalities) = b.gross[T] + b.gross[A]
  BY <1>2, OverTheModalities
<1> HIDE DEF T, A
<1>7. Total(b.full, Modalities) + Total(b.discounted, Modalities)
        + Total(b.gross, Modalities) + b.unclassified = r.input
  BY <1>2, <1>3, <1>5, <1>6
<1> QED BY <1>7, Zenon DEF b

\* What is charged in full leaves the cached tokens out.
LEMMA RealtimeFullPrice ==
  ASSUME NEW r \in RealtimeReports
  PROVE  LET told == {k \in Modalities : r.parts[k] # Absent}
             known == SumFunction([k \in Modalities |->
                                     IF k \in told THEN OrZero(r.cachedParts[k]) ELSE 0])
             honest == /\ \A k \in told : OrZero(r.cachedParts[k]) <= r.parts[k]
                       /\ RealtimeSplitIsComplete(r) => known = OrZero(r.cached)
         IN  honest => Total(RealtimeBuckets(r).full, Modalities)
                         <= Clamp(Classified(r) - OrZero(r.cached))
<1> DEFINE told == {k \in Modalities : r.parts[k] # Absent}
           cp == [k \in Modalities |-> IF k \in told THEN OrZero(r.cachedParts[k]) ELSE 0]
           full == RealtimeBuckets(r).full
           T == "text"
           A == "audio"
<1> SUFFICES ASSUME \A k \in told : OrZero(r.cachedParts[k]) <= r.parts[k],
                    RealtimeSplitIsComplete(r) => SumFunction(cp) = OrZero(r.cached)
             PROVE  Total(full, Modalities) <= Clamp(Classified(r) - OrZero(r.cached))
  BY Zenon
<1>1. T \in Modalities /\ A \in Modalities
  BY DEF Modalities
<1>2. /\ Classified(r) = OrZero(r.parts[T]) + OrZero(r.parts[A])
      /\ Classified(r) \in Nat /\ OrZero(r.cached) \in Nat
      /\ OrZero(r.parts[T]) \in Nat /\ OrZero(r.parts[A]) \in Nat
  BY <1>1, RealtimeTypes
<1>3. \A k \in {T, A} : /\ OrZero(r.cachedParts[k]) \in Nat
                        /\ r.parts[k] # Absent => r.parts[k] = OrZero(r.parts[k])
                        /\ r.parts[k] = Absent => OrZero(r.parts[k]) = 0
  BY <1>1, RealtimeTypes DEF OrZero
<1>4. \A k \in {T, A} : /\ full[k] \in Nat
                        /\ ~RealtimeSplitIsComplete(r) => full[k] = 0
                        /\ r.parts[k] = Absent => full[k] = 0
                        /\ RealtimeIsSplit(r, k) => full[k] = r.parts[k] - OrZero(r.cachedParts[k])
  BY <1>1, RealtimeParts
<1>5. \A k \in {T, A} : cp[k] = IF r.parts[k] # Absent THEN OrZero(r.cachedParts[k]) ELSE 0
  BY <1>1
<1>6. \A k \in {T, A} :
        RealtimeSplitIsComplete(r) => full[k] = OrZero(r.parts[k]) - cp[k]
  <2> SUFFICES ASSUME NEW k \in {T, A}, RealtimeSplitIsComplete(r)
               PROVE  full[k] = OrZero(r.parts[k]) - cp[k]
    OBVIOUS
  <2>1. CASE r.parts[k] = Absent
    <3> HIDE DEF cp, full
    <3> QED BY <1>3, <1>4, <1>5, <2>1
  <2>2. CASE r.parts[k] # Absent
    <3>1. RealtimeIsSplit(r, k)
      BY <1>1, <2>2 DEF RealtimeIsSplit
    <3> HIDE DEF cp, full
    <3> QED BY <1>3, <1>4, <1>5, <2>2, <3>1
  <2> QED BY <2>1, <2>2
<1>7. DOMAIN cp = Modalities
  BY Zenon
<1> HIDE DEF cp, full
<1>8. SumFunction(cp) = Total(cp, Modalities)
  BY <1>7, Zenon DEF SumFunction, Total
<1>9. \A k \in {T, A} : cp[k] \in Nat
  BY <1>3, <1>5
<1>10. /\ Total(cp, Modalities) = cp[T] + cp[A]
       /\ Total(full, Modalities) = full[T] + full[A]
  BY <1>4, <1>9, OverTheModalities
<1> HIDE DEF T, A
<1>11. CASE RealtimeSplitIsComplete(r)
  <2>1. Total(full, Modalities) = Classified(r) - OrZero(r.cached)
    BY <1>2, <1>6, <1>8, <1>9, <1>10, <1>11
  <2>2. Total(full, Modalities) \in Nat
    BY <1>4, <1>10
  <2> QED BY <1>2, <2>1, <2>2 DEF Clamp
<1>12. CASE ~RealtimeSplitIsComplete(r)
  <2>1. Total(full, Modalities) = 0
    BY <1>4, <1>10, <1>12
  <2> QED BY <1>2, <2>1 DEF Clamp
<1> QED BY <1>11, <1>12

\* What the details do not allocate makes up for the input.
LEMMA ImageTokens ==
  ASSUME NEW r \in RealtimeReports, NEW detailed \in BOOLEAN, r.input >= Classified(r)
  PROVE  LET b == ImageBuckets(r, detailed)
         IN  b.text + b.image + b.unallocated = r.input
<1>1. /\ r.input \in Optional /\ Classified(r) \in Nat
      /\ Classified(r) = OrZero(r.parts["text"]) + OrZero(r.parts["audio"])
      /\ OrZero(r.parts["text"]) \in Nat /\ OrZero(r.parts["audio"]) \in Nat
  <2>1. "text" \in Modalities /\ "audio" \in Modalities
    BY DEF Modalities
  <2> QED BY <2>1, RealtimeTypes
<1>2. r.input # Absent /\ r.input \in Nat
  <2>1. Absent = -1
    BY DEF Absent
  <2>2. r.input # Absent
    BY <1>1, <2>1
  <2> QED BY <1>1, <2>2, CountsAre
<1>3. OrZero(r.input) = r.input
  BY <1>2 DEF OrZero
<1> QED BY <1>1, <1>2, <1>3 DEF ImageBuckets, Clamp

\* The four ways of _split_prompt_and_cache each keep the tokens of the prompt.
LEMMA GeminiTokens ==
  ASSUME NEW r \in GeminiReports, GeminiConsistent(r)
  PROVE  GeminiTotal(GeminiSplit(r)) = r.prompt
<1> DEFINE T == "text"
           A == "audio"
           O == "unspecified"
           prompt == DetailCounts(r.promptParts, r.prompt)
           cached == [k \in GeminiModalities |-> IF k = O THEN 0 ELSE r.cacheParts[k]]
           allocated == Total(cached, GeminiModalities)
           named == {k \in GeminiModalities : prompt[k] > 0}
           none == [k \in GeminiModalities |-> 0]
           excess == [k \in GeminiModalities |-> Clamp(cached[k] - prompt[k])]
           b == GeminiSplit(r)
<1>1. /\ r.prompt \in Nat /\ r.cache \in Nat /\ r.cache <= r.prompt
      /\ r.promptParts[T] \in Nat /\ r.promptParts[A] \in Nat
      /\ r.cacheParts[T] \in Nat /\ r.cacheParts[A] \in Nat
      /\ r.promptParts[T] + r.promptParts[A] <= r.prompt
      /\ r.cacheParts[T] <= r.promptParts[T] /\ r.cacheParts[A] <= r.promptParts[A]
      /\ r.cacheParts[T] + r.cacheParts[A] \in {0, r.cache}
  <2>1. T \in Modalities /\ A \in Modalities
    BY DEF Modalities
  <2>2. /\ r.prompt \in Counts /\ r.cache \in Counts
        /\ \A k \in Modalities : r.promptParts[k] \in Counts /\ r.cacheParts[k] \in Counts
    BY DEF GeminiReports
  <2> QED BY <2>1, <2>2, CountsAre DEF GeminiConsistent
<1>2. /\ prompt[T] = r.promptParts[T] /\ prompt[A] = r.promptParts[A]
      /\ prompt[O] = r.prompt - r.promptParts[T] - r.promptParts[A]
      /\ T \in GeminiModalities /\ A \in GeminiModalities /\ O \in GeminiModalities
      /\ T # A /\ T # O /\ A # O /\ GeminiModalities = {T, A, O}
  BY <1>1 DEF DetailCounts, Clamp, GeminiModalities, Modalities
<1>3. cached[T] = r.cacheParts[T] /\ cached[A] = r.cacheParts[A] /\ cached[O] = 0
  BY <1>2
<1>4. none[T] = 0 /\ none[A] = 0 /\ none[O] = 0
  BY <1>2
<1>5. b = CASE r.cache = 0 -> [input |-> prompt, cache |-> none, unallocated |-> 0]
            [] r.cache > 0 /\ allocated > 0 ->
                 [input |-> [k \in GeminiModalities |-> Clamp(prompt[k] - cached[k])],
                  cache |-> cached,
                  unallocated |-> Clamp(r.cache - allocated) + Total(excess, GeminiModalities)]
            [] r.cache > 0 /\ allocated = 0 /\ Cardinality(named) = 1 ->
                 [input |-> [k \in GeminiModalities |->
                               IF k \in named THEN Clamp(prompt[k] - r.cache) ELSE 0],
                  cache |-> [k \in GeminiModalities |-> IF k \in named THEN r.cache ELSE 0],
                  unallocated |-> 0]
            [] OTHER -> [input |-> none, cache |-> none,
                         unallocated |-> Clamp(r.prompt - r.cache) + r.cache]
  BY Zenon DEF GeminiSplit
<1>6. excess[T] = 0 /\ excess[A] = 0 /\ excess[O] = 0
  <2>1. /\ excess[T] = Clamp(cached[T] - prompt[T]) /\ excess[A] = Clamp(cached[A] - prompt[A])
        /\ excess[O] = Clamp(cached[O] - prompt[O])
    BY <1>2, Zenon
  <2> HIDE DEF excess, cached, prompt
  <2> QED BY <1>1, <1>2, <1>3, <2>1 DEF Clamp
<1>7. \A k : k \in named <=> k \in GeminiModalities /\ prompt[k] > 0
  OBVIOUS
<1> HIDE DEF prompt, cached, none, excess, named
<1>8. allocated = r.cacheParts[T] + r.cacheParts[A]
  <2>1. allocated = cached[T] + cached[A] + cached[O]
    BY <1>1, <1>3, OverTheGeminiModalities
  <2> HIDE DEF allocated
  <2> QED BY <1>1, <1>3, <2>1
<1>9. Total(excess, GeminiModalities) = 0
  <2>1. Total(excess, GeminiModalities) = excess[T] + excess[A] + excess[O]
    BY <1>6, OverTheGeminiModalities
  <2> QED BY <1>6, <2>1
<1> HIDE DEF allocated, b
<1>10. ASSUME NEW i, NEW c, NEW u, b = [input |-> i, cache |-> c, unallocated |-> u],
              i[T] \in Int, i[A] \in Int, i[O] \in Int,
              c[T] \in Int, c[A] \in Int, c[O] \in Int
       PROVE  GeminiTotal(b) = (i[T] + i[A] + i[O]) + (c[T] + c[A] + c[O]) + u
  <2>1. b.input = i /\ b.cache = c /\ b.unallocated = u
    BY <1>10
  <2>2. GeminiTotal(b) = Total(i, GeminiModalities) + Total(c, GeminiModalities) + u
    BY <2>1, Zenon DEF GeminiTotal
  <2>3. Total(i, GeminiModalities) = i[T] + i[A] + i[O]
    BY <1>10, OverTheGeminiModalities
  <2>4. Total(c, GeminiModalities) = c[T] + c[A] + c[O]
    BY <1>10, OverTheGeminiModalities
  <2> QED BY <2>2, <2>3, <2>4, Zenon
<1>11. CASE r.cache = 0
  <2>1. b = [input |-> prompt, cache |-> none, unallocated |-> 0]
    BY <1>1, <1>5, <1>11
  <2>2. GeminiTotal(b) = (prompt[T] + prompt[A] + prompt[O]) + (none[T] + none[A] + none[O]) + 0
    BY <1>1, <1>2, <1>4, <1>10, <2>1
  <2> HIDE DEF T, A, O
  <2>3. GeminiTotal(b) = r.prompt
    BY <1>1, <1>2, <1>4, <2>2
  <2> QED BY <2>3 DEF b
<1>12. CASE r.cache # 0 /\ allocated > 0
  <2> DEFINE i == [k \in GeminiModalities |-> Clamp(prompt[k] - cached[k])]
  <2>1. b = [input |-> i, cache |-> cached,
             unallocated |-> Clamp(r.cache - allocated) + Total(excess, GeminiModalities)]
    BY <1>1, <1>5, <1>12
  <2>2. i[T] = Clamp(prompt[T] - cached[T]) /\ i[A] = Clamp(prompt[A] - cached[A])
        /\ i[O] = Clamp(prompt[O] - cached[O])
    BY <1>2, Zenon
  <2>3. Clamp(r.cache - allocated) + Total(excess, GeminiModalities) = 0
    BY <1>1, <1>8, <1>9, <1>12 DEF Clamp
  <2> HIDE DEF i
  <2>4. i[T] = prompt[T] - cached[T] /\ i[A] = prompt[A] - cached[A]
        /\ i[O] = prompt[O] - cached[O]
    BY <1>1, <1>2, <1>3, <2>2 DEF Clamp
  <2>5. GeminiTotal(b) = (i[T] + i[A] + i[O]) + (cached[T] + cached[A] + cached[O]) + 0
    BY <1>1, <1>2, <1>3, <1>10, <2>1, <2>3, <2>4
  <2> HIDE DEF T, A, O
  <2>6. GeminiTotal(b) = r.prompt
    BY <1>1, <1>2, <1>3, <2>4, <2>5
  <2> QED BY <2>6 DEF b
<1>13. CASE r.cache # 0 /\ allocated = 0 /\ Cardinality(named) = 1
  <2> DEFINE i == [k \in GeminiModalities |-> IF k \in named THEN Clamp(prompt[k] - r.cache) ELSE 0]
             c == [k \in GeminiModalities |-> IF k \in named THEN r.cache ELSE 0]
  <2>1. b = [input |-> i, cache |-> c, unallocated |-> 0]
    BY <1>1, <1>5, <1>13
  <2>2. \A k \in {T, A, O} : /\ i[k] = IF k \in named THEN Clamp(prompt[k] - r.cache) ELSE 0
                             /\ c[k] = IF k \in named THEN r.cache ELSE 0
    BY <1>2, Zenon
  <2> HIDE DEF i, c
  <2>3. PICK n : named = {n}
    <3>1. IsFiniteSet(named)
      <4>1. named \subseteq ({T} \union {A}) \union {O}
        BY <1>2, <1>7
      <4>2. IsFiniteSet(({T} \union {A}) \union {O})
        <5>1. IsFiniteSet({T} \union {A})
          BY FS_Singleton, FS_AddElement, Zenon
        <5> QED BY <5>1, FS_AddElement, Zenon
      <4> QED BY <4>1, <4>2, FS_Subset, Zenon
    <3> QED BY <1>13, <3>1, FS_Singleton, Zenon
  <2>4. n \in {T, A, O} /\ prompt[n] > 0 /\ \A k \in {T, A, O} : k # n => ~(prompt[k] > 0)
    BY <1>2, <1>7, <2>3
  <2>5. \A k \in {T, A, O} : prompt[k] \in Nat
    BY <1>1, <1>2
  <2>6. prompt[T] + prompt[A] + prompt[O] = r.prompt
    <3> HIDE DEF T, A, O
    <3> QED BY <1>1, <1>2
  <2>7. \A k \in {T, A, O} : k # n => prompt[k] = 0 /\ i[k] = 0 /\ c[k] = 0
    BY <2>2, <2>3, <2>4, <2>5
  <2>8. prompt[n] = r.prompt
    <3> HIDE DEF T, A, O
    <3> QED BY <1>2, <2>4, <2>5, <2>6, <2>7
  <2>9. i[n] = r.prompt - r.cache /\ c[n] = r.cache
    BY <1>1, <2>2, <2>3, <2>4, <2>8 DEF Clamp
  <2>10. \A k \in {T, A, O} : i[k] \in Int /\ c[k] \in Int
    BY <1>1, <2>7, <2>9
  <2>11. GeminiTotal(b) = (i[T] + i[A] + i[O]) + (c[T] + c[A] + c[O]) + 0
    BY <1>10, <2>1, <2>10
  <2> HIDE DEF T, A, O
  <2>12. GeminiTotal(b) = r.prompt
    <3>1. (i[T] + i[A] + i[O]) + (c[T] + c[A] + c[O]) + 0 = i[n] + c[n]
      <4>1. CASE n = T
        <5>1. i[A] = 0 /\ i[O] = 0 /\ c[A] = 0 /\ c[O] = 0 /\ i[T] \in Int /\ c[T] \in Int
          BY <1>2, <2>7, <2>10, <4>1
        <5> QED BY <4>1, <5>1
      <4>2. CASE n = A
        <5>1. i[T] = 0 /\ i[O] = 0 /\ c[T] = 0 /\ c[O] = 0 /\ i[A] \in Int /\ c[A] \in Int
          BY <1>2, <2>7, <2>10, <4>2
        <5> QED BY <4>2, <5>1
      <4>3. CASE n = O
        <5>1. i[T] = 0 /\ i[A] = 0 /\ c[T] = 0 /\ c[A] = 0 /\ i[O] \in Int /\ c[O] \in Int
          BY <1>2, <2>7, <2>10, <4>3
        <5> QED BY <4>3, <5>1
      <4> QED BY <2>4, <4>1, <4>2, <4>3
    <3> QED BY <1>1, <2>9, <2>11, <3>1
  <2> QED BY <2>12 DEF b
<1>14. CASE r.cache # 0 /\ ~(allocated > 0) /\ ~(allocated = 0 /\ Cardinality(named) = 1)
  <2>1. b = [input |-> none, cache |-> none, unallocated |-> Clamp(r.prompt - r.cache) + r.cache]
    BY <1>1, <1>5, <1>14
  <2>2. Clamp(r.prompt - r.cache) + r.cache = r.prompt
    BY <1>1 DEF Clamp
  <2>3. GeminiTotal(b) = (none[T] + none[A] + none[O]) + (none[T] + none[A] + none[O]) + r.prompt
    BY <1>4, <1>10, <2>1, <2>2
  <2> HIDE DEF T, A, O
  <2>4. GeminiTotal(b) = r.prompt
    BY <1>1, <1>4, <2>3
  <2> QED BY <2>4 DEF b
<1>15. allocated > 0 => ~(allocated = 0)
  BY <1>1, <1>8
<1> QED BY <1>11, <1>12, <1>13, <1>14

\* An iteration is billed or it is not (_billable_usage).
LEMMA IterationTokens ==
  ASSUME NEW s \in Iterations
  PROVE  BillableInput(s) + UnbilledInput(s) = SumFunction([k \in DOMAIN s |-> s[k].input])
<1> DEFINE f == [k \in DOMAIN s |-> IF Billed(s[k]) THEN s[k].input ELSE 0]
           g == [k \in DOMAIN s |-> IF Billed(s[k]) THEN 0 ELSE s[k].input]
           h == [k \in DOMAIN s |-> s[k].input]
<1>1. DOMAIN s = {1, 2} /\ s[1].input \in Nat /\ s[2].input \in Nat
  <2>1. DOMAIN s = 1 .. 2 /\ \A k \in 1 .. 2 : s[k].input \in Counts
    BY DEF Iterations
  <2> QED BY <2>1, CountsAre
<1>2. /\ DOMAIN f = {1, 2} /\ DOMAIN g = {1, 2} /\ DOMAIN h = {1, 2}
      /\ f[1] + g[1] = h[1] /\ f[2] + g[2] = h[2]
      /\ f[1] \in Nat /\ g[1] \in Nat /\ h[1] \in Nat
      /\ f[2] \in Nat /\ g[2] \in Nat /\ h[2] \in Nat
  BY <1>1
<1>3. BillableInput(s) = SumFunction(f) /\ UnbilledInput(s) = SumFunction(g)
  BY Zenon DEF BillableInput, UnbilledInput
<1> HIDE DEF f, g, h
<1>4. /\ SumFunction(f) = SumFunctionOnSet(f, {1, 2})
      /\ SumFunction(g) = SumFunctionOnSet(g, {1, 2})
      /\ SumFunction(h) = SumFunctionOnSet(h, {1, 2})
  BY <1>2, Zenon DEF SumFunction
<1>5. \A e : e[1] \in Nat /\ e[2] \in Nat => SumFunctionOnSet(e, {1, 2}) = e[1] + e[2]
  <2> TAKE e
  <2> HAVE e[1] \in Nat /\ e[2] \in Nat
  <2>1. 1 # 2 /\ e[1] \in Int /\ e[2] \in Int
    OBVIOUS
  <2> QED BY <2>1, SumOfTwo, Zenon
<1>6. /\ SumFunction(f) = f[1] + f[2] /\ SumFunction(g) = g[1] + g[2]
      /\ SumFunction(h) = h[1] + h[2]
  BY <1>2, <1>4, <1>5, Zenon
<1>7. BillableInput(s) + UnbilledInput(s) = SumFunction(h)
  BY <1>2, <1>3, <1>6
<1> QED BY <1>7, Zenon DEF h
-----------------------------------------------------------------------------
(***************************************************************************)
(* Each token is charged at its rate.                                      *)
(***************************************************************************)
DueFor(c, t) == Charge(c, t.plain, t.cached, t.write, t.hour, t.output)
AtItsRate(outcome, c, t) ==
  /\ outcome.known => outcome.cost = DueFor(c, t)
  /\ outcome.cost <= DueFor(c, t)

\* The numbers of a truth and the rates of a catalog.
LEMMA TruthTypes ==
  ASSUME NEW c \in Catalogs, NEW t \in Truths
  PROVE  /\ t.plain \in Nat /\ t.cached \in Nat /\ t.write \in Nat /\ t.hour \in Nat
         /\ t.output \in Nat
         /\ c.disjoint \in BOOLEAN /\ c.cached \in BOOLEAN
         /\ c.write \in BOOLEAN /\ c.hour \in BOOLEAN
         /\ CachedRate(c) = (IF c.cached THEN 2 ELSE 7)
         /\ WriteRate(c) = (IF c.write THEN 13 ELSE 7)
         /\ HourRate(c) = (IF c.hour THEN 17 ELSE 7)
         /\ DueFor(c, t) = 7 * t.plain + CachedRate(c) * t.cached + WriteRate(c) * t.write
                             + HourRate(c) * t.hour + 11 * t.output
<1>1. /\ t.plain \in Counts /\ t.cached \in Counts /\ t.write \in Counts /\ t.hour \in Counts
      /\ t.output \in Counts
  BY DEF Truths
<1>2. /\ c.disjoint \in BOOLEAN /\ c.cached \in BOOLEAN
      /\ c.write \in BOOLEAN /\ c.hour \in BOOLEAN
  BY DEF Catalogs
<1>3. /\ CachedRate(c) = (IF c.cached THEN 2 ELSE 7)
      /\ WriteRate(c) = (IF c.write THEN 13 ELSE 7)
      /\ HourRate(c) = (IF c.hour THEN 17 ELSE 7)
  BY Zenon DEF CachedRate, WriteRate, HourRate, InputRate
<1>4. DueFor(c, t) = 7 * t.plain + CachedRate(c) * t.cached + WriteRate(c) * t.write
                       + HourRate(c) * t.hour + 11 * t.output
  BY Zenon DEF DueFor, Charge, InputRate, OutputRate
<1> QED BY <1>1, <1>2, <1>3, <1>4, CountsAre

\* The smaller of two numbers.
LEMMA SmallerIs == \A a, b \in Int : a <= b => Smaller(a, b) = a
BY DEF Smaller

\* get_cost takes the caches out of the input before it prices them.
LEMMA ChatCharges ==
  ASSUME NEW c \in Catalogs, NEW t \in Truths, t.hour = 0, ~c.disjoint
  PROVE  AtItsRate(ChatCharge(c, t), c, t)
<1> DEFINE input == t.plain + t.cached + t.write
           reads == IF c.cached THEN Smaller(t.cached, input) ELSE 0
           writes == IF c.write THEN Smaller(t.write, input - reads) ELSE 0
           hours == IF c.hour THEN Smaller(0, input - reads - writes) ELSE 0
           p == t.plain
           x == t.cached
           w == t.write
           o == t.output
<1>1. /\ p \in Nat /\ x \in Nat /\ w \in Nat /\ o \in Nat
      /\ CachedRate(c) = (IF c.cached THEN 2 ELSE 7)
      /\ WriteRate(c) = (IF c.write THEN 13 ELSE 7)
      /\ HourRate(c) = (IF c.hour THEN 17 ELSE 7)
      /\ DueFor(c, t) = 7 * p + CachedRate(c) * x + WriteRate(c) * w + HourRate(c) * 0 + 11 * o
  BY TruthTypes
<1>2. /\ reads = IF c.cached THEN x ELSE 0
      /\ writes = IF c.write THEN w ELSE 0
      /\ hours = 0
  <2>1. input \in Nat /\ x <= input /\ w <= input - x /\ w <= input - 0
        /\ input - x - w >= 0 /\ input - x - 0 >= 0 /\ input - 0 - w >= 0 /\ input - 0 - 0 >= 0
    BY <1>1
  <2>2. x \in Int /\ input \in Int /\ w \in Int
    BY <1>1, <2>1
  <2>3. reads = IF c.cached THEN x ELSE 0
    BY <2>1, <2>2, SmallerIs, Zenon
  <2> HIDE DEF reads
  <2>4. input - reads \in Int /\ w <= input - reads
    <3> HIDE DEF input, x, w
    <3> QED BY <1>1, <2>1, <2>2, <2>3
  <2>5. writes = IF c.write THEN w ELSE 0
    BY <2>2, <2>4, SmallerIs, Zenon
  <2> HIDE DEF writes
  <2>6. 0 \in Int /\ input - reads - writes \in Int /\ 0 <= input - reads - writes
    <3> HIDE DEF input, x, w
    <3> QED BY <1>1, <2>1, <2>2, <2>3, <2>5
  <2>7. hours = 0
    BY <2>6, SmallerIs, Zenon
  <2> QED BY <2>3, <2>5, <2>7, Zenon
<1>3. ChatCharge(c, t) =
        [cost |-> Charge(c, input - reads - writes - hours, reads, writes, hours, o),
         known |-> TRUE]
  BY Zenon DEF ChatCharge, GetCost, AsOpenAIReports
<1>4. ChatCharge(c, t).cost = Charge(c, input - reads - writes - hours, reads, writes, hours, o)
  <2> HIDE DEF input, reads, writes, hours, o
  <2> QED BY <1>3
<1>5. Charge(c, input - reads - writes - hours, reads, writes, hours, o) =
        7 * (input - reads - writes - hours) + CachedRate(c) * reads + WriteRate(c) * writes
          + HourRate(c) * hours + 11 * o
  BY Zenon DEF Charge, InputRate, OutputRate
<1>6. input = p + x + w
  BY Zenon
<1> HIDE DEF input, reads, writes, hours, p, x, w, o
<1>7. ChatCharge(c, t).cost = DueFor(c, t)
  <2>1. CASE c.cached /\ c.write
    BY <1>1, <1>2, <1>4, <1>5, <1>6, <2>1
  <2>2. CASE c.cached /\ ~c.write
    BY <1>1, <1>2, <1>4, <1>5, <1>6, <2>2
  <2>3. CASE ~c.cached /\ c.write
    BY <1>1, <1>2, <1>4, <1>5, <1>6, <2>3
  <2>4. CASE ~c.cached /\ ~c.write
    BY <1>1, <1>2, <1>4, <1>5, <1>6, <2>4
  <2> QED BY <2>1, <2>2, <2>3, <2>4
<1>8. DueFor(c, t) \in Int
  BY <1>1
<1> QED BY <1>7, <1>8 DEF AtItsRate

\* get_cost with caches that are apart from the input.
LEMMA MessagesCharges ==
  ASSUME NEW c \in Catalogs, NEW t \in Truths, c.disjoint
  PROVE  AtItsRate(MessagesCharge(c, t), c, t)
<1>1. MessagesCharge(c, t).cost = DueFor(c, t)
  BY Zenon DEF MessagesCharge, GetCost, DueFor
<1>2. DueFor(c, t) \in Int
  BY TruthTypes
<1> QED BY <1>1, <1>2 DEF AtItsRate

\* get_metered_cost says when a bucket has no rate of its own.
LEMMA LiteLLMCharges ==
  ASSUME NEW c \in Catalogs, NEW t \in Truths, t.hour = 0
  PROVE  AtItsRate(LiteLLMCharge(c, t), c, t)
<1> DEFINE b == NormalizeOpenAI(AsOpenAIReports(t))
           priced == {m \in DOMAIN b : /\ b[m] > 0
                                       /\ m = "cache_read_input_tokens" => c.cached
                                       /\ m = "cache_write_input_tokens" => c.write}
           rate == [m \in DOMAIN b |->
                      CASE m = "cache_read_input_tokens" -> CachedRate(c)
                        [] m = "cache_write_input_tokens" -> WriteRate(c)
                        [] m \in OutputMetrics -> OutputRate
                        [] OTHER -> InputRate]
           terms == [m \in DOMAIN b |-> IF m \in priced THEN rate[m] * b[m] ELSE 0]
           I == "input_tokens"
           R == "cache_read_input_tokens"
           W == "cache_write_input_tokens"
           O == "output_tokens"
           X == "reasoning_output_tokens"
           p == t.plain
           x == t.cached
           w == t.write
           o == t.output
<1>1. /\ p \in Nat /\ x \in Nat /\ w \in Nat /\ o \in Nat
      /\ CachedRate(c) = (IF c.cached THEN 2 ELSE 7)
      /\ WriteRate(c) = (IF c.write THEN 13 ELSE 7)
      /\ HourRate(c) = (IF c.hour THEN 17 ELSE 7)
      /\ DueFor(c, t) = 7 * p + CachedRate(c) * x + WriteRate(c) * w + HourRate(c) * 0 + 11 * o
  BY TruthTypes
<1>2. /\ DOMAIN b = InputMetrics \union OutputMetrics
      /\ DOMAIN b = {I, R, W, O, X}
      /\ b[I] = p /\ b[R] = x /\ b[W] = w /\ b[O] = o /\ b[X] = 0
  <2>1. OrZero(x) = x /\ OrZero(w) = w /\ OrZero(Absent) = 0
    BY <1>1 DEF OrZero, Absent
  <2>2. b = [input_tokens |-> (p + x + w) - OrZero(x) - OrZero(w),
             cache_read_input_tokens |-> OrZero(x), cache_write_input_tokens |-> OrZero(w),
             output_tokens |-> o - OrZero(Absent),
             reasoning_output_tokens |-> OrZero(Absent)]
    BY DEF NormalizeOpenAI, AsOpenAIReports
  <2> HIDE DEF b
  <2>3. DOMAIN b = {I, R, W, O, X}
    BY <2>2
  <2>4. InputMetrics \union OutputMetrics = {I, R, W, O, X}
    BY DEF InputMetrics, OutputMetrics
  <2>5. b[I] = p /\ b[R] = x /\ b[W] = w /\ b[O] = o /\ b[X] = 0
    BY <1>1, <2>1, <2>2
  <2> QED BY <2>3, <2>4, <2>5
<1>3. /\ LiteLLMCharge(c, t).cost = SumFunction(terms)
      /\ LiteLLMCharge(c, t).known = (priced # {} /\ priced = {m \in DOMAIN b : b[m] > 0})
  BY Zenon DEF LiteLLMCharge, GetMeteredCost
<1> HIDE DEF b
<1>4. /\ rate[I] = 7 /\ rate[R] = CachedRate(c) /\ rate[W] = WriteRate(c)
      /\ rate[O] = 11 /\ rate[X] = 11
  BY <1>2 DEF OutputMetrics, InputRate, OutputRate
<1> HIDE DEF rate
<1>5. /\ terms[I] = IF p > 0 THEN 7 * p ELSE 0
      /\ terms[R] = IF x > 0 /\ c.cached THEN CachedRate(c) * x ELSE 0
      /\ terms[W] = IF w > 0 /\ c.write THEN WriteRate(c) * w ELSE 0
      /\ terms[O] = IF o > 0 THEN 11 * o ELSE 0
      /\ terms[X] = 0
      /\ DOMAIN terms = InputMetrics \union OutputMetrics
  BY <1>2, <1>4
<1>6. LiteLLMCharge(c, t).known => (x > 0 => c.cached) /\ (w > 0 => c.write)
  <2> SUFFICES ASSUME LiteLLMCharge(c, t).known PROVE (x > 0 => c.cached) /\ (w > 0 => c.write)
    OBVIOUS
  <2>1. priced = {m \in DOMAIN b : b[m] > 0}
    BY <1>3, Zenon
  <2> QED BY <1>2, <2>1
<1> HIDE DEF terms, priced
<1>8. \A m \in InputMetrics \union OutputMetrics : terms[m] \in Int
  <2>1. terms[I] \in Int /\ terms[R] \in Int /\ terms[W] \in Int /\ terms[O] \in Int
        /\ terms[X] \in Int
    BY <1>1, <1>5
  <2> QED BY <1>2, <2>1
<1>9. SumFunction(terms) = (terms[I] + terms[R] + terms[W]) + (terms[O] + terms[X])
  <2>1. SumFunction(terms) = Total(terms, InputMetrics \union OutputMetrics)
    BY <1>5, Zenon DEF SumFunction, Total
  <2>2. /\ Total(terms, InputMetrics \union OutputMetrics) =
             Total(terms, InputMetrics) + Total(terms, OutputMetrics)
        /\ Total(terms, InputMetrics) = terms[I] + terms[R] + terms[W]
        /\ Total(terms, OutputMetrics) = terms[O] + terms[X]
    BY <1>8, OverTheBuckets, Zenon
  <2> QED BY <2>1, <2>2, Zenon
<1> DEFINE tR == terms[R]
           tW == terms[W]
<1>10. /\ terms[I] = 7 * p /\ terms[O] = 11 * o /\ terms[X] = 0
       /\ 7 * p \in Int /\ 11 * o \in Int
  BY <1>1, <1>5
<1>11. /\ tR \in Int /\ CachedRate(c) * x \in Int /\ tR <= CachedRate(c) * x
       /\ (x > 0 => c.cached) => tR = CachedRate(c) * x
  <2>1. CASE c.cached
    BY <1>1, <1>5, <2>1
  <2>2. CASE ~c.cached
    BY <1>1, <1>5, <2>2
  <2> QED BY <2>1, <2>2
<1>12. /\ tW \in Int /\ WriteRate(c) * w \in Int /\ tW <= WriteRate(c) * w
       /\ (w > 0 => c.write) => tW = WriteRate(c) * w
  <2>1. CASE c.write
    BY <1>1, <1>5, <2>1
  <2>2. CASE ~c.write
    BY <1>1, <1>5, <2>2
  <2> QED BY <2>1, <2>2
<1>13. HourRate(c) * 0 = 0
  BY <1>1
<1>14. LiteLLMCharge(c, t).cost = (7 * p + tR + tW) + (11 * o + 0)
  BY <1>3, <1>9, <1>10, Zenon
<1> DEFINE dR == CachedRate(c) * x
           dW == WriteRate(c) * w
           dI == 7 * p
           dO == 11 * o
<1>15. DueFor(c, t) = dI + dR + dW + 0 + dO
  BY <1>1, <1>13, Zenon
<1> HIDE DEF tR, tW, dR, dW, dI, dO
<1>16. /\ LiteLLMCharge(c, t).cost <= DueFor(c, t)
       /\ tR = dR /\ tW = dW => LiteLLMCharge(c, t).cost = DueFor(c, t)
  <2>1. /\ tR \in Int /\ dR \in Int /\ tR <= dR /\ tW \in Int /\ dW \in Int /\ tW <= dW
        /\ dI \in Int /\ dO \in Int
    BY <1>10, <1>11, <1>12, Zenon DEF dR, dW, dI, dO
  <2>2. LiteLLMCharge(c, t).cost = (dI + tR + tW) + (dO + 0)
    BY <1>14, Zenon DEF dI, dO
  <2> QED BY <1>15, <2>1, <2>2
<1>17. LiteLLMCharge(c, t).known => tR = dR /\ tW = dW
  BY <1>6, <1>11, <1>12, Zenon DEF dR, dW
<1> QED BY <1>16, <1>17 DEF AtItsRate
-----------------------------------------------------------------------------
(***************************************************************************)
(* UsagePricing: the inductive invariant.  The meter of a Messages stream  *)
(* always shows what the provider has counted so far, split of the cache   *)
(* writes included; Bedrock's is right when the totals have come.          *)
(***************************************************************************)
MeterFollows ==
  /\ source \in {"messages-stream", "bedrock-stream"} =>
       spent \in [input : Nat, output : Nat, write : Nat, hour : Nat]
  /\ source = "messages-stream" =>
       meter = [input |-> spent.input, output |-> spent.output, write |-> spent.write,
                hour |-> spent.hour, doubtful |-> FALSE]
  /\ source = "bedrock-ended" => meter = [input |-> spent.input, output |-> spent.output]

UsageInv == MeterFollows /\ TokensAreChargedOnce

Streams == {"messages-stream", "bedrock-stream", "bedrock-ended"}
Answers == {"openai", "perplexity", "batch", "realtime", "image", "gemini", "iterations",
            "chat", "litellm", "messages"}

\* Nothing is measured at first.
LEMMA UsageInitially == UsageInit => UsageInv
<1> SUFFICES ASSUME UsageInit PROVE UsageInv
  OBVIOUS
<1>1. source = "idle"
  BY DEF UsageInit
<1>2. EachTokenInOneBucket /\ FullPriceLeavesOutTheCache /\ ChargedAtItsRate
  BY <1>1 DEF EachTokenInOneBucket, FullPriceLeavesOutTheCache, ChargedAtItsRate
<1>3. StreamEndsWithWhatWasSpent /\ MeterFollows
  BY <1>1 DEF StreamEndsWithWhatWasSpent, MeterFollows
<1> QED BY <1>2, <1>3 DEF UsageInv, TokensAreChargedOnce

\* What is measured at once is no stream, and what a stream has is no answer.
LEMMA OfAnAnswer ==
  ASSUME source' \in Answers, EachTokenInOneBucket', FullPriceLeavesOutTheCache',
         ChargedAtItsRate'
  PROVE  UsageInv'
<1>1. source' \notin Streams
  BY DEF Answers, Streams
<1>2. MeterFollows' /\ StreamEndsWithWhatWasSpent'
  BY <1>1 DEF MeterFollows, StreamEndsWithWhatWasSpent, Streams
<1> QED BY <1>2 DEF UsageInv, TokensAreChargedOnce

LEMMA OfAStream ==
  ASSUME source' \in Streams, MeterFollows' PROVE UsageInv'
<1>1. EachTokenInOneBucket' /\ FullPriceLeavesOutTheCache' /\ ChargedAtItsRate'
  BY DEF EachTokenInOneBucket, FullPriceLeavesOutTheCache, ChargedAtItsRate, Streams
<1>2. StreamEndsWithWhatWasSpent'
  BY DEF StreamEndsWithWhatWasSpent, MeterFollows, Streams
<1> QED BY <1>1, <1>2 DEF UsageInv, TokensAreChargedOnce

\* One answer measured or priced is right at once.
LEMMA MeasureOpenAIKeeps ==
  ASSUME NEW r \in OpenAIReports, MeasureOpenAI(r) PROVE UsageInv'
<1>0. ASSUME source' \in {"openai", "perplexity", "batch"}, EachTokenInOneBucket'
      PROVE  UsageInv'
  <2>1. FullPriceLeavesOutTheCache' /\ ChargedAtItsRate' /\ source' \in Answers
    BY <1>0 DEF FullPriceLeavesOutTheCache, ChargedAtItsRate, Answers
  <2> QED BY <1>0, <2>1, OfAnAnswer
<1>1. CASE Measure("openai", r, IF OpenAIRefuses(r) THEN Nothing0 ELSE NormalizeOpenAI(r))
  <2>1. /\ source' = "openai" /\ report' = r
        /\ result' # Nothing0 => result' = NormalizeOpenAI(r) /\ ~OpenAIRefuses(r)
    BY <1>1 DEF Measure
  <2>2. result' # Nothing0 =>
          /\ Total(result', InputMetrics) = report'.input
          /\ Total(result', OutputMetrics) = report'.output
          /\ \A m \in DOMAIN result' : result'[m] >= 0
    BY <2>1, OpenAITokens
  <2>3. EachTokenInOneBucket'
    BY <2>1, <2>2 DEF EachTokenInOneBucket
  <2> QED BY <1>0, <2>1, <2>3
<1>2. CASE Measure("perplexity", r, PerplexityBuckets(r))
  <2>1. source' = "perplexity" /\ report' = r /\ result' = PerplexityBuckets(r)
    BY <1>2 DEF Measure
  <2>2. report'.input # Absent => Total(result', InputMetrics) = report'.input
    BY <2>1, PerplexityTokens
  <2>3. EachTokenInOneBucket'
    BY <2>1, <2>2 DEF EachTokenInOneBucket
  <2> QED BY <1>0, <2>1, <2>3
<1>3. CASE Measure("batch", r, OpenAIBatchBuckets(r))
  <2>1. source' = "batch" /\ report' = r /\ result' = OpenAIBatchBuckets(r)
    BY <1>3 DEF Measure
  <2>2. report'.input >= OrZero(report'.cached) =>
          result'.batch_input_tokens + result'.batch_cache_read_input_tokens = report'.input
    BY <2>1, BatchTokens
  <2>3. EachTokenInOneBucket'
    BY <2>1, <2>2 DEF EachTokenInOneBucket
  <2> QED BY <1>0, <2>1, <2>3
<1> QED BY <1>1, <1>2, <1>3 DEF MeasureOpenAI

LEMMA MeasureRealtimeKeeps ==
  ASSUME NEW r \in RealtimeReports, MeasureRealtime(r) PROVE UsageInv'
<1>1. CASE Measure("realtime", r, RealtimeBuckets(r))
  <2>1. source' = "realtime" /\ report' = r /\ result' = RealtimeBuckets(r)
    BY <1>1 DEF Measure
  <2>2. report'.input # Absent /\ ~result'.inconsistent =>
          Total(result'.full, Modalities) + Total(result'.discounted, Modalities)
            + Total(result'.gross, Modalities) + result'.unclassified = report'.input
    BY <2>1, RealtimeTokens
  <2>3. EachTokenInOneBucket'
    BY <2>1, <2>2 DEF EachTokenInOneBucket
  <2>4. FullPriceLeavesOutTheCache'
    BY <2>1, RealtimeFullPrice, Zenon DEF FullPriceLeavesOutTheCache
  <2>5. ChargedAtItsRate' /\ source' \in Answers
    BY <2>1 DEF ChargedAtItsRate, Answers
  <2> QED BY <2>3, <2>4, <2>5, OfAnAnswer
<1>2. ASSUME NEW detailed \in BOOLEAN, Measure("image", r, ImageBuckets(r, detailed))
      PROVE  UsageInv'
  <2>1. source' = "image" /\ report' = r /\ result' = ImageBuckets(r, detailed)
    BY <1>2 DEF Measure
  <2>2. report'.input >= Classified(report') =>
          result'.text + result'.image + result'.unallocated = report'.input
    BY <2>1, ImageTokens
  <2>3. EachTokenInOneBucket'
    BY <2>1, <2>2 DEF EachTokenInOneBucket
  <2>4. FullPriceLeavesOutTheCache' /\ ChargedAtItsRate' /\ source' \in Answers
    BY <2>1 DEF FullPriceLeavesOutTheCache, ChargedAtItsRate, Answers
  <2> QED BY <2>3, <2>4, OfAnAnswer
<1> QED BY <1>1, <1>2 DEF MeasureRealtime

LEMMA MeasureGeminiKeeps ==
  ASSUME NEW r \in GeminiReports, MeasureGemini(r) PROVE UsageInv'
<1>1. /\ GeminiConsistent(r)
      /\ source' = "gemini" /\ report' = r /\ result' = GeminiSplit(r)
  BY DEF MeasureGemini, Measure
<1>2. GeminiTotal(result') = report'.prompt
  BY <1>1, GeminiTokens
<1>3. EachTokenInOneBucket'
  BY <1>1, <1>2 DEF EachTokenInOneBucket
<1>4. FullPriceLeavesOutTheCache' /\ ChargedAtItsRate' /\ source' \in Answers
  BY <1>1 DEF FullPriceLeavesOutTheCache, ChargedAtItsRate, Answers
<1> QED BY <1>3, <1>4, OfAnAnswer

LEMMA MeasureIterationsKeeps ==
  ASSUME NEW s \in Iterations, MeasureIterations(s) PROVE UsageInv'
<1>1. /\ source' = "iterations" /\ report' = s
      /\ result' = [billed |-> BillableInput(s), unbilled |-> UnbilledInput(s)]
  BY DEF MeasureIterations, Measure
<1>2. result'.billed + result'.unbilled = SumFunction([k \in DOMAIN s |-> s[k].input])
  BY <1>1, IterationTokens
<1>3. EachTokenInOneBucket'
  BY <1>1, <1>2, Zenon DEF EachTokenInOneBucket
<1>4. FullPriceLeavesOutTheCache' /\ ChargedAtItsRate' /\ source' \in Answers
  BY <1>1 DEF FullPriceLeavesOutTheCache, ChargedAtItsRate, Answers
<1> QED BY <1>3, <1>4, OfAnAnswer

LEMMA PriceAnswerKeeps ==
  ASSUME NEW c \in Catalogs, NEW t \in Truths, PriceAnswer(c, t) PROVE UsageInv'
<1>1. ASSUME source' \in {"chat", "litellm", "messages"},
             report' = [truth |-> t, catalog |-> c],
             ~(source' = "chat" /\ c.disjoint) => AtItsRate(result', c, t)
      PROVE  UsageInv'
  <2>1. report'.truth = t /\ report'.catalog = c
    BY <1>1
  <2>2. ChargedAtItsRate'
    BY <1>1, <2>1, Zenon DEF ChargedAtItsRate, AtItsRate, DueFor
  <2>3. EachTokenInOneBucket' /\ FullPriceLeavesOutTheCache' /\ source' \in Answers
    BY <1>1 DEF EachTokenInOneBucket, FullPriceLeavesOutTheCache, Answers
  <2> QED BY <2>2, <2>3, OfAnAnswer
<1>2. CASE t.hour = 0 /\ Measure("chat", [truth |-> t, catalog |-> c], ChatCharge(c, t))
  <2>1. /\ source' = "chat" /\ report' = [truth |-> t, catalog |-> c]
        /\ result' = ChatCharge(c, t)
    BY <1>2 DEF Measure
  <2>2. ~c.disjoint => AtItsRate(result', c, t)
    BY <1>2, <2>1, ChatCharges
  <2> QED BY <1>1, <2>1, <2>2
<1>3. CASE t.hour = 0 /\ Measure("litellm", [truth |-> t, catalog |-> c], LiteLLMCharge(c, t))
  <2>1. /\ source' = "litellm" /\ report' = [truth |-> t, catalog |-> c]
        /\ result' = LiteLLMCharge(c, t)
    BY <1>3 DEF Measure
  <2>2. AtItsRate(result', c, t)
    BY <1>3, <2>1, LiteLLMCharges
  <2> QED BY <1>1, <2>1, <2>2
<1>4. CASE c.disjoint /\ Measure("messages", [truth |-> t, catalog |-> c], MessagesCharge(c, t))
  <2>1. /\ source' = "messages" /\ report' = [truth |-> t, catalog |-> c]
        /\ result' = MessagesCharge(c, t)
    BY <1>4 DEF Measure
  <2>2. AtItsRate(result', c, t)
    BY <1>4, <2>1, MessagesCharges
  <2> QED BY <1>1, <2>1, <2>2
<1> QED BY <1>2, <1>3, <1>4 DEF PriceAnswer

\* message_start sets the meter to what was counted.
LEMMA MessageStartKeeps ==
  ASSUME NEW input \in Counts, NEW five \in Counts, NEW hour \in Counts,
         MessageStart(input, five, hour)
  PROVE  UsageInv'
<1> DEFINE r == [input |-> input, output |-> 1, write |-> five + hour, five |-> five, hour |-> hour]
<1>1. /\ source' = "messages-stream"
      /\ spent' = [input |-> input, output |-> 1, write |-> five + hour, hour |-> hour]
      /\ meter' = ExtractUsage(r, NoSnapshot)
  BY Zenon DEF MessageStart
<1>2. /\ input \in Nat /\ five \in Nat /\ hour \in Nat
      /\ input # Absent /\ five # Absent /\ hour # Absent /\ five + hour # Absent /\ 1 # Absent
  BY DEF Counts, Absent
<1>3. OrZero(five) = five /\ OrZero(hour) = hour
  BY <1>2 DEF OrZero
<1>4. r.input = input /\ r.output = 1 /\ r.write = five + hour /\ r.five = five /\ r.hour = hour
  OBVIOUS
<1> HIDE DEF r
<1>5. CacheUsage(r) = [write |-> five + hour, hour |-> hour, doubtful |-> FALSE]
  BY <1>2, <1>3, <1>4 DEF CacheUsage
<1>6. meter' = [input |-> input, output |-> 1, write |-> five + hour, hour |-> hour,
                doubtful |-> FALSE]
  <2> DEFINE u == CacheUsage(r)
  <2>1. r.write # Absent /\ r.five # Absent /\ r.input # Absent /\ r.output # Absent
    BY <1>2, <1>4
  <2>2. ExtractUsage(r, NoSnapshot) =
          [input |-> r.input, output |-> r.output,
           write |-> u.write, hour |-> u.hour, doubtful |-> u.doubtful]
    BY <2>1, Zenon DEF ExtractUsage
  <2>3. u.write = five + hour /\ u.hour = hour /\ u.doubtful = FALSE
    <3> HIDE DEF u
    <3>1. u = [write |-> five + hour, hour |-> hour, doubtful |-> FALSE]
      BY <1>5 DEF u
    <3> QED BY <3>1
  <2> HIDE DEF u
  <2> QED BY <1>1, <1>4, <2>2, <2>3
<1>7. MeterFollows'
  BY <1>1, <1>2, <1>6 DEF MeterFollows
<1> QED BY <1>1, <1>7, OfAStream DEF Streams

\* message_delta keeps the split of the cache writes it does not repeat.
LEMMA MessageDeltaKeeps ==
  ASSUME UsageInv, NEW told, MessageDelta(told) PROVE UsageInv'
<1> DEFINE r == [input |-> IF "input" \in told THEN spent.input ELSE Absent,
                 output |-> spent.output + 1,
                 write |-> IF "write" \in told THEN spent.write ELSE Absent,
                 five |-> Absent, hour |-> Absent]
<1>1. /\ source = "messages-stream" /\ source' = source
      /\ spent' = [spent EXCEPT !.output = @ + 1]
      /\ meter' = ExtractUsage(r, meter)
  BY Zenon DEF MessageDelta
<1>2. /\ spent \in [input : Nat, output : Nat, write : Nat, hour : Nat]
      /\ meter = [input |-> spent.input, output |-> spent.output, write |-> spent.write,
                  hour |-> spent.hour, doubtful |-> FALSE]
  BY <1>1 DEF UsageInv, MeterFollows
<1>3. /\ spent'.input = spent.input /\ spent'.output = spent.output + 1
      /\ spent'.write = spent.write /\ spent'.hour = spent.hour
      /\ spent' \in [input : Nat, output : Nat, write : Nat, hour : Nat]
  BY <1>1, <1>2
<1>4. /\ r.input \in {spent.input, Absent} /\ r.output = spent.output + 1
      /\ r.write \in {spent.write, Absent} /\ r.five = Absent /\ r.hour = Absent
  OBVIOUS
<1>5. /\ meter.input = spent.input /\ meter.write = spent.write /\ meter.hour = spent.hour
      /\ meter.doubtful = FALSE
  BY <1>2
<1>6. spent.output + 1 # Absent /\ spent.write \in Nat /\ spent.write # Absent
  BY <1>2 DEF Absent
<1> HIDE DEF r
<1>7. r.write # Absent => OrZero(r.write) = meter.write
  BY <1>4, <1>5 DEF OrZero
<1>8. meter' = [input |-> IF r.input = Absent THEN meter.input ELSE r.input,
                output |-> IF r.output = Absent THEN meter.output ELSE r.output,
                write |-> meter.write, hour |-> meter.hour, doubtful |-> meter.doubtful]
  BY <1>1, <1>4, <1>7 DEF ExtractUsage
<1>9. meter' = [input |-> spent.input, output |-> spent.output + 1, write |-> spent.write,
                hour |-> spent.hour, doubtful |-> FALSE]
  BY <1>4, <1>5, <1>6, <1>8
<1>10. MeterFollows'
  BY <1>1, <1>3, <1>9 DEF MeterFollows
<1> QED BY <1>1, <1>10, OfAStream DEF Streams

\* Bedrock: until the totals come the meter may be off.
LEMMA BedrockStartKeeps ==
  ASSUME NEW input \in Counts, BedrockStart(input) PROVE UsageInv'
<1>1. source' = "bedrock-stream" /\ spent' = [NoSpend EXCEPT !.input = input]
  BY DEF BedrockStart
<1>2. spent' \in [input : Nat, output : Nat, write : Nat, hour : Nat]
  BY <1>1, CountsAre DEF NoSpend
<1>3. MeterFollows'
  BY <1>1, <1>2 DEF MeterFollows
<1> QED BY <1>1, <1>3, OfAStream DEF Streams

LEMMA BedrockDeltaKeeps == UsageInv /\ BedrockDelta => UsageInv'
<1> SUFFICES ASSUME UsageInv, BedrockDelta PROVE UsageInv'
  OBVIOUS
<1>1. /\ source = "bedrock-stream" /\ source' = source
      /\ spent' = [spent EXCEPT !.output = @ + 1]
  BY DEF BedrockDelta
<1>2. spent \in [input : Nat, output : Nat, write : Nat, hour : Nat]
  BY <1>1 DEF UsageInv, MeterFollows
<1>3. spent' \in [input : Nat, output : Nat, write : Nat, hour : Nat]
  BY <1>1, <1>2
<1>4. MeterFollows'
  BY <1>1, <1>3 DEF MeterFollows
<1> QED BY <1>1, <1>4, OfAStream DEF Streams

\* The totals replace what was counted.
LEMMA BedrockEndKeeps == BedrockEnd => UsageInv'
<1> SUFFICES ASSUME BedrockEnd PROVE UsageInv'
  OBVIOUS
<1>1. /\ source' = "bedrock-ended" /\ spent' = spent
      /\ meter' = [input |-> spent.input, output |-> spent.output]
  BY DEF BedrockEnd, ProcessChunk
<1>2. MeterFollows'
  BY <1>1 DEF MeterFollows
<1> QED BY <1>1, <1>2, OfAStream DEF Streams

\* Nothing changes when no variable does.
LEMMA UsageStutters == UsageInv /\ UNCHANGED usageVars => UsageInv'
BY DEF UsageInv, usageVars, MeterFollows, TokensAreChargedOnce, EachTokenInOneBucket,
       FullPriceLeavesOutTheCache, ChargedAtItsRate, StreamEndsWithWhatWasSpent

\* Each token a provider reports, at once or in a stream, lands in one bucket and is charged
\* once and at its rate, for any number of tokens (openai_usage.py, openai.py, gemini.py,
\* anthropic.py, bedrock.py, perplexity.py, litellm.py, pricing.py).
THEOREM EachTokenIsChargedOnce == UsageSpec => []TokensAreChargedOnce
<1>1. UsageInv /\ [UsageNext]_usageVars => UsageInv'
  <2> SUFFICES ASSUME UsageInv, UsageNext \/ UNCHANGED usageVars PROVE UsageInv'
    OBVIOUS
  <2>1. ASSUME NEW c \in Catalogs, NEW t \in Truths, PriceAnswer(c, t) PROVE UsageInv'
    BY <2>1, PriceAnswerKeeps
  <2>2. ASSUME NEW input \in Counts, NEW five \in Counts, NEW hour \in Counts,
               MessageStart(input, five, hour)
        PROVE  UsageInv'
    BY <2>2, MessageStartKeeps
  <2>3. ASSUME NEW told \in SUBSET {"input", "write"}, MessageDelta(told) PROVE UsageInv'
    BY <2>3, MessageDeltaKeeps
  <2> QED BY <2>1, <2>2, <2>3, MeasureOpenAIKeeps, MeasureRealtimeKeeps, MeasureGeminiKeeps,
             MeasureIterationsKeeps, BedrockStartKeeps, BedrockDeltaKeeps, BedrockEndKeeps,
             UsageStutters, Zenon
          DEF UsageNext
<1>2. UsageInv => TokensAreChargedOnce
  BY DEF UsageInv
<1> QED BY UsageInitially, <1>1, <1>2, PTL DEF UsageSpec
-----------------------------------------------------------------------------
(***************************************************************************)
(* UsageObservers: any numbers in an exchange, and paths of any length.    *)
(***************************************************************************)
\* A rule asks for one quantity at most, and for one charge, each of one of the kinds.
RuleKinds ==
  [metric : {"fixed", "characters", "list", "paired", "header", "items", "path"},
   least : BOOLEAN, cost : {"none", "usd", "sum", "minor"},
   factor : {"none", "count", "path"}, records : SUBSET {"response.record", "header.record"},
   resources : SUBSET {"response.resource", "request.resource", "query.resource"},
   facts : SUBSET {"request.fact", "response.fact"}, header : HeaderTests]

Asking(rule, test) == [rule EXCEPT !.header = test]

\* The rules of an exchange: one, and maybe a plain one before it.
AreRules(rule, test) ==
  \/ rules = <<Asking(rule, test)>>
  \/ rules = <<Asking(PlainRule, test), Asking(rule, test)>>

\* Either they read places of the exchange, or the header that they ask for.
ReadPlaces(rule, test) ==
  /\ test = "none"
  /\ exchange \in [found : [Reads(rule) \ ListPlaces -> Found],
                   lists : [Reads(rule) \intersect ListPlaces -> ListsFound]]
ReadHeader(rule, test) ==
  /\ rule = PlainRule /\ test \in HeaderTests \ {"none"}
  /\ exchange \in [found : [{"header.fact"} -> {Missing, 1, 2}], lists : {<<>>}]

ExchangeIsRuled ==
  \E rule \in Rules, test \in HeaderTests :
    AreRules(rule, test) /\ (ReadPlaces(rule, test) \/ ReadHeader(rule, test))

ObserversInv ==
  /\ ExchangeIsRuled /\ route \in Routes
  /\ stage \in {"kept", "observed"} => kept = Keep(rules, exchange)
  /\ stage = "observed" => observations = [i \in DOMAIN rules |-> Observe(rules[i], kept)]
-----------------------------------------------------------------------------
LEMMA RulesHaveKinds ==
  ASSUME NEW rule \in Rules
  PROVE  rule \in RuleKinds
<1>1. PlainRule \in RuleKinds
  BY DEF PlainRule, RuleKinds, HeaderTests
<1>2. CASE \E c \in {"none", "usd"} : \E m \in DOMAIN MetricPlaces :
             rule = [PlainRule EXCEPT !.metric = m, !.cost = c, !.least = (m = "characters")]
  BY <1>2 DEF PlainRule, RuleKinds, HeaderTests, MetricPlaces
<1>3. CASE \E f \in DOMAIN FactorPlaces : \E c \in DOMAIN CostPlaces :
             rule = [PlainRule EXCEPT !.cost = c, !.factor = f]
  BY <1>3 DEF PlainRule, RuleKinds, HeaderTests, CostPlaces, FactorPlaces
<1>4. CASE \E r \in SUBSET {"response.resource", "request.resource", "query.resource"} :
             rule = [PlainRule EXCEPT !.resources = r]
  BY <1>4 DEF PlainRule, RuleKinds, HeaderTests
<1>5. CASE \E f \in {{}, {"request.fact"}, {"response.fact"}} :
             rule = [PlainRule EXCEPT !.records = {"response.record", "header.record"},
                                      !.facts = f]
  <2>1. PICK f \in {{}, {"request.fact"}, {"response.fact"}} :
          rule = [PlainRule EXCEPT !.records = {"response.record", "header.record"},
                                   !.facts = f]
    BY <1>5
  <2>2. f \in SUBSET {"request.fact", "response.fact"}
    OBVIOUS
  <2> QED BY <1>1, <2>1, <2>2 DEF RuleKinds
<1> DEFINE metering(c) == {[PlainRule EXCEPT !.metric = m, !.cost = c,
                                              !.least = (m = "characters")] :
                              m \in DOMAIN MetricPlaces}
           charging(f) == {[PlainRule EXCEPT !.cost = c, !.factor = f] : c \in DOMAIN CostPlaces}
           naming == {[PlainRule EXCEPT !.resources = r] :
                        r \in SUBSET {"response.resource", "request.resource",
                                      "query.resource"}}
           noting == {[PlainRule EXCEPT !.records = {"response.record", "header.record"},
                                        !.facts = f] :
                        f \in {{}, {"request.fact"}, {"response.fact"}}}
<1>6. ASSUME NEW c \in {"none", "usd"}, rule \in metering(c) PROVE rule \in RuleKinds
  <2>1. \E m \in DOMAIN MetricPlaces :
          rule = [PlainRule EXCEPT !.metric = m, !.cost = c, !.least = (m = "characters")]
    BY <1>6, Zenon
  <2> QED BY <1>2, <2>1, Zenon
<1>7. ASSUME NEW f \in DOMAIN FactorPlaces, rule \in charging(f) PROVE rule \in RuleKinds
  BY <1>3, <1>7
<1>8. CASE rule \in naming
  BY <1>4, <1>8
<1>9. CASE rule \in noting
  BY <1>5, <1>9
<1> DEFINE costs == {"none", "usd"}
           metered == (UNION {metering(c) : c \in costs})
           charged == (UNION {charging(f) : f \in DOMAIN FactorPlaces})
<1>10. Rules = metered \union charged \union naming \union noting
  BY DEF Rules
<1> HIDE DEF metering, charging, naming, noting, costs
<1>11. rule \in metered => \E c \in costs : rule \in metering(c)
  BY Zenon
<1>12. rule \in charged => \E f \in DOMAIN FactorPlaces : rule \in charging(f)
  BY Zenon
<1> HIDE DEF metered, charged
<1>13. rule \in metered \/ rule \in charged \/ rule \in naming \/ rule \in noting
  BY <1>10
<1> QED BY <1>6, <1>7, <1>8, <1>9, <1>11, <1>12, <1>13, Zenon DEF costs

LEMMA AskingIsOf ==
  ASSUME NEW rule \in RuleKinds, NEW test \in HeaderTests
  PROVE  /\ Asking(rule, test) \in RuleKinds /\ Asking(rule, test).header = test
         /\ Reads(Asking(rule, test)) = Reads(rule)
         /\ Asking(rule, test).facts = rule.facts
<1>1. /\ Asking(rule, test) \in RuleKinds /\ Asking(rule, test).header = test
      /\ Asking(rule, test).metric = rule.metric /\ Asking(rule, test).cost = rule.cost
      /\ Asking(rule, test).factor = rule.factor /\ Asking(rule, test).records = rule.records
      /\ Asking(rule, test).resources = rule.resources
      /\ Asking(rule, test).facts = rule.facts
  BY DEF Asking, RuleKinds
<1> QED BY <1>1 DEF Reads

\* A rule that reads a place of a body says that it needs the body.
LEMMA NeedsWhatItReads ==
  ASSUME NEW rule \in RuleKinds, NEW place \in Reads(rule)
  PROVE  /\ place \in RequestPlaces => NeedsRequestBody(rule)
         /\ place \in ResponsePlaces => NeedsResponseBody(rule)
<1>1. CASE place \in MetricPlaces[rule.metric]
  BY <1>1 DEF RuleKinds, MetricPlaces, RequestPlaces, ResponsePlaces, NeedsRequestBody,
              NeedsResponseBody
<1>2. CASE place \in CostPlaces[rule.cost]
  BY <1>2 DEF RuleKinds, CostPlaces, RequestPlaces, ResponsePlaces, NeedsResponseBody
<1>3. CASE place \in FactorPlaces[rule.factor]
  BY <1>3 DEF RuleKinds, FactorPlaces, RequestPlaces, ResponsePlaces, NeedsResponseBody
<1>4. CASE place \in rule.records
  <2>1. place \notin RequestPlaces
    BY <1>4 DEF RuleKinds, RequestPlaces
  <2> QED BY <1>4, <2>1 DEF NeedsResponseBody
<1>5. CASE place \in rule.resources \union rule.facts
  BY <1>5 DEF NeedsRequestBody, NeedsResponseBody
<1> QED BY <1>1, <1>2, <1>3, <1>4, <1>5 DEF Reads

LEMMA ReadsNoTest ==
  ASSUME NEW rule \in RuleKinds
  PROVE  "header.fact" \notin Reads(rule)
BY DEF Reads, RuleKinds, MetricPlaces, CostPlaces, FactorPlaces

LEMMA LastRuleIs ==
  ASSUME NEW rule, NEW test, AreRules(rule, test)
  PROVE  /\ DOMAIN rules \in {{1}, {1, 2}}
         /\ \E i \in DOMAIN rules : rules[i] = Asking(rule, test)
         /\ \A i \in DOMAIN rules : rules[i] = Asking(rule, test)
                                    \/ rules[i] = Asking(PlainRule, test)
<1>1. CASE rules = <<Asking(rule, test)>>
  BY <1>1
<1>2. CASE rules = <<Asking(PlainRule, test), Asking(rule, test)>>
  BY <1>2
<1> QED BY <1>1, <1>2 DEF AreRules
-----------------------------------------------------------------------------
\* Of an exchange with the places that a rule reads everything is kept.
LEMMA AllIsKept ==
  ASSUME NEW rule \in RuleKinds, NEW test \in HeaderTests, AreRules(rule, test),
         ReadPlaces(rule, test)
  PROVE  Keep(rules, exchange) = exchange
<1>1. PICK i \in DOMAIN rules : rules[i] = Asking(rule, test)
  BY LastRuleIs
<1>2. /\ rules[i] \in RuleKinds /\ Reads(rules[i]) = Reads(rule)
  BY <1>1, AskingIsOf
<1>3. \A place \in Reads(rule) :
        /\ place \in RequestPlaces => \E k \in DOMAIN rules : NeedsRequestBody(rules[k])
        /\ place \in ResponsePlaces => \E k \in DOMAIN rules : NeedsResponseBody(rules[k])
  BY <1>2, NeedsWhatItReads
<1>4. PICK found \in [Reads(rule) \ ListPlaces -> Found],
           lists \in [Reads(rule) \intersect ListPlaces -> ListsFound] :
        exchange = [found |-> found, lists |-> lists]
  BY DEF ReadPlaces
<1>5. exchange.found = found /\ exchange.lists = lists
  BY <1>4
<1> DEFINE needed(place) ==
      /\ place \in RequestPlaces => \E k \in DOMAIN rules : NeedsRequestBody(rules[k])
      /\ place \in ResponsePlaces => \E k \in DOMAIN rules : NeedsResponseBody(rules[k])
<1>6. {p \in DOMAIN found : needed(p)} = DOMAIN found
  BY <1>3
<1>7. {p \in DOMAIN lists : needed(p)} = DOMAIN lists
  BY <1>3
<1>8. Keep(rules, exchange) =
        [found |-> [place \in {p \in DOMAIN found : needed(p)} |->
                      IF place = "header.fact"
                      THEN SelectRequestHeaders(rules, found[place]) ELSE found[place]],
         lists |-> [place \in {p \in DOMAIN lists : needed(p)} |-> lists[place]]]
  BY <1>5 DEF Keep
<1> HIDE DEF needed
<1>9. "header.fact" \notin DOMAIN found
  BY ReadsNoTest
<1>10. [place \in {p \in DOMAIN found : needed(p)} |->
          IF place = "header.fact"
          THEN SelectRequestHeaders(rules, found[place]) ELSE found[place]] = found
  BY <1>6, <1>9
<1>11. [place \in {p \in DOMAIN lists : needed(p)} |-> lists[place]] = lists
  BY <1>7
<1> QED BY <1>4, <1>8, <1>10, <1>11

\* Of a header that is only tested the test is kept.
LEMMA TestIsKept ==
  ASSUME NEW test \in HeaderTests \ {"none"}, NEW raw \in {Missing, 1, 2},
         AreRules(PlainRule, test)
  PROVE  HeaderHolds(test, SelectRequestHeaders(rules, raw)) <=> HeaderHolds(test, raw)
<1>1. \A i \in DOMAIN rules : rules[i].header = test
  BY LastRuleIs DEF Asking, PlainRule
<1>2. DOMAIN rules \in {{1}, {1, 2}}
  BY LastRuleIs
<1>3. CASE Selects(raw, test)
  <2>1. {i \in DOMAIN rules : Selects(raw, rules[i].header)} = DOMAIN rules
    BY <1>1, <1>3
  <2>2. \E i \in DOMAIN rules : \A j \in DOMAIN rules : i >= j
    BY <1>2
  <2>3. Max(DOMAIN rules) \in DOMAIN rules
    BY <2>2 DEF Max
  <2>4. SelectRequestHeaders(rules, raw) = Selected(raw, test)
    BY <1>1, <2>1, <2>3 DEF SelectRequestHeaders
  <2> QED BY <1>3, <2>4
          DEF Selects, Selected, HeaderHolds, HeaderTests, Missing, Marked, Prefixed
<1>4. CASE ~Selects(raw, test)
  <2>1. {i \in DOMAIN rules : Selects(raw, rules[i].header)} = {}
    BY <1>1, <1>4
  <2>2. SelectRequestHeaders(rules, raw) = Missing
    BY <2>1 DEF SelectRequestHeaders
  <2> QED BY <1>4, <2>2
          DEF Selects, HeaderHolds, HeaderTests, Missing, Marked, Prefixed
<1> QED BY <1>3, <1>4

\* A plain rule sees nothing but the header.
LEMMA PlainObservation ==
  ASSUME NEW test \in HeaderTests, NEW exch, DOMAIN exch.found = {"header.fact"}
  PROVE  Observe(Asking(PlainRule, test), exch) =
           IF HeaderHolds(test, exch.found["header.fact"])
           THEN {[quantity |-> 1, cost |-> 0, record |-> Missing, resource |-> Missing]}
           ELSE {}
<1> DEFINE rule == Asking(PlainRule, test)
<1>1. /\ rule.metric = "fixed" /\ rule.cost = "none" /\ rule.factor = "none"
      /\ rule.facts = {} /\ rule.header = test
  BY DEF Asking, PlainRule
<1> HIDE DEF rule
<1>2. Quantity(rule, exch) = 1 /\ ProviderCost(rule, exch) = 0
      /\ Multiplied(rule, exch, 1) = 1
  BY <1>1 DEF Quantity, ProviderCost, Multiplied
<1>3. \A p : p # "header.fact" => At(exch, p) = -2
  BY DEF At, Missing
<1>4. RecordId(exch) = Missing
  <2> DEFINE places == <<"response.record", "header.record">>
  <2>1. \A i \in DOMAIN places : At(exch, places[i]) = -2
    BY <1>3
  <2>2. {i \in DOMAIN places : At(exch, places[i]) > 0} = {}
    BY <2>1
  <2> QED BY <2>2 DEF RecordId, FirstOf
<1>5. Resource(exch) = Missing
  <2> DEFINE places == <<"response.resource", "request.resource", "query.resource">>
  <2>1. \A i \in DOMAIN places : At(exch, places[i]) = -2
    BY <1>3
  <2>2. {i \in DOMAIN places : At(exch, places[i]) > 0} = {}
    BY <2>1
  <2>3. FirstOf(exch, places) = Missing
    BY <2>2 DEF FirstOf
  <2>4. At(exch, "request.resource") = -2
    BY <1>3
  <2> QED BY <2>3, <2>4 DEF Resource
<1>6. Eligible(rule, exch) <=> HeaderHolds(test, exch.found["header.fact"])
  BY <1>1 DEF Eligible, At
<1>7. Missing # Refused
  BY DEF Missing, Refused
<1>8. Observe(rule, exch) =
        IF HeaderHolds(test, exch.found["header.fact"])
        THEN {[quantity |-> 1, cost |-> 0, record |-> Missing, resource |-> Missing]}
        ELSE {}
  BY <1>2, <1>4, <1>5, <1>6, <1>7 DEF Observe
<1> QED BY <1>8 DEF rule

LEMMA KeptIsEnough ==
  ASSUME ExchangeIsRuled, NEW i \in DOMAIN rules
  PROVE  Observe(rules[i], Keep(rules, exchange)) = Observe(rules[i], exchange)
<1>1. PICK rule \in Rules, test \in HeaderTests :
        AreRules(rule, test) /\ (ReadPlaces(rule, test) \/ ReadHeader(rule, test))
  BY DEF ExchangeIsRuled
<1>2. CASE ReadPlaces(rule, test)
  BY <1>1, <1>2, RulesHaveKinds, AllIsKept
<1>3. CASE ReadHeader(rule, test)
  <2>1. rule = PlainRule /\ test \in HeaderTests \ {"none"} /\ AreRules(PlainRule, test)
    BY <1>1, <1>3 DEF ReadHeader
  <2>2. rules[i] = Asking(PlainRule, test)
    BY <2>1, LastRuleIs
  <2>3. PICK found \in [{"header.fact"} -> {Missing, 1, 2}] :
          exchange = [found |-> found, lists |-> <<>>]
    BY <1>3 DEF ReadHeader
  <2> DEFINE keep == Keep(rules, exchange)
             raw == found["header.fact"]
  <2>4. raw \in {Missing, 1, 2} /\ DOMAIN found = {"header.fact"}
    BY <2>3
  <2>5. DOMAIN keep.found = {"header.fact"}
        /\ keep.found["header.fact"] = SelectRequestHeaders(rules, raw)
    BY <2>3, <2>4 DEF Keep, RequestPlaces, ResponsePlaces
  <2>6. exchange.found = found
    BY <2>3
  <2> HIDE DEF keep, raw
  <2>7. HeaderHolds(test, SelectRequestHeaders(rules, raw)) <=> HeaderHolds(test, raw)
    BY <2>1, <2>4, TestIsKept
  <2>8. Observe(Asking(PlainRule, test), keep) = Observe(Asking(PlainRule, test), exchange)
    BY <2>1, <2>4, <2>5, <2>6, <2>7, PlainObservation DEF raw
  <2> QED BY <2>2, <2>8 DEF keep
<1> QED BY <1>1, <1>2, <1>3
-----------------------------------------------------------------------------
\* One value that can not be read takes the charge away or leaves it.
LEMMA ChargeOfDamaged ==
  ASSUME NEW rule, rule.cost \in {"none", "usd", "sum", "minor"},
         NEW found, NEW lists, NEW exch, exch = [found |-> found, lists |-> lists],
         NEW damaged \in Damages(exch),
         ProviderCost(rule, exch) >= 0, ProviderCost(rule, damaged) >= 0
  PROVE  ProviderCost(rule, exch) = ProviderCost(rule, damaged)
<1>1. exch.found = found /\ exch.lists = lists
  OBVIOUS
<1>2. CASE \E place \in DOMAIN exch.found : damaged = [exch EXCEPT !.found[place] = Bad]
  <2>1. PICK place \in DOMAIN found : damaged = [exch EXCEPT !.found[place] = Bad]
    BY <1>1, <1>2
  <2>2. damaged.found = [found EXCEPT ![place] = Bad] /\ damaged.lists = lists
    BY <1>1, <2>1
  <2>3. \A p : At(damaged, p) = At(exch, p) \/ At(damaged, p) = -1
    BY <1>1, <2>2 DEF At, Bad
  <2>4. \A p : AtList(damaged, p) = AtList(exch, p)
    BY <1>1, <2>2 DEF AtList
  <2>5. CASE rule.cost = "none"
    BY <2>5 DEF ProviderCost
  <2>6. CASE rule.cost = "usd"
    BY <2>3, <2>6 DEF ProviderCost
  <2>7. CASE rule.cost = "sum"
    BY <2>4, <2>7 DEF ProviderCost
  <2>8. CASE rule.cost = "minor"
    BY <2>3, <2>8 DEF ProviderCost, Refused
  <2> QED BY <2>5, <2>6, <2>7, <2>8
<1>3. CASE \E list \in {<<Missing>>, <<>>, <<1, Bad>>} : \E place \in DOMAIN exch.lists :
             damaged = [exch EXCEPT !.lists[place] = list]
  <2>1. PICK list \in {<<Missing>>, <<>>, <<1, Bad>>}, place \in DOMAIN lists :
          damaged = [exch EXCEPT !.lists[place] = list]
    BY <1>1, <1>3
  <2>2. damaged.lists = [lists EXCEPT ![place] = list] /\ damaged.found = found
    BY <1>1, <2>1
  <2>3. \A p : At(damaged, p) = At(exch, p)
    BY <1>1, <2>2 DEF At
  <2>4. \A p : AtList(damaged, p) \in {AtList(exch, p), <<Missing>>, <<>>, <<1, Bad>>}
    BY <1>1, <2>1, <2>2 DEF AtList
  <2>5. ~AllFound(<<Missing>>) /\ ~AllFound(<<1, Bad>>)
    BY DEF AllFound, Missing, Bad
  <2>6. CASE rule.cost \in {"none", "usd", "minor"}
    BY <2>3, <2>6 DEF ProviderCost
  <2>7. CASE rule.cost = "sum"
    <3>1. AtList(damaged, "response.costs") = AtList(exch, "response.costs")
      BY <2>4, <2>5, <2>7 DEF ProviderCost, Refused
    <3> QED BY <2>7, <3>1 DEF ProviderCost
  <2> QED BY <2>6, <2>7
<1> QED BY <1>2, <1>3 DEF Damages

LEMMA CostOfObservation ==
  ASSUME NEW rule, NEW exch, NEW o \in Observe(rule, exch)
  PROVE  o.cost = ProviderCost(rule, exch) /\ ProviderCost(rule, exch) >= 0
BY DEF Observe

LEMMA ChargesAreWhole ==
  ASSUME ExchangeIsRuled, NEW i \in DOMAIN rules, NEW damaged \in Damages(exchange),
         NEW o \in Observe(rules[i], exchange), NEW p \in Observe(rules[i], damaged)
  PROVE  o.cost = p.cost
<1>1. PICK rule \in Rules, test \in HeaderTests :
        AreRules(rule, test) /\ (ReadPlaces(rule, test) \/ ReadHeader(rule, test))
  BY DEF ExchangeIsRuled
<1>2. rule \in RuleKinds /\ PlainRule \in RuleKinds
  <2>1. PlainRule \in RuleKinds
    BY DEF PlainRule, RuleKinds, HeaderTests
  <2> QED BY <2>1, RulesHaveKinds
<1>3. rules[i] \in RuleKinds
  BY <1>1, <1>2, LastRuleIs, AskingIsOf
<1>4. rules[i].cost \in {"none", "usd", "sum", "minor"}
  BY <1>3 DEF RuleKinds
<1>5. \E found, lists : exchange = [found |-> found, lists |-> lists]
  BY <1>1 DEF ReadPlaces, ReadHeader
<1> QED BY <1>4, <1>5, CostOfObservation, ChargeOfDamaged

\* A path of the endpoint, in whatever mode, has the segments before the first parameter.
LEMMA MatchedIsOwned ==
  ASSUME NEW path \in Paths, NEW endpoint \in Endpoints, NEW mode \in Modes,
         EndpointMatches(path, endpoint, mode)
  PROVE  EndpointBoundaryMatches(path, endpoint, mode)
<1>1. CASE mode = "exact"
  BY <1>1 DEF EndpointMatches, EndpointBoundaryMatches, SameSegment
<1>2. CASE mode = "prefix"
  BY <1>2 DEF EndpointMatches, EndpointBoundaryMatches
<1>3. CASE mode = "path_template"
  <2>1. Len(path) = Len(endpoint) /\ \A i \in DOMAIN path : endpoint[i] \in {path[i], "{id}"}
    BY <1>3 DEF EndpointMatches
  <2>2. /\ DOMAIN path = 1 .. Len(path) /\ DOMAIN endpoint = 1 .. Len(endpoint)
        /\ \A k \in DOMAIN endpoint : k \in Nat /\ 1 <= k
    <3>1. PICK n \in 0 .. PathDepth : path \in [1 .. n -> Segments \ {"{id}"}]
      BY DEF Paths
    <3>2. PICK m \in 0 .. PathDepth : endpoint \in [1 .. m -> Segments]
      BY DEF Endpoints
    <3>3. n \in Nat /\ m \in Nat
      BY ObserversAssumption
    <3>4. DOMAIN path = 1 .. n /\ Len(path) = n
      <4>1. path \in [1 .. n -> Segments]
        BY <3>1
      <4> HIDE DEF Segments
      <4> QED BY <3>3, <4>1
    <3>5. DOMAIN endpoint = 1 .. m /\ Len(endpoint) = m
      BY <3>2, <3>3
    <3> QED BY <3>3, <3>4, <3>5
  <2>3. \A n \in Nat : 1 <= n => n \in 1 .. n
    OBVIOUS
  <2> SUFFICES ASSUME NEW i \in DOMAIN endpoint, \A j \in 1 .. i : endpoint[j] # "{id}"
               PROVE  SameSegment(path, endpoint, i)
    BY <1>3 DEF EndpointBoundaryMatches
  <2>4. i \in DOMAIN path /\ i \in 1 .. i
    <3>1. DOMAIN path = DOMAIN endpoint
      BY <2>1, <2>2
    <3>2. i \in DOMAIN path
      BY <3>1, Zenon
    <3>3. i \in Nat /\ 1 <= i
      BY <2>2, Zenon
    <3>4. i \in 1 .. i
      BY <2>3, <3>3, Zenon
    <3> QED BY <3>2, <3>4
  <2>5. endpoint[i] # "{id}" /\ endpoint[i] \in {path[i], "{id}"}
    BY <2>1, <2>4
  <2> QED BY <2>4, <2>5 DEF SameSegment
<1> QED BY <1>1, <1>2, <1>3 DEF Modes
-----------------------------------------------------------------------------
LEMMA ObserversStart ==
  ASSUME ObserversInit
  PROVE  ObserversInv
<1>1. PICK rule \in Rules, test \in HeaderTests, more \in BOOLEAN :
        /\ test # "none" => rule = PlainRule
        /\ rules = IF more THEN <<Asking(PlainRule, test), Asking(rule, test)>>
                   ELSE <<Asking(rule, test)>>
        /\ exchange \in
             [found : [Reads(rule) \ ListPlaces -> Found],
              lists : [Reads(rule) \intersect ListPlaces -> ListsFound]]
             \union [found : [{"header.fact"} -> {Missing, 1, 2}], lists : {<<>>}]
        /\ test # "none" <=> "header.fact" \in DOMAIN exchange.found
        /\ route \in IF rule = PlainRule /\ test = "none" THEN Routes ELSE {Home}
  BY DEF ObserversInit, Asking
<1>2. stage = "sent"
  BY DEF ObserversInit
<1>3. AreRules(rule, test)
  <2>1. CASE more
    BY <1>1, <2>1 DEF AreRules
  <2>2. CASE ~more
    BY <1>1, <2>2 DEF AreRules
  <2> QED BY <2>1, <2>2
<1>4. ReadPlaces(rule, test) \/ ReadHeader(rule, test)
  <2>1. CASE exchange \in [found : [{"header.fact"} -> {Missing, 1, 2}], lists : {<<>>}]
    BY <1>1, <2>1 DEF ReadHeader
  <2>2. CASE exchange \in [found : [Reads(rule) \ ListPlaces -> Found],
                           lists : [Reads(rule) \intersect ListPlaces -> ListsFound]]
    <3>1. DOMAIN exchange.found = Reads(rule) \ ListPlaces
      BY <2>2
    <3>2. test = "none"
      BY <1>1, <3>1, RulesHaveKinds, ReadsNoTest
    <3> QED BY <2>2, <3>2 DEF ReadPlaces
  <2> QED BY <1>1, <2>1, <2>2
<1>5. route \in Routes
  <2>1. Home \in Routes
    <3>1. <<>> \in [1 .. 0 -> Segments] /\ <<>> \in [1 .. 0 -> Segments \ {"{id}"}]
      OBVIOUS
    <3>2. 0 \in 0 .. PathDepth
      BY ObserversAssumption
    <3>3. <<>> \in Paths /\ <<>> \in Endpoints
      BY <3>1, <3>2 DEF Paths, Endpoints
    <3> QED BY <3>3 DEF Home, Routes, Modes
  <2> QED BY <1>1, <2>1
<1> QED BY <1>2, <1>3, <1>4, <1>5 DEF ObserversInv, ExchangeIsRuled

(* Whatever numbers an exchange holds, and however many of its parts can   *)
(* not be read: the rules make of what the adapter keeps of it what they   *)
(* would make of the whole; one value that can not be read takes a charge  *)
(* away, and never changes it; and on a path of any length, an exchange    *)
(* that a rule is about is kept from the prices of the catalog             *)
(* (service_usage_observers.py observe, needs_request_body,                *)
(* select_request_headers, owns_endpoint_boundary).                        *)
THEOREM ObservationsStaySound == ObserversSpec => []ObservationsAreSound
<1>1. ASSUME ObserversInv, [ObserversNext]_observerVars PROVE ObserversInv'
  <2>1. CASE KeepFacts
    <3>1. ExchangeIsRuled' /\ route' \in Routes
      BY <1>1, <2>1 DEF KeepFacts, ObserversInv, ExchangeIsRuled, AreRules, ReadPlaces,
                        ReadHeader
    <3>2. kept' = Keep(rules', exchange') /\ stage' = "kept"
      BY <2>1 DEF KeepFacts
    <3>3. Keep(rules, exchange)' = Keep(rules', exchange')
      BY DEF Keep, SelectRequestHeaders
    <3> QED BY <3>1, <3>2, <3>3 DEF ObserversInv
  <2>2. CASE ObserveKept
    BY <1>1, <2>2 DEF ObserveKept, ObserversInv, ExchangeIsRuled, AreRules, ReadPlaces,
                      ReadHeader
  <2>3. CASE UNCHANGED observerVars
    BY <1>1, <2>3 DEF observerVars, ObserversInv, ExchangeIsRuled, AreRules, ReadPlaces,
                      ReadHeader
  <2> QED BY <1>1, <2>1, <2>2, <2>3 DEF ObserversNext
<1>2. ASSUME ObserversInv PROVE ObservationsAreSound
  <2>1. WhatIsKeptIsEnough
    BY <1>2, KeptIsEnough DEF WhatIsKeptIsEnough, ObserversInv
  <2>2. ChargeIsWholeOrAbsent
    <3> SUFFICES ASSUME stage = "observed", NEW i \in DOMAIN rules,
                        NEW damaged \in Damages(exchange), NEW o \in observations[i],
                        NEW p \in Observe(rules[i], damaged)
                 PROVE  o.cost = p.cost
      BY DEF ChargeIsWholeOrAbsent
    <3>1. observations[i] = Observe(rules[i], exchange)
      BY <2>1 DEF WhatIsKeptIsEnough
    <3> QED BY <1>2, <3>1, ChargesAreWhole DEF ObserversInv
  <2>3. MatchedRouteIsOwned
    <3>1. route.path \in Paths /\ route.endpoint \in Endpoints /\ route.mode \in Modes
      BY <1>2 DEF ObserversInv, Routes
    <3> QED BY <3>1, MatchedIsOwned DEF MatchedRouteIsOwned
  <2> QED BY <2>1, <2>2, <2>3 DEF ObservationsAreSound
<1> QED BY <1>1, <1>2, ObserversStart, PTL DEF ObserversSpec
===============================================================================
