------------------------------ MODULE SetSums -------------------------------
(***************************************************************************)
(* Sums over finite sets, as the folds of the community modules compute    *)
(* them, and what the proofs about counters need to know of them: a sum    *)
(* depends on the weights of its members only, and a member that joins or  *)
(* leaves changes it by its weight.                                        *)
(*                                                                         *)
(* The inductions are over sets, which need no operator as a parameter:    *)
(* the smallest set of a set of counterexamples is a contradiction.        *)
(***************************************************************************)
EXTENDS Integers, FiniteSets, FiniteSetTheorems, TLAPS

(* One step of the fold: any member, and the rest.                         *)
Picked(s) == CHOOSE x \in s : TRUE

SumStep(g, s, w) == IF s = {} THEN 0 ELSE w[Picked(s)] + g[s \ {Picked(s)}]

Sums(g, S, w) == g = [s \in SUBSET S |-> SumStep(g, s, w)]

SumOver(S, w) == (CHOOSE g : Sums(g, S, w))[S]

(* A set of naturals that is closed under succession holds them all.       *)
LEMMA NaturalsReached ==
    ASSUME NEW T, 0 \in T, \A n \in Nat : n \in T => n + 1 \in T
    PROVE  Nat \subseteq T
<1> SUFFICES ASSUME NEW k \in Nat \ T PROVE FALSE
    OBVIOUS
<1> DEFINE R == OpToRel(<, Nat)
<1>1. PICK n \in Nat \ T : \A m \in Nat \ T : <<m, n>> \notin R
    <2>1. Nat \ T \subseteq Nat /\ Nat \ T # {} /\ IsWellFoundedOn(R, Nat)
        BY NatLessThanWellFounded, Zenon
    <2> HIDE DEF R
    <2>2. QED
        BY <2>1, WFMin, Zenon
<1>2. \A m \in Nat \ T : ~(m < n)
    BY <1>1 DEF OpToRel
<1>3. n - 1 \in Nat /\ n - 1 \in T
    BY <1>2
<1>4. QED
    BY <1>3

(* Among subsets of a finite set one contains no other.                    *)
LEMMA SmallestSubset ==
    ASSUME NEW S, IsFiniteSet(S), NEW T, T \subseteq SUBSET S, T # {}
    PROVE  \E t \in T : \A u \in T : u \subseteq t => u = t
<1>1. IsWellFoundedOn(StrictSubsetOrdering(S), SUBSET S)
    BY FS_FiniteSubsetsOfFinite, FS_StrictSubsetOrderingWellFounded
<1>2. PICK t \in T : \A u \in T : <<u, t>> \notin StrictSubsetOrdering(S)
    BY <1>1, WFMin, Zenon
<1>3. QED
    BY <1>2 DEF StrictSubsetOrdering

(* A member that is picked leaves a smaller set.                           *)
LEMMA PickedLeaves ==
    ASSUME NEW S, IsFiniteSet(S), NEW s \in SUBSET S, s # {}
    PROVE  /\ Picked(s) \in s
           /\ s \ {Picked(s)} \in SUBSET S
           /\ Cardinality(s) \in Nat
           /\ Cardinality(s \ {Picked(s)}) = Cardinality(s) - 1
<1>1. Picked(s) \in s
    BY DEF Picked
<1>2. IsFiniteSet(s) /\ Cardinality(s) \in Nat
    BY FS_Subset, FS_CardinalityType
<1>3. QED
    BY <1>1, <1>2, FS_RemoveElement

(* The recursion has a solution ...                                        *)
LEMMA SumExists ==
    ASSUME NEW S, IsFiniteSet(S), NEW w
    PROVE  \E g : Sums(g, S, w)
<1> DEFINE Small(n) == {s \in SUBSET S : Cardinality(s) <= n}
           Reached == {n \in Nat :
                         \E g : g = [s \in Small(n) |-> SumStep(g, s, w)]}
<1>1. 0 \in Reached
    <2> DEFINE g == [s \in Small(0) |-> 0]
    <2>1. \A s \in Small(0) : s = {}
        BY FS_Subset, FS_EmptySet, FS_CardinalityType
    <2>2. g = [s \in Small(0) |-> SumStep(g, s, w)]
        BY <2>1 DEF SumStep
    <2>3. QED
        BY <2>2
<1>2. ASSUME NEW n \in Nat, n \in Reached PROVE n + 1 \in Reached
    <2> PICK g : g = [s \in Small(n) |-> SumStep(g, s, w)]
        BY <1>2
    <2> DEFINE h == [s \in Small(n + 1) |-> SumStep(g, s, w)]
    <2>1. \A s \in Small(n) : s \in Small(n + 1) /\ h[s] = g[s]
        <3>1. \A s \in Small(n) : s \in Small(n + 1)
            BY FS_Subset, FS_CardinalityType
        <3>2. QED
            BY <3>1
    <2>2. ASSUME NEW s \in Small(n + 1)
          PROVE  SumStep(h, s, w) = SumStep(g, s, w)
        <3>1. CASE s = {}
            BY <3>1 DEF SumStep
        <3>2. CASE s # {}
            <4>1. s \ {Picked(s)} \in Small(n)
                BY <3>2, PickedLeaves
            <4>2. QED
                BY <2>1, <4>1 DEF SumStep
        <3>3. QED
            BY <3>1, <3>2
    <2>3. h = [s \in Small(n + 1) |-> SumStep(h, s, w)]
        BY <2>2
    <2>4. \E f : f = [s \in Small(n + 1) |-> SumStep(f, s, w)]
        <3> HIDE DEF h, Small
        <3>1. QED
            BY <2>3, Zenon
    <2>5. n + 1 \in Nat
        OBVIOUS
    <2> HIDE DEF Small
    <2>6. QED
        BY <2>4, <2>5, Zenon
<1>3. Cardinality(S) \in Reached
    <2> HIDE DEF Reached
    <2>1. Nat \subseteq Reached
        BY <1>1, <1>2, NaturalsReached
    <2>2. QED
        BY <2>1, FS_CardinalityType
<1>4. Small(Cardinality(S)) = SUBSET S
    BY FS_Subset
<1>5. QED
    BY <1>3, <1>4 DEF Sums

(* ... which is what SumOver takes.                                        *)
LEMMA SumIsSum ==
    ASSUME NEW S, IsFiniteSet(S), NEW w
    PROVE  \E g : Sums(g, S, w) /\ SumOver(S, w) = g[S]
<1> DEFINE g == CHOOSE g : Sums(g, S, w)
<1>1. Sums(g, S, w)
    BY SumExists
<1>2. QED
    BY <1>1 DEF SumOver

(* Solutions agree wherever their weights do.                              *)
LEMMA SumUnique ==
    ASSUME NEW S, NEW T, S \subseteq T, IsFiniteSet(S),
           NEW w, NEW v, \A x \in S : w[x] = v[x],
           NEW g, Sums(g, S, w), NEW h, Sums(h, T, v)
    PROVE  \A s \in SUBSET S : g[s] = h[s]
<1> DEFINE Bad == {s \in SUBSET S : g[s] # h[s]}
<1> SUFFICES ASSUME Bad # {} PROVE FALSE
    OBVIOUS
<1>1. PICK s \in Bad : \A u \in Bad : u \subseteq s => u = s
    <2>1. Bad \subseteq SUBSET S
        OBVIOUS
    <2> HIDE DEF Bad
    <2>2. QED
        BY <2>1, SmallestSubset
<1>2. g[s] = SumStep(g, s, w) /\ h[s] = SumStep(h, s, v)
    BY DEF Sums
<1>3. CASE s = {}
    BY <1>2, <1>3 DEF SumStep
<1>4. CASE s # {}
    <2>1. Picked(s) \in s /\ s \ {Picked(s)} \in SUBSET S
        BY <1>4, PickedLeaves
    <2>2. g[s \ {Picked(s)}] = h[s \ {Picked(s)}]
        BY <1>1, <2>1
    <2>3. w[Picked(s)] = v[Picked(s)]
        BY <2>1
    <2>4. QED
        BY <1>2, <1>4, <2>2, <2>3 DEF SumStep
<1>5. QED
    BY <1>3, <1>4

(* Sums of naturals are naturals.                                          *)
LEMMA SumNatural ==
    ASSUME NEW S, IsFiniteSet(S), NEW w, \A x \in S : w[x] \in Nat,
           NEW g, Sums(g, S, w)
    PROVE  \A s \in SUBSET S : g[s] \in Nat
<1> DEFINE Bad == {s \in SUBSET S : g[s] \notin Nat}
<1> SUFFICES ASSUME Bad # {} PROVE FALSE
    OBVIOUS
<1>1. PICK s \in Bad : \A u \in Bad : u \subseteq s => u = s
    <2>1. Bad \subseteq SUBSET S
        OBVIOUS
    <2> HIDE DEF Bad
    <2>2. QED
        BY <2>1, SmallestSubset
<1>2. g[s] = SumStep(g, s, w)
    BY DEF Sums
<1>3. CASE s = {}
    BY <1>2, <1>3 DEF SumStep
<1>4. CASE s # {}
    <2>1. Picked(s) \in s /\ s \ {Picked(s)} \in SUBSET S
        BY <1>4, PickedLeaves
    <2>2. g[s \ {Picked(s)}] \in Nat
        BY <1>1, <2>1
    <2>3. w[Picked(s)] \in Nat
        BY <2>1
    <2>4. QED
        BY <1>2, <1>4, <2>2, <2>3 DEF SumStep
<1>5. QED
    BY <1>3, <1>4

(* The order in which members are picked does not matter.                  *)
LEMMA SumWithout ==
    ASSUME NEW S, IsFiniteSet(S), NEW w, \A x \in S : w[x] \in Nat,
           NEW g, Sums(g, S, w)
    PROVE  \A s \in SUBSET S : \A x \in s : g[s] = w[x] + g[s \ {x}]
<1> DEFINE Bad == {s \in SUBSET S : \E x \in s : g[s] # w[x] + g[s \ {x}]}
<1> SUFFICES ASSUME Bad # {} PROVE FALSE
    OBVIOUS
<1>1. PICK s \in Bad : \A u \in Bad : u \subseteq s => u = s
    <2>1. Bad \subseteq SUBSET S
        OBVIOUS
    <2> HIDE DEF Bad
    <2>2. QED
        BY <2>1, SmallestSubset
<1>2. PICK x \in s : g[s] # w[x] + g[s \ {x}]
    OBVIOUS
<1>3. PICK y \in s : y = Picked(s)
    BY <1>2, PickedLeaves
<1>4. g[s] = w[y] + g[s \ {y}]
    BY <1>3 DEF Sums, SumStep
<1>5. x # y
    BY <1>2, <1>4
<1>6. /\ g[s \ {y}] = w[x] + g[(s \ {y}) \ {x}]
      /\ g[s \ {x}] = w[y] + g[(s \ {x}) \ {y}]
    <2>1. s \ {y} \in (SUBSET S) \ Bad /\ s \ {x} \in (SUBSET S) \ Bad
        BY <1>1
    <2>2. QED
        BY <1>5, <2>1
<1>7. (s \ {y}) \ {x} = (s \ {x}) \ {y}
    OBVIOUS
<1>8. /\ w[x] \in Nat /\ w[y] \in Nat
      /\ g[(s \ {x}) \ {y}] \in Nat
    BY SumNatural
<1>9. w[y] + g[s \ {y}] = w[x] + g[s \ {x}]
    <2> DEFINE rest == g[(s \ {x}) \ {y}]
    <2>1. g[s \ {y}] = w[x] + rest /\ g[s \ {x}] = w[y] + rest
        BY <1>6, <1>7, Zenon
    <2>2. w[x] \in Nat /\ w[y] \in Nat /\ rest \in Nat
        BY <1>8
    <2> HIDE DEF rest, Bad
    <2>3. QED
        BY <2>1, <2>2
<1>10. QED
    BY <1>2, <1>4, <1>9, Zenon

(* The sum over nothing.                                                   *)
LEMMA SumEmpty == ASSUME NEW w PROVE SumOver({}, w) = 0
BY SumIsSum, FS_EmptySet DEF Sums, SumStep

(* Sums of naturals are naturals, and depend on their members only.        *)
LEMMA SumTyped ==
    ASSUME NEW S, IsFiniteSet(S), NEW w, \A x \in S : w[x] \in Nat
    PROVE  SumOver(S, w) \in Nat
BY SumIsSum, SumNatural

LEMMA SumSame ==
    ASSUME NEW S, IsFiniteSet(S), NEW w, NEW v, \A x \in S : w[x] = v[x]
    PROVE  SumOver(S, w) = SumOver(S, v)
<1>1. PICK g : Sums(g, S, w) /\ SumOver(S, w) = g[S]
    BY SumIsSum
<1>2. PICK h : Sums(h, S, v) /\ SumOver(S, v) = h[S]
    BY SumIsSum
<1>3. \A s \in SUBSET S : g[s] = h[s]
    <2>1. S \subseteq S
        OBVIOUS
    <2>2. QED
        BY <1>1, <1>2, <2>1, SumUnique
<1>4. QED
    BY <1>1, <1>2, <1>3

(* A member that leaves takes its weight with it.                          *)
LEMMA SumRemove ==
    ASSUME NEW S, IsFiniteSet(S), NEW w, \A x \in S : w[x] \in Nat,
           NEW x \in S
    PROVE  SumOver(S, w) = w[x] + SumOver(S \ {x}, w)
<1>1. PICK g : Sums(g, S, w) /\ SumOver(S, w) = g[S]
    BY SumIsSum
<1>2. IsFiniteSet(S \ {x})
    BY FS_RemoveElement
<1>3. PICK h : Sums(h, S \ {x}, w) /\ SumOver(S \ {x}, w) = h[S \ {x}]
    BY <1>2, SumIsSum
<1>4. h[S \ {x}] = g[S \ {x}]
    BY <1>1, <1>2, <1>3, SumUnique
<1>5. g[S] = w[x] + g[S \ {x}]
    BY <1>1, SumWithout
<1>6. QED
    BY <1>1, <1>3, <1>4, <1>5

(* A member that joins brings it.                                          *)
LEMMA SumAdd ==
    ASSUME NEW S, IsFiniteSet(S), NEW x, x \notin S,
           NEW w, \A y \in S \cup {x} : w[y] \in Nat
    PROVE  SumOver(S \cup {x}, w) = w[x] + SumOver(S, w)
<1>1. IsFiniteSet(S \cup {x}) /\ (S \cup {x}) \ {x} = S
    BY FS_AddElement
<1>2. QED
    BY <1>1, SumRemove

(* The sum of a list and of the list without its last entry.               *)
LEMMA SumNext ==
    ASSUME NEW n \in Nat, NEW w, \A i \in 1..(n + 1) : w[i] \in Nat
    PROVE  /\ SumOver(1..(n + 1), w) = w[n + 1] + SumOver(1..n, w)
           /\ SumOver(1..n, w) \in Nat
<1> PICK S : S = 1..n
    OBVIOUS
<1>1. IsFiniteSet(S)
    <2>1. n \in Int /\ 1 \in Int
        OBVIOUS
    <2>2. QED
        BY <2>1, FS_Interval
<1>2. S \cup {n + 1} = 1..(n + 1) /\ n + 1 \notin S
    OBVIOUS
<1>3. \A i \in S \cup {n + 1} : w[i] \in Nat
    BY <1>2
<1>4. SumOver(S \cup {n + 1}, w) = w[n + 1] + SumOver(S, w)
    BY <1>1, <1>2, <1>3, SumAdd
<1>5. SumOver(S, w) \in Nat
    BY <1>1, <1>3, SumTyped
<1>6. QED
    BY <1>2, <1>4, <1>5

(* The sum of a list without its first entry.                              *)
LEMMA SumShift ==
    ASSUME NEW k \in Nat,
           NEW w, \A i \in 1..(k + 1) : w[i] \in Nat,
           NEW v, \A i \in 1..k : v[i] = w[i + 1]
    PROVE  SumOver(1..(k + 1), w) = w[1] + SumOver(1..k, v)
<1> DEFINE Shifts(n) == SumOver(1..(n + 1), w) = w[1] + SumOver(1..n, v)
           T == {n \in Nat : n <= k => Shifts(n)}
<1>1. 0 \in T
    <2>1. 1..(0 + 1) = {} \cup {1} /\ 1..0 = {}
        OBVIOUS
    <2>2. SumOver({} \cup {1}, w) = w[1] + SumOver({}, w)
        BY FS_EmptySet, SumAdd
    <2>3. SumOver({}, w) = 0 /\ SumOver({}, v) = 0
        BY SumEmpty
    <2>4. Shifts(0)
        BY <2>1, <2>2, <2>3
    <2>5. QED
        BY <2>4
<1>2. ASSUME NEW n \in Nat, n \in T PROVE n + 1 \in T
    <2> SUFFICES ASSUME n + 1 <= k PROVE Shifts(n + 1)
        OBVIOUS
    <2>1. Shifts(n)
        BY <1>2
    <2>2. n + 1 \in Nat /\ \A i \in 1..((n + 1) + 1) : w[i] \in Nat
        OBVIOUS
    <2>3. SumOver(1..((n + 1) + 1), w)
            = w[(n + 1) + 1] + SumOver(1..(n + 1), w)
        BY <2>2, SumNext
    <2>4. \A i \in 1..(n + 1) : v[i] \in Nat
        OBVIOUS
    <2>5. /\ SumOver(1..(n + 1), v) = v[n + 1] + SumOver(1..n, v)
          /\ SumOver(1..n, v) \in Nat
        BY <2>4, SumNext
    <2>6. v[n + 1] = w[(n + 1) + 1] /\ v[n + 1] \in Nat /\ w[1] \in Nat
        OBVIOUS
    <2> HIDE DEF T
    <2>7. QED
        BY <2>1, <2>3, <2>5, <2>6
<1>3. k \in T
    <2> HIDE DEF T
    <2>1. QED
        BY <1>1, <1>2, NaturalsReached
<1>4. QED
    BY <1>3

(* A set of naturals has a least member.                                   *)
LEMMA LeastMember ==
    ASSUME NEW S, S \subseteq Nat, S # {}
    PROVE  \E n \in S : \A m \in S : n <= m
<1> DEFINE R == OpToRel(<, Nat)
<1>1. PICK n \in S : \A m \in S : <<m, n>> \notin R
    <2>1. IsWellFoundedOn(R, Nat)
        BY NatLessThanWellFounded, Zenon
    <2> HIDE DEF R
    <2>2. QED
        BY <2>1, WFMin, Zenon
<1>2. \A m \in S : ~(m < n)
    BY <1>1 DEF OpToRel
<1>3. QED
    BY <1>2

(* Sets that grow by one member at most.                                   *)
LEMMA AtMostOneMore ==
    ASSUME NEW S, IsFiniteSet(S), NEW T, NEW x, T \subseteq S \cup {x}
    PROVE  /\ IsFiniteSet(T) /\ Cardinality(T) \in Nat
           /\ Cardinality(S) \in Nat
           /\ Cardinality(T) <= Cardinality(S) + 1
<1>1. /\ IsFiniteSet(S \cup {x})
      /\ Cardinality(S \cup {x}) <= Cardinality(S) + 1
      /\ Cardinality(S) \in Nat /\ Cardinality(S \cup {x}) \in Nat
    BY FS_AddElement, FS_CardinalityType
<1>2. QED
    BY <1>1, FS_Subset, FS_CardinalityType

(* Larger weights have a larger sum.                                       *)
LEMMA SumMonotone ==
    ASSUME NEW S, IsFiniteSet(S), NEW w, NEW v,
           \A x \in S : w[x] \in Nat /\ v[x] \in Nat /\ w[x] <= v[x]
    PROVE  SumOver(S, w) <= SumOver(S, v)
<1> DEFINE Bad == {s \in SUBSET S : ~(SumOver(s, w) <= SumOver(s, v))}
<1> SUFFICES ASSUME Bad # {} PROVE FALSE
    OBVIOUS
<1>1. PICK s \in Bad : \A u \in Bad : u \subseteq s => u = s
    <2>1. Bad \subseteq SUBSET S
        OBVIOUS
    <2> HIDE DEF Bad
    <2>2. QED
        BY <2>1, SmallestSubset
<1>2. s \in SUBSET S /\ ~(SumOver(s, w) <= SumOver(s, v))
    BY <1>1
<1>3. IsFiniteSet(s)
    BY <1>2, FS_Subset
<1>4. s # {}
    <2>1. SumOver({}, w) = 0 /\ SumOver({}, v) = 0
        BY SumEmpty
    <2>2. QED
        BY <1>2, <2>1
<1>5. PICK x \in s : x \in S
    BY <1>2, <1>4
<1>6. PICK t : t = s \ {x}
    OBVIOUS
<1>7. t \notin Bad /\ t \in SUBSET S
    BY <1>1, <1>2, <1>5, <1>6
<1>8. SumOver(t, w) <= SumOver(t, v)
    BY <1>7
<1> HIDE DEF Bad
<1>9. IsFiniteSet(t)
    BY <1>7, FS_Subset
<1>10. /\ \A y \in s : w[y] \in Nat /\ v[y] \in Nat
       /\ \A y \in t : w[y] \in Nat /\ v[y] \in Nat
    BY <1>2, <1>7
<1>11. SumOver(t, w) \in Nat /\ SumOver(t, v) \in Nat
    BY <1>9, <1>10, SumTyped
<1>12. /\ SumOver(s, w) = w[x] + SumOver(t, w)
       /\ SumOver(s, v) = v[x] + SumOver(t, v)
    BY <1>3, <1>6, <1>10, SumRemove
<1>13. w[x] \in Nat /\ v[x] \in Nat /\ w[x] <= v[x]
    BY <1>5
<1>14. QED
    BY <1>2, <1>8, <1>11, <1>12, <1>13

(* Two solutions have the same sum.                                        *)
LEMMA SumAgrees ==
    ASSUME NEW S, IsFiniteSet(S), NEW w, NEW v, \A x \in S : w[x] = v[x],
           NEW g, Sums(g, S, w), NEW h, Sums(h, S, v)
    PROVE  g[S] = h[S]
<1>1. S \subseteq S
    OBVIOUS
<1>2. \A s \in SUBSET S : g[s] = h[s]
    BY <1>1, SumUnique
<1>3. QED
    BY <1>2
=============================================================================
