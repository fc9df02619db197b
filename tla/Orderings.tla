------------------------------ MODULE Orderings ------------------------------
(***************************************************************************)
(* What several proofs need of things in order.                            *)
(*                                                                         *)
(* The elements of a finite set in order: that there is such a list, that  *)
(* there is one only, and that it has each element once.  An order is a    *)
(* set of pairs.  What is usually shown by induction is shown here from a  *)
(* least counterexample, which the library grants for any set of finite    *)
(* sets or numbers.                                                        *)
(*                                                                         *)
(* Lists of callbacks that are kept in the order in which the library      *)
(* registers them, for MPI and for NCCL, and what joining two lists makes. *)
(***************************************************************************)
EXTENDS Integers, Sequences, SequenceTheorems, FiniteSetTheorems, WellFoundedInduction, TLAPS

IsOrder(R, S) ==
  /\ \A x \in S : <<x, x>> \notin R
  /\ \A x, y, z \in S : <<x, y>> \in R /\ <<y, z>> \in R => <<x, z>> \in R
  /\ \A x, y \in S : x = y \/ <<x, y>> \in R \/ <<y, x>> \in R

Sorted(s, n, R) == \A i, j \in 1 .. n : i < j => <<s[i], s[j]>> \in R

(* s has each element of S once.                                           *)
Lists(s, n, S) ==
  /\ s \in [1 .. n -> S]
  /\ \A i, j \in 1 .. n : s[i] = s[j] => i = j
  /\ \A x \in S : \E i \in 1 .. n : s[i] = x

-----------------------------------------------------------------------------
LEMMA LeastNumber ==
  ASSUME NEW T \in SUBSET Nat, T # {}
  PROVE  \E m \in T : \A k \in T : m <= k
<1>1. PICK R : R = OpToRel(<, Nat)
  OBVIOUS
<1>2. IsWellFoundedOn(R, Nat)
  BY <1>1, NatLessThanWellFounded
<1>3. PICK m \in T : \A k \in T : <<k, m>> \notin R
  BY <1>2, WFMin
<1>4. \A k, n \in Nat : k < n => <<k, n>> \in R
  BY <1>1 DEF OpToRel
<1>5. ASSUME NEW k \in T PROVE m <= k
  <2>1. k \in Nat /\ m \in Nat
    OBVIOUS
  <2>2. ~ (k < m)
    BY <1>3, <1>4, <2>1, Zenon
  <2>3. QED
    BY <2>1, <2>2
<1>6. QED
  BY <1>5

LEMMA LeastSet ==
  ASSUME NEW S, IsFiniteSet(S), NEW T \in SUBSET SUBSET S, T # {}
  PROVE  \E U \in T : \A V \in T : V \subseteq U => V = U
<1>1. IsWellFoundedOn(StrictSubsetOrdering(S), SUBSET S)
  BY FS_StrictSubsetOrderingWellFounded, FS_FiniteSubsetsOfFinite
<1>2. \E U \in T : \A V \in T : <<V, U>> \notin StrictSubsetOrdering(S)
  BY <1>1, WFMin
<1>3. QED
  BY <1>2 DEF StrictSubsetOrdering

(* A finite set that is ordered has a last element.                        *)
LEMMA Last ==
  ASSUME NEW S, IsFiniteSet(S), NEW R, IsOrder(R, S), S # {}
  PROVE  \E m \in S : \A x \in S \ {m} : <<x, m>> \in R
<1> DEFINE HasLast(U) == \E m \in U : \A x \in U \ {m} : <<x, m>> \in R
           Bad == {U \in SUBSET S : U # {} /\ ~ HasLast(U)}
<1>1. ASSUME Bad # {} PROVE FALSE
  <2>0. Bad \in SUBSET SUBSET S
    OBVIOUS
  <2>1. PICK U \in Bad : \A V \in Bad : V \subseteq U => V = U
    <3> HIDE DEF Bad
    <3>1. QED
      BY <1>1, <2>0, LeastSet
  <2>2. PICK x \in U : TRUE
    OBVIOUS
  <2>3. CASE U = {x}
    BY <2>3, <2>1
  <2>4. CASE U # {x}
    <3>1. U \ {x} \notin Bad /\ U \ {x} # {} /\ U \ {x} \in SUBSET S
      BY <2>1, <2>2, <2>4
    <3>2. HasLast(U \ {x})
      BY <3>1
    <3>3. PICK m \in U \ {x} : \A y \in (U \ {x}) \ {m} : <<y, m>> \in R
      BY <3>2
    <3>4. CASE <<x, m>> \in R
      BY <3>3, <3>4, <2>1
    <3>5. CASE <<x, m>> \notin R
      <4>1. <<m, x>> \in R
        BY <3>5, <2>2 DEF IsOrder
      <4>2. \A y \in U \ {x} : <<y, x>> \in R
        BY <3>3, <4>1 DEF IsOrder
      <4>3. QED
        BY <2>2, <4>2, <2>1
    <3>6. QED
      BY <3>4, <3>5
  <2>5. QED
    BY <2>3, <2>4
<1>2. S \notin Bad
  BY <1>1
<1>3. QED
  BY <1>2

(* A finite set that is ordered can be listed in its order.                *)
LEMMA SortedExists ==
  ASSUME NEW S, IsFiniteSet(S), NEW R, IsOrder(R, S)
  PROVE  \E s \in [1 .. Cardinality(S) -> S] : Sorted(s, Cardinality(S), R)
<1> DEFINE Listed(U) == \E s \in [1 .. Cardinality(U) -> U] : Sorted(s, Cardinality(U), R)
           Bad == {U \in SUBSET S : ~ Listed(U)}
<1>1. ASSUME Bad # {} PROVE FALSE
  <2>0. Bad \in SUBSET SUBSET S
    OBVIOUS
  <2>1. PICK U \in Bad : \A V \in Bad : V \subseteq U => V = U
    <3> HIDE DEF Bad
    <3>1. QED
      BY <1>1, <2>0, LeastSet
  <2>2. IsFiniteSet(U) /\ IsOrder(R, U)
    BY <2>1, FS_Subset DEF IsOrder
  <2>3. CASE U = {}
    <3>1. Cardinality(U) = 0 /\ 1 .. 0 = {}
      BY <2>3, FS_EmptySet
    <3>2. PICK s : s = [i \in 1 .. 0 |-> i]
      OBVIOUS
    <3>3. s \in [1 .. Cardinality(U) -> U] /\ Sorted(s, Cardinality(U), R)
      BY <3>1, <3>2 DEF Sorted
    <3>4. QED
      BY <2>1, <3>3
  <2>4. CASE U # {}
    <3>1. PICK m \in U : \A x \in U \ {m} : <<x, m>> \in R
      BY <2>2, <2>4, Last
    <3>2. PICK V : V = U \ {m}
      OBVIOUS
    <3>3. IsFiniteSet(V) /\ Cardinality(V) = Cardinality(U) - 1 /\ Cardinality(U) \in Nat
          /\ Cardinality(V) \in Nat
      BY <2>2, <3>2, FS_RemoveElement, FS_CardinalityType
    <3>4. V \notin Bad
      BY <2>1, <3>1, <3>2
    <3>5. PICK t \in [1 .. Cardinality(V) -> V] : Sorted(t, Cardinality(V), R)
      BY <2>1, <3>2, <3>4
    <3>6. PICK n \in Nat : n = Cardinality(V)
      BY <3>3
    <3>7. PICK s : s = [i \in 1 .. n + 1 |-> IF i = n + 1 THEN m ELSE t[i]]
      OBVIOUS
    <3>8. s \in [1 .. n + 1 -> U]
      <4>1. \A i \in 1 .. n + 1 : i # n + 1 => i \in 1 .. n
        BY <3>6
      <4>2. \A i \in 1 .. n : t[i] \in U
        BY <3>2, <3>5, <3>6
      <4>3. QED
        BY <3>7, <4>1, <4>2
    <3>9. Sorted(s, n + 1, R)
      <4>1. ASSUME NEW i \in 1 .. n + 1, NEW j \in 1 .. n + 1, i < j
            PROVE  <<s[i], s[j]>> \in R
        <5>1. i \in 1 .. n /\ s[i] = t[i]
          BY <3>7, <4>1
        <5>2. CASE j = n + 1
          BY <3>1, <3>2, <3>5, <3>6, <3>7, <5>1, <5>2
        <5>3. CASE j # n + 1
          BY <3>5, <3>6, <3>7, <4>1, <5>1, <5>3 DEF Sorted
        <5>4. QED
          BY <5>2, <5>3
      <4>2. QED
        BY <4>1 DEF Sorted
    <3>10. Cardinality(U) = n + 1
      BY <3>3, <3>6
    <3>11. QED
      BY <2>1, <3>8, <3>9, <3>10
  <2>5. QED
    BY <2>3, <2>4
<1>2. S \notin Bad
  BY <1>1
<1>3. QED
  BY <1>2

(* Such a list has each element once.                                      *)
LEMMA SortedFacts ==
  ASSUME NEW S, IsFiniteSet(S), NEW R, IsOrder(R, S),
         NEW n, n = Cardinality(S),
         NEW s, s \in [1 .. n -> S], Sorted(s, n, R)
  PROVE  Lists(s, n, S)
<1>1. n \in Nat
  BY FS_CardinalityType
<1>2. ASSUME NEW i \in 1 .. n, NEW j \in 1 .. n, s[i] = s[j] PROVE i = j
  <2>1. ~ (i < j) /\ ~ (j < i)
    BY <1>1, <1>2 DEF Sorted, IsOrder
  <2>2. QED
    BY <2>1
<1>3. s \in Injection(1 .. n, S)
  BY <1>1, <1>2 DEF Injection, IsInjective
<1>4. IsFiniteSet(1 .. n) /\ Cardinality(1 .. n) = n
  BY <1>1, FS_Interval
<1>5. s \in Surjection(1 .. n, S)
  <2>1. Cardinality(S) = Cardinality(1 .. n)
    BY <1>4
  <2>2. QED
    BY <1>3, <1>4, <2>1, FS_Injection
<1>6. QED
  BY <1>2, <1>5 DEF Surjection, Lists

(* There is only one.                                                      *)
LEMMA SortedUnique ==
  ASSUME NEW S, IsFiniteSet(S), NEW R, IsOrder(R, S),
         NEW s \in [1 .. Cardinality(S) -> S], Sorted(s, Cardinality(S), R),
         NEW t \in [1 .. Cardinality(S) -> S], Sorted(t, Cardinality(S), R)
  PROVE  s = t
<1>1. PICK n \in Nat : n = Cardinality(S)
  BY FS_CardinalityType
<1> DEFINE D == {i \in 1 .. n : s[i] # t[i]}
<1>2. ASSUME D # {} PROVE FALSE
  <2>0. D \in SUBSET Nat
    OBVIOUS
  <2>1. PICK i \in D : \A k \in D : i <= k
    <3> HIDE DEF D
    <3>1. QED
      BY <1>2, <2>0, LeastNumber
  <2>2. i \in 1 .. n /\ s[i] # t[i] /\ \A k \in 1 .. n : k < i => s[k] = t[k]
    BY <2>1
  <2>3. <<s[i], t[i]>> \in R
    <3>1. PICK k \in 1 .. n : s[k] = t[i]
      BY <1>1, <2>2, SortedFacts DEF Lists
    <3>2. k # i
      BY <2>2, <3>1
    <3>3. ~ (k < i)
      BY <1>1, <2>2, <3>1 DEF Sorted, IsOrder
    <3>4. i < k
      BY <2>2, <3>2, <3>3
    <3>5. QED
      BY <1>1, <2>2, <3>1, <3>4 DEF Sorted
  <2>4. <<t[i], s[i]>> \in R
    <3>1. PICK k \in 1 .. n : t[k] = s[i]
      BY <1>1, <2>2, SortedFacts DEF Lists
    <3>2. k # i
      BY <2>2, <3>1
    <3>3. ~ (k < i)
      BY <1>1, <2>2, <3>1 DEF Sorted, IsOrder
    <3>4. i < k
      BY <2>2, <3>2, <3>3
    <3>5. QED
      BY <1>1, <2>2, <3>1, <3>4 DEF Sorted
  <2>5. s[i] \in S /\ t[i] \in S
    BY <1>1, <2>2
  <2>6. <<s[i], s[i]>> \in R
    BY <2>3, <2>4, <2>5 DEF IsOrder
  <2>7. QED
    BY <2>5, <2>6 DEF IsOrder
<1>3. \A i \in 1 .. n : s[i] = t[i]
  BY <1>2
<1>4. QED
  BY <1>1, <1>3

-----------------------------------------------------------------------------
Has(s, k) == \E i \in 1 .. Len(s) : s[i] = k

(* The order in which callbacks are registered.                            *)
Rank == [unpack |-> 1, keep_psv |-> 2, keep_sv |-> 3, keep_rv |-> 4, user |-> 5]

Stages == {"unpack", "keep_psv", "keep_sv", "keep_rv", "user"}

Increasing(s) == \A i, j \in 1 .. Len(s) : i < j => Rank[s[i]] < Rank[s[j]]

-----------------------------------------------------------------------------
(* Two lists, the second of which begins behind the end of the first.      *)
LEMMA ConcatFacts ==
  ASSUME NEW s \in Seq(Stages), NEW t \in Seq(Stages), Increasing(s), Increasing(t),
         \A i \in 1 .. Len(s), j \in 1 .. Len(t) : Rank[s[i]] < Rank[t[j]]
  PROVE  /\ s \o t \in Seq(Stages)
         /\ Increasing(s \o t)
         /\ \A k \in Stages : Has(s \o t, k) <=> Has(s, k) \/ Has(t, k)
<1> DEFINE st == s \o t
<1>1. /\ st \in Seq(Stages) /\ Len(st) = Len(s) + Len(t)
      /\ \A i \in 1 .. Len(s) + Len(t) : st[i] = IF i <= Len(s) THEN s[i] ELSE t[i - Len(s)]
      /\ Len(s) \in Nat /\ Len(t) \in Nat
  BY ConcatProperties
<1> HIDE DEF st
<1>2. Increasing(st)
  <2> SUFFICES ASSUME NEW i \in 1 .. Len(st), NEW j \in 1 .. Len(st), i < j
               PROVE  Rank[st[i]] < Rank[st[j]]
    BY DEF Increasing
  <2>1. CASE j <= Len(s)
    BY <1>1, <2>1 DEF Increasing
  <2>2. CASE i > Len(s)
    <3>1. i - Len(s) \in 1 .. Len(t) /\ j - Len(s) \in 1 .. Len(t) /\ i - Len(s) < j - Len(s)
      BY <1>1, <2>2
    <3>2. st[i] = t[i - Len(s)] /\ st[j] = t[j - Len(s)]
      BY <1>1, <2>2
    <3>3. QED
      BY <3>1, <3>2 DEF Increasing
  <2>3. CASE i <= Len(s) /\ j > Len(s)
    <3>1. i \in 1 .. Len(s) /\ j - Len(s) \in 1 .. Len(t)
      BY <1>1, <2>3
    <3>2. st[i] = s[i] /\ st[j] = t[j - Len(s)]
      BY <1>1, <2>3
    <3>3. QED
      BY <3>1, <3>2
  <2>4. QED
    BY <1>1, <2>1, <2>2, <2>3
<1>3. ASSUME NEW k \in Stages PROVE Has(st, k) <=> Has(s, k) \/ Has(t, k)
  <2>1. ASSUME NEW i \in 1 .. Len(st), st[i] = k PROVE Has(s, k) \/ Has(t, k)
    <3>1. CASE i <= Len(s)
      <4>1. i \in 1 .. Len(s) /\ s[i] = k
        BY <1>1, <2>1, <3>1
      <4>2. QED
        BY <4>1 DEF Has
    <3>2. CASE i > Len(s)
      <4>1. i - Len(s) \in 1 .. Len(t) /\ t[i - Len(s)] = k
        BY <1>1, <2>1, <3>2
      <4>2. QED
        BY <4>1 DEF Has
    <3>3. QED
      BY <1>1, <3>1, <3>2
  <2>2. ASSUME NEW i \in 1 .. Len(s), s[i] = k PROVE Has(st, k)
    <3>1. i \in 1 .. Len(st) /\ st[i] = k
      BY <1>1, <2>2
    <3>2. QED
      BY <3>1 DEF Has
  <2>3. ASSUME NEW i \in 1 .. Len(t), t[i] = k PROVE Has(st, k)
    <3>1. Len(s) + i \in 1 .. Len(st) /\ ~(Len(s) + i <= Len(s)) /\ (Len(s) + i) - Len(s) = i
      BY <1>1
    <3>2. st[Len(s) + i] = k
      BY <1>1, <2>3, <3>1
    <3>3. QED
      BY <3>1, <3>2 DEF Has
  <2>4. QED
    BY <2>1, <2>2, <2>3 DEF Has
<1>4. QED
  BY <1>1, <1>2, <1>3 DEF st

(* The same, told of what the lists have.                                  *)
LEMMA JoinFacts ==
  ASSUME NEW s \in Seq(Stages), NEW t \in Seq(Stages), Increasing(s), Increasing(t),
         \A k, l \in Stages : Has(s, k) /\ Has(t, l) => Rank[k] < Rank[l]
  PROVE  /\ s \o t \in Seq(Stages)
         /\ Increasing(s \o t)
         /\ \A k \in Stages : Has(s \o t, k) <=> Has(s, k) \/ Has(t, k)
<1>1. ASSUME NEW i \in 1 .. Len(s), NEW j \in 1 .. Len(t) PROVE Rank[s[i]] < Rank[t[j]]
  <2>1. s[i] \in Stages /\ t[j] \in Stages
    OBVIOUS
  <2>2. Has(s, s[i]) /\ Has(t, t[j])
    BY DEF Has
  <2>3. QED
    BY <2>1, <2>2
<1>2. QED
  BY <1>1, ConcatFacts

(* A list of one callback or none.                                         *)
LEMMA OptionalFacts ==
  ASSUME NEW P, NEW c \in Stages, NEW s, s = IF P THEN <<c>> ELSE <<>>
  PROVE  /\ s \in Seq(Stages) /\ Increasing(s)
         /\ \A k \in Stages : Has(s, k) <=> P /\ k = c
<1>1. CASE P
  <2>1. s = <<c>>
    BY <1>1, Zenon
  <2>2. QED
    BY <1>1, <2>1 DEF Increasing, Has
<1>2. CASE ~P
  <2>1. s = <<>>
    BY <1>2, Zenon
  <2>2. QED
    BY <1>2, <2>1 DEF Increasing, Has
<1>3. QED
  BY <1>1, <1>2

(* What the calls of the library register: some of four callbacks.         *)
List(P, Q, R, S) ==
  (IF P THEN <<"unpack">> ELSE <<>>) \o (IF Q THEN <<"keep_psv">> ELSE <<>>)
    \o (IF R THEN <<"keep_sv">> ELSE <<>>) \o (IF S THEN <<"keep_rv">> ELSE <<>>)

LEMMA ListFacts ==
  ASSUME NEW P, NEW Q, NEW R, NEW S
  PROVE  /\ List(P, Q, R, S) \in Seq(Stages)
         /\ Increasing(List(P, Q, R, S))
         /\ \A k \in Stages : Has(List(P, Q, R, S), k) <=> \/ k = "unpack" /\ P
                                                           \/ k = "keep_psv" /\ Q
                                                           \/ k = "keep_sv" /\ R
                                                           \/ k = "keep_rv" /\ S
<1> DEFINE A == IF P THEN <<"unpack">> ELSE <<>>
           B == IF Q THEN <<"keep_psv">> ELSE <<>>
           C == IF R THEN <<"keep_sv">> ELSE <<>>
           D == IF S THEN <<"keep_rv">> ELSE <<>>
<1>1. {"unpack", "keep_psv", "keep_sv", "keep_rv"} \subseteq Stages
  BY DEF Stages
<1>2. A \in Seq(Stages) /\ Increasing(A) /\ \A k \in Stages : Has(A, k) <=> P /\ k = "unpack"
  BY <1>1, OptionalFacts, Zenon
<1>3. B \in Seq(Stages) /\ Increasing(B) /\ \A k \in Stages : Has(B, k) <=> Q /\ k = "keep_psv"
  BY <1>1, OptionalFacts, Zenon
<1>4. C \in Seq(Stages) /\ Increasing(C) /\ \A k \in Stages : Has(C, k) <=> R /\ k = "keep_sv"
  BY <1>1, OptionalFacts, Zenon
<1>5. D \in Seq(Stages) /\ Increasing(D) /\ \A k \in Stages : Has(D, k) <=> S /\ k = "keep_rv"
  BY <1>1, OptionalFacts, Zenon
<1>6. List(P, Q, R, S) = ((A \o B) \o C) \o D
  BY Zenon DEF List
<1> HIDE DEF A, B, C, D
<1>7. /\ A \o B \in Seq(Stages) /\ Increasing(A \o B)
      /\ \A k \in Stages : Has(A \o B, k) <=> Has(A, k) \/ Has(B, k)
  <2>1. \A k, l \in Stages : Has(A, k) /\ Has(B, l) => Rank[k] < Rank[l]
    BY <1>2, <1>3 DEF Rank
  <2>2. QED
    BY <1>2, <1>3, <2>1, JoinFacts
<1>8. /\ (A \o B) \o C \in Seq(Stages) /\ Increasing((A \o B) \o C)
      /\ \A k \in Stages : Has((A \o B) \o C, k) <=> Has(A, k) \/ Has(B, k) \/ Has(C, k)
  <2>1. \A k, l \in Stages : Has(A \o B, k) /\ Has(C, l) => Rank[k] < Rank[l]
    BY <1>2, <1>3, <1>4, <1>7 DEF Rank
  <2>2. QED
    BY <1>4, <1>7, <2>1, JoinFacts
<1>9. /\ ((A \o B) \o C) \o D \in Seq(Stages) /\ Increasing(((A \o B) \o C) \o D)
      /\ \A k \in Stages : Has(((A \o B) \o C) \o D, k) <=>
           Has(A, k) \/ Has(B, k) \/ Has(C, k) \/ Has(D, k)
  <2>1. \A k, l \in Stages : Has((A \o B) \o C, k) /\ Has(D, l) => Rank[k] < Rank[l]
    BY <1>2, <1>3, <1>4, <1>5, <1>8 DEF Rank
  <2>2. QED
    BY <1>5, <1>8, <2>1, JoinFacts
<1>10. QED
  BY <1>2, <1>3, <1>4, <1>5, <1>6, <1>9

=============================================================================
