---------------------------- MODULE PackingProofs ----------------------------
(***************************************************************************)
(* For views of any number of dimensions and any extents: elements stay    *)
(* inside the allocation and apart, messages are as long as both ends      *)
(* expect, every element arrives, at its own index where the layouts       *)
(* agree, and the comparison of the tests finds the elements that do not.  *)
(*                                                                         *)
(* Products and offsets are folds over the dimensions.  A fold is turned   *)
(* into the function of its partial results first (ProductFold, OffsetFold,*)
(* BoundFold, NumberFold); what is shown by induction over dimensions goes *)
(* through those, with Upward or Downward.                                 *)
(***************************************************************************)
EXTENDS Packing, FiniteSetTheorems, SequenceTheorems, TLAPS

Positive == Nat \ {0}

(* Induction over dimensions: a set of numbers stands for the statement.   *)
LEMMA Upward ==
  ASSUME NEW n \in Nat, NEW T, 0 \in T, \A k \in 1 .. n : k - 1 \in T => k \in T
  PROVE  0 .. n \subseteq T
<1>1. SUFFICES ASSUME NEW c \in 0 .. n, c \notin T PROVE FALSE
  OBVIOUS
<1>2. PICK U : U = {k \in 0 .. n : k \notin T}
  OBVIOUS
<1>3. IsWellFoundedOn(OpToRel(<, Nat), Nat)
  BY NatLessThanWellFounded
<1>4. U \subseteq Nat /\ U # {}
  BY <1>1, <1>2
<1>5. PICK m \in U : \A k \in U : <<k, m>> \notin OpToRel(<, Nat)
  BY <1>3, <1>4, WFMin
<1>6. m \in 0 .. n /\ m \notin T /\ m # 0
  BY <1>2, <1>5
<1>7. m - 1 \in 0 .. n /\ m - 1 < m /\ m \in 1 .. n
  BY <1>6
<1>8. m - 1 \notin T
  BY <1>6, <1>7
<1>9. m - 1 \in U
  BY <1>2, <1>7, <1>8
<1>10. <<m - 1, m>> \in OpToRel(<, Nat)
  BY <1>7 DEF OpToRel
<1>11. QED
  BY <1>5, <1>9, <1>10

LEMMA Downward ==
  ASSUME NEW n \in Nat, NEW T, n \in T, \A k \in 1 .. n : k \in T => k - 1 \in T
  PROVE  0 .. n \subseteq T
<1>1. PICK U : U = {k \in 0 .. n : n - k \in T}
  OBVIOUS
<1>2. 0 \in U
  BY <1>1
<1>3. ASSUME NEW k \in 1 .. n, k - 1 \in U PROVE k \in U
  <2>1. n - (k - 1) \in T /\ n - (k - 1) \in 1 .. n /\ (n - (k - 1)) - 1 = n - k
    BY <1>1, <1>3
  <2>2. n - k \in T
    BY <2>1
  <2>3. QED
    BY <1>1, <2>2
<1>4. 0 .. n \subseteq U
  BY <1>2, <1>3, Upward
<1>5. ASSUME NEW k \in 0 .. n PROVE k \in T
  <2>1. n - k \in 0 .. n /\ n - (n - k) = k
    OBVIOUS
  <2>2. n - (n - k) \in T
    BY <1>1, <1>4, <2>1
  <2>3. QED
    BY <2>1, <2>2
<1>6. QED
  BY <1>5

-----------------------------------------------------------------------------
(* Folds.                                                                  *)

LEMMA MaxLast ==
  ASSUME NEW k \in Nat, NEW s \in SUBSET (1 .. k), k \in s
  PROVE  Max(s) = k
<1>1. \A y \in s : k >= y
  OBVIOUS
<1>2. \A x \in s : (\A y \in s : x >= y) => x = k
  BY <1>1
<1>3. QED
  BY <1>1, <1>2 DEF Max

(* The recursion of a fold over 1 .. n has a solution.                     *)
Solves(f, k, V, base, h) ==
  /\ f \in [SUBSET (1 .. k) -> V]
  /\ \A s \in SUBSET (1 .. k) : f[s] = IF s = {} THEN base ELSE h[<<Max(s), f[s \ {Max(s)}]>>]

LEMMA FoldExists ==
  ASSUME NEW n \in Nat, NEW V, NEW base \in V, NEW h \in [(1 .. n) \X V -> V]
  PROVE  \E f : Solves(f, n, V, base, h)
<1>1. PICK T : T = {k \in 0 .. n : \E f : Solves(f, k, V, base, h)}
  OBVIOUS
<1>2. 0 \in T
  <2>1. PICK f : f = [s \in SUBSET (1 .. 0) |-> base]
    OBVIOUS
  <2>2. \A s \in SUBSET (1 .. 0) : s = {}
    OBVIOUS
  <2>3. Solves(f, 0, V, base, h)
    BY <2>1, <2>2 DEF Solves
  <2>4. QED
    BY <1>1, <2>3
<1>3. ASSUME NEW k \in 1 .. n, k - 1 \in T PROVE k \in T
  <2>1. PICK f : Solves(f, k - 1, V, base, h)
    BY <1>1, <1>3
  <2>2. \A s \in SUBSET (1 .. k) :
          /\ s \ {k} \in SUBSET (1 .. k - 1)
          /\ k \notin s => s \in SUBSET (1 .. k - 1)
          /\ k \in s => Max(s) = k /\ s # {}
    BY MaxLast
  <2>3. PICK g : g = [s \in SUBSET (1 .. k) |-> IF k \in s THEN h[<<k, f[s \ {k}]>>] ELSE f[s]]
    OBVIOUS
  <2>4. f \in [SUBSET (1 .. k - 1) -> V]
    BY <2>1 DEF Solves
  <2>5. g \in [SUBSET (1 .. k) -> V]
    BY <2>2, <2>3, <2>4
  <2>6. \A s \in SUBSET (1 .. k - 1) : k \notin s /\ g[s] = f[s]
    BY <2>3
  <2>7. ASSUME NEW s \in SUBSET (1 .. k)
        PROVE  g[s] = IF s = {} THEN base ELSE h[<<Max(s), g[s \ {Max(s)}]>>]
    <3>1. CASE k \in s
      BY <2>2, <2>3, <2>6, <3>1
    <3>2. CASE k \notin s
      <4>1. s \in SUBSET (1 .. k - 1)
        BY <2>2, <3>2
      <4>2. f[s] = IF s = {} THEN base ELSE h[<<Max(s), f[s \ {Max(s)}]>>]
        BY <2>1, <4>1 DEF Solves
      <4>3. s \ {Max(s)} \in SUBSET (1 .. k - 1)
        BY <4>1
      <4>4. QED
        BY <2>6, <4>1, <4>2, <4>3
    <3>3. QED
      BY <3>1, <3>2
  <2>8. Solves(g, k, V, base, h)
    BY <2>5, <2>7 DEF Solves
  <2>9. k \in 0 .. n
    OBVIOUS
  <2>10. QED
    BY <1>1, <2>8, <2>9
<1>4. 0 .. n \subseteq T
  BY <1>2, <1>3, Upward
<1>5. QED
  BY <1>1, <1>4

(* The partial results p of a fold, and its result r.                      *)
Partial(p, n, V, base, h) ==
  /\ p \in [0 .. n -> V] /\ p[0] = base
  /\ \A k \in 1 .. n : p[k] = h[<<k, p[k - 1]>>]

Folds(f, n, V, base, h) ==
  /\ n \in Nat /\ base \in V /\ h \in [(1 .. n) \X V -> V] /\ f[{}] = base
  /\ \A k \in 1 .. n : f[1 .. k - 1] \in V => f[1 .. k] = h[<<k, f[1 .. k - 1]>>]

LEMMA FoldPartial ==
  ASSUME NEW f, NEW n, NEW V, NEW base, NEW h, Folds(f, n, V, base, h)
  PROVE  \E p : Partial(p, n, V, base, h) /\ f[1 .. n] = p[n]
<1>1. PICK p : p = [k \in 0 .. n |-> f[1 .. k]]
  OBVIOUS
<1>2. PICK T : T = {k \in 0 .. n : p[k] \in V}
  OBVIOUS
<1>3. /\ n \in Nat /\ base \in V /\ h \in [(1 .. n) \X V -> V] /\ f[{}] = base /\ 1 .. 0 = {}
      /\ \A k \in 1 .. n : f[1 .. k - 1] \in V => f[1 .. k] = h[<<k, f[1 .. k - 1]>>]
  BY DEF Folds
<1>4. p[0] = base
  BY <1>1, <1>3
<1>5. 0 \in T
  BY <1>2, <1>3, <1>4
<1>6. ASSUME NEW k \in 1 .. n, k - 1 \in T PROVE k \in T /\ p[k] = h[<<k, p[k - 1]>>]
  <2>1. k \in 0 .. n /\ k - 1 \in 0 .. n
    BY <1>3
  <2>2. p[k] = f[1 .. k] /\ p[k - 1] = f[1 .. k - 1] /\ p[k - 1] \in V
    BY <1>1, <1>2, <1>6, <2>1
  <2>3. p[k] = h[<<k, p[k - 1]>>]
    BY <1>3, <2>2
  <2>4. p[k] \in V
    BY <1>3, <2>2, <2>3
  <2>5. QED
    BY <1>2, <2>1, <2>3, <2>4
<1>7. 0 .. n \subseteq T
  BY <1>3, <1>5, <1>6, Upward
<1>8. p \in [0 .. n -> V]
  BY <1>1, <1>2, <1>7
<1>9. ASSUME NEW k \in 1 .. n PROVE p[k] = h[<<k, p[k - 1]>>]
  <2>1. k - 1 \in T
    BY <1>3, <1>7
  <2>2. QED
    BY <1>6, <2>1
<1>10. QED
  BY <1>1, <1>3, <1>4, <1>8, <1>9 DEF Partial

LEMMA MaxIn ==
  ASSUME NEW n \in Nat, NEW s \in SUBSET (1 .. n), s # {}
  PROVE  Max(s) \in s
<1>1. PICK T : T = {k \in 0 .. n : \A u \in SUBSET (1 .. k) : u # {} => Max(u) \in u}
  OBVIOUS
<1>2. 0 \in T
  <2>1. \A u \in SUBSET (1 .. 0) : u = {}
    OBVIOUS
  <2>2. 0 \in 0 .. n
    OBVIOUS
  <2>3. QED
    BY <1>1, <2>1, <2>2
<1>3. ASSUME NEW k \in 1 .. n, k - 1 \in T PROVE k \in T
  <2>1. ASSUME NEW u \in SUBSET (1 .. k), u # {} PROVE Max(u) \in u
    <3>1. CASE k \in u
      BY <3>1, MaxLast
    <3>2. CASE k \notin u
      <4>1. u \in SUBSET (1 .. k - 1)
        BY <3>2
      <4>2. QED
        BY <1>1, <1>3, <2>1, <4>1
    <3>3. QED
      BY <3>1, <3>2
  <2>2. k \in 0 .. n
    OBVIOUS
  <2>3. QED
    BY <1>1, <2>1, <2>2
<1>4. 0 .. n \subseteq T
  BY <1>2, <1>3, Upward
<1>5. n \in T
  BY <1>4
<1>6. QED
  BY <1>1, <1>5

LEMMA Prefix ==
  ASSUME NEW n \in Nat, NEW k \in 1 .. n
  PROVE  /\ 1 .. k \in SUBSET (1 .. n) /\ 1 .. k # {}
         /\ Max(1 .. k) = k /\ (1 .. k) \ {k} = 1 .. k - 1
<1>1. Max(1 .. k) = k
  BY MaxLast
<1>2. QED
  BY <1>1

(* Products: p[k] is the product of the first k extents.                   *)
Products(p, e) ==
  /\ p \in [0 .. Len(e) -> Positive] /\ p[0] = 1
  /\ \A k \in 1 .. Len(e) : p[k] = p[k - 1] * e[k]

LEMMA TimesPositive ==
  ASSUME NEW a \in Positive, NEW b \in Positive
  PROVE  a * b \in Positive /\ a * b >= a /\ a * b >= b
  BY DEF Positive

LEMMA ProductFold ==
  ASSUME NEW e \in Seq(Positive)
  PROVE  \E p : Products(p, e) /\ Product(e) = p[Len(e)]
<1>1. PICK n : n = Len(e)
  OBVIOUS
<1>2. n \in Nat /\ DOMAIN e = 1 .. n /\ \A k \in 1 .. n : e[k] \in Positive
  BY <1>1
<1>3. PICK h : h = [x \in (1 .. n) \X Positive |-> x[2] * e[x[1]]]
  OBVIOUS
<1>4. h \in [(1 .. n) \X Positive -> Positive]
  <2>1. \A x \in (1 .. n) \X Positive : x[2] * e[x[1]] \in Positive
    BY <1>2, TimesPositive
  <2>2. QED
    BY <1>3, <2>1
<1>5. \A k \in 1 .. n, v \in Positive : h[<<k, v>>] = v * e[k]
  BY <1>3
<1>6. 1 \in Positive
  BY DEF Positive
<1>7. PICK f : Solves(f, n, Positive, 1, h)
  BY <1>2, <1>4, <1>6, FoldExists
<1>8. ASSUME NEW s \in SUBSET (1 .. n), s # {}
      PROVE  h[<<Max(s), f[s \ {Max(s)}]>>] = f[s \ {Max(s)}] * e[Max(s)]
  <2>1. Max(s) \in 1 .. n
    BY <1>2, <1>8, MaxIn
  <2>2. f[s \ {Max(s)}] \in Positive
    BY <1>7 DEF Solves
  <2>3. QED
    BY <1>5, <2>1, <2>2
<1>9. f = [s \in SUBSET DOMAIN e |-> IF s = {} THEN 1 ELSE f[s \ {Max(s)}] * e[Max(s)]]
  BY <1>2, <1>7, <1>8 DEF Solves
<1>10. PICK g : g = (CHOOSE c : c = [s \in SUBSET DOMAIN e |->
                                      IF s = {} THEN 1 ELSE c[s \ {Max(s)}] * e[Max(s)]])
  OBVIOUS
<1>11. g = [s \in SUBSET DOMAIN e |-> IF s = {} THEN 1 ELSE g[s \ {Max(s)}] * e[Max(s)]]
  BY <1>9, <1>10
<1>12. Product(e) = g[1 .. n]
  BY <1>2, <1>10 DEF Product, FoldLeft, MapThenFoldSet
<1>13. g[{}] = 1
  BY <1>11
<1>14. ASSUME NEW k \in 1 .. n PROVE g[1 .. k] = g[1 .. k - 1] * e[k]
  <2>1. /\ 1 .. k \in SUBSET DOMAIN e /\ 1 .. k # {}
        /\ Max(1 .. k) = k /\ (1 .. k) \ {k} = 1 .. k - 1
    BY <1>2, Prefix
  <2>2. g[1 .. k] = g[(1 .. k) \ {Max(1 .. k)}] * e[Max(1 .. k)]
    BY <1>11, <2>1
  <2>3. QED
    BY <2>1, <2>2
<1>15. \A k \in 1 .. n : g[1 .. k - 1] \in Positive => g[1 .. k] = h[<<k, g[1 .. k - 1]>>]
  BY <1>5, <1>14
<1>16. PICK p : Partial(p, n, Positive, 1, h) /\ g[1 .. n] = p[n]
  <2>1. Folds(g, n, Positive, 1, h)
    BY <1>2, <1>4, <1>6, <1>13, <1>15 DEF Folds
  <2>2. QED
    BY <2>1, FoldPartial
<1>17. \A k \in 1 .. n : p[k] = p[k - 1] * e[k]
  <2>1. \A k \in 1 .. n : k - 1 \in 0 .. n
    BY <1>2
  <2>2. QED
    BY <1>5, <1>16, <2>1 DEF Partial
<1>18. QED
  BY <1>1, <1>12, <1>16, <1>17 DEF Partial, Products

LEMMA SumFold ==
  ASSUME NEW n \in Nat, NEW q \in [1 .. n -> Nat]
  PROVE  \E p : /\ p \in [0 .. n -> Nat] /\ p[0] = 0 /\ \A k \in 1 .. n : p[k] = p[k - 1] + q[k]
                /\ FoldLeft(LAMBDA a, b : a + b, 0, q) = p[n]
<1>1. DOMAIN q = 1 .. n
  OBVIOUS
<1>2. PICK h : h = [x \in (1 .. n) \X Nat |-> x[2] + q[x[1]]]
  OBVIOUS
<1>3. h \in [(1 .. n) \X Nat -> Nat]
  BY <1>2
<1>4. \A k \in 1 .. n, v \in Nat : h[<<k, v>>] = v + q[k]
  BY <1>2
<1>5. PICK f : Solves(f, n, Nat, 0, h)
  BY <1>3, FoldExists
<1>6. ASSUME NEW u \in SUBSET (1 .. n), u # {}
      PROVE  h[<<Max(u), f[u \ {Max(u)}]>>] = f[u \ {Max(u)}] + q[Max(u)]
  <2>1. Max(u) \in 1 .. n
    BY <1>6, MaxIn
  <2>2. f[u \ {Max(u)}] \in Nat
    BY <1>5 DEF Solves
  <2>3. QED
    BY <1>4, <2>1, <2>2
<1>7. f = [u \in SUBSET DOMAIN q |-> IF u = {} THEN 0 ELSE f[u \ {Max(u)}] + q[Max(u)]]
  BY <1>1, <1>5, <1>6 DEF Solves
<1>8. PICK g : g = (CHOOSE c : c = [u \in SUBSET DOMAIN q |->
                                     IF u = {} THEN 0 ELSE c[u \ {Max(u)}] + q[Max(u)]])
  OBVIOUS
<1>9. g = [u \in SUBSET DOMAIN q |-> IF u = {} THEN 0 ELSE g[u \ {Max(u)}] + q[Max(u)]]
  BY <1>7, <1>8
<1>10. FoldLeft(LAMBDA a, b : a + b, 0, q) = g[1 .. n]
  BY <1>1, <1>8 DEF FoldLeft, MapThenFoldSet
<1>11. g[{}] = 0
  BY <1>9
<1>12. ASSUME NEW k \in 1 .. n PROVE g[1 .. k] = g[1 .. k - 1] + q[k]
  <2>1. /\ 1 .. k \in SUBSET DOMAIN q /\ 1 .. k # {}
        /\ Max(1 .. k) = k /\ (1 .. k) \ {k} = 1 .. k - 1
    BY <1>1, Prefix
  <2>2. g[1 .. k] = g[(1 .. k) \ {Max(1 .. k)}] + q[Max(1 .. k)]
    BY <1>9, <2>1
  <2>3. QED
    BY <2>1, <2>2
<1>13. \A k \in 1 .. n : g[1 .. k - 1] \in Nat => g[1 .. k] = h[<<k, g[1 .. k - 1]>>]
  BY <1>4, <1>12
<1>14. PICK p : Partial(p, n, Nat, 0, h) /\ g[1 .. n] = p[n]
  <2>1. Folds(g, n, Nat, 0, h)
    BY <1>3, <1>11, <1>13 DEF Folds
  <2>2. QED
    BY <2>1, FoldPartial
<1>15. \A k \in 1 .. n : p[k] = p[k - 1] + q[k]
  <2>1. \A k \in 1 .. n : k - 1 \in 0 .. n
    OBVIOUS
  <2>2. QED
    BY <1>4, <1>14, <2>1 DEF Partial
<1>16. QED
  BY <1>10, <1>14, <1>15 DEF Partial

(* Offsets: p[k] is the part of the first k dimensions.                    *)
Offsets(p, n, i, s) ==
  p \in [0 .. n -> Nat] /\ p[0] = 0 /\ \A k \in 1 .. n : p[k] = p[k - 1] + i[k] * s[k]

LEMMA OffsetFold ==
  ASSUME NEW n \in Nat, NEW i \in [1 .. n -> Nat], NEW s \in [1 .. n -> Nat]
  PROVE  \E p : Offsets(p, n, i, s) /\ Offset(i, s) = p[n]
<1>1. PICK q : q = [d \in DOMAIN i |-> i[d] * s[d]]
  OBVIOUS
<1>2. q \in [1 .. n -> Nat] /\ \A k \in 1 .. n : q[k] = i[k] * s[k]
  BY <1>1
<1>3. Offset(i, s) = FoldLeft(LAMBDA a, b : a + b, 0, q)
  BY <1>1 DEF Offset
<1>4. PICK p : /\ p \in [0 .. n -> Nat] /\ p[0] = 0 /\ \A k \in 1 .. n : p[k] = p[k - 1] + q[k]
               /\ FoldLeft(LAMBDA a, b : a + b, 0, q) = p[n]
  BY <1>2, SumFold
<1>5. QED
  BY <1>2, <1>3, <1>4 DEF Offsets

(* Row-major numbers: p[k] is the number of the first k dimensions.        *)
Numbers(p, e, i) ==
  /\ p \in [0 .. Len(e) -> Nat] /\ p[0] = 0
  /\ \A k \in 1 .. Len(e) : p[k] = i[k] + e[k] * p[k - 1]

LEMMA NumberFold ==
  ASSUME NEW e \in Seq(Positive), NEW i \in [DOMAIN e -> Nat]
  PROVE  \E p : Numbers(p, e, i) /\ Number(e, i) = p[Len(e)]
<1>1. PICK n : n = Len(e)
  OBVIOUS
<1>2. n \in Nat /\ DOMAIN e = 1 .. n /\ \A k \in 1 .. n : e[k] \in Nat /\ i[k] \in Nat
  BY <1>1 DEF Positive
<1>3. PICK q : q = [d \in DOMAIN e |-> d]
  OBVIOUS
<1>4. DOMAIN q = 1 .. n /\ \A k \in 1 .. n : q[k] = k
  BY <1>2, <1>3
<1>5. PICK h : h = [x \in (1 .. n) \X Nat |-> i[x[1]] + e[x[1]] * x[2]]
  OBVIOUS
<1>6. h \in [(1 .. n) \X Nat -> Nat]
  <2>1. \A a, b, c \in Nat : a + b * c \in Nat
    OBVIOUS
  <2>2. \A x \in (1 .. n) \X Nat : i[x[1]] \in Nat /\ e[x[1]] \in Nat /\ x[2] \in Nat
    BY <1>2
  <2>3. \A x \in (1 .. n) \X Nat : i[x[1]] + e[x[1]] * x[2] \in Nat
    BY <2>1, <2>2
  <2>4. QED
    BY <1>5, <2>3
<1>7. \A k \in 1 .. n, v \in Nat : h[<<k, v>>] = i[k] + e[k] * v
  BY <1>5
<1>8. PICK f : Solves(f, n, Nat, 0, h)
  BY <1>2, <1>6, FoldExists
<1>9. ASSUME NEW u \in SUBSET (1 .. n), u # {}
      PROVE  h[<<Max(u), f[u \ {Max(u)}]>>] = i[q[Max(u)]] + e[q[Max(u)]] * f[u \ {Max(u)}]
  <2>1. Max(u) \in 1 .. n
    BY <1>2, <1>9, MaxIn
  <2>2. f[u \ {Max(u)}] \in Nat
    BY <1>8 DEF Solves
  <2>3. QED
    BY <1>4, <1>7, <2>1, <2>2
<1>10. f = [u \in SUBSET DOMAIN q |->
              IF u = {} THEN 0 ELSE i[q[Max(u)]] + e[q[Max(u)]] * f[u \ {Max(u)}]]
  BY <1>4, <1>8, <1>9 DEF Solves
<1>11. PICK g : g = (CHOOSE c : c = [u \in SUBSET DOMAIN q |->
              IF u = {} THEN 0 ELSE i[q[Max(u)]] + e[q[Max(u)]] * c[u \ {Max(u)}]])
  OBVIOUS
<1>12. g = [u \in SUBSET DOMAIN q |->
              IF u = {} THEN 0 ELSE i[q[Max(u)]] + e[q[Max(u)]] * g[u \ {Max(u)}]]
  BY <1>10, <1>11
<1>13. Number(e, i) = g[1 .. n]
  BY <1>3, <1>4, <1>11 DEF Number, FoldLeft, MapThenFoldSet
<1>14. g[{}] = 0
  BY <1>12
<1>15. ASSUME NEW k \in 1 .. n PROVE g[1 .. k] = i[k] + e[k] * g[1 .. k - 1]
  <2>1. /\ 1 .. k \in SUBSET DOMAIN q /\ 1 .. k # {}
        /\ Max(1 .. k) = k /\ (1 .. k) \ {k} = 1 .. k - 1
    BY <1>2, <1>4, Prefix
  <2>2. g[1 .. k] = i[q[Max(1 .. k)]] + e[q[Max(1 .. k)]] * g[(1 .. k) \ {Max(1 .. k)}]
    BY <1>12, <2>1
  <2>3. QED
    BY <1>4, <2>1, <2>2
<1>16. \A k \in 1 .. n : g[1 .. k - 1] \in Nat => g[1 .. k] = h[<<k, g[1 .. k - 1]>>]
  BY <1>7, <1>15
<1>17. PICK p : Partial(p, n, Nat, 0, h) /\ g[1 .. n] = p[n]
  <2>1. Folds(g, n, Nat, 0, h)
    BY <1>2, <1>6, <1>14, <1>16 DEF Folds
  <2>2. QED
    BY <2>1, FoldPartial
<1>18. \A k \in 1 .. n : p[k] = i[k] + e[k] * p[k - 1]
  <2>1. \A k \in 1 .. n : k - 1 \in 0 .. n
    BY <1>2
  <2>2. QED
    BY <1>7, <1>17, <2>1 DEF Partial
<1>19. QED
  BY <1>1, <1>13, <1>17, <1>18 DEF Partial, Numbers

(* The bound in Indices does not exclude any index.                        *)
LEMMA BoundFold ==
  ASSUME NEW e \in Seq(Positive)
  PROVE  Indices(e) = {i \in [1 .. Len(e) -> Nat] : \A d \in 1 .. Len(e) : i[d] < e[d]}
<1>1. PICK n : n = Len(e)
  OBVIOUS
<1>2. n \in Nat /\ DOMAIN e = 1 .. n /\ \A k \in 1 .. n : e[k] \in Nat
  BY <1>1 DEF Positive
<1>3. PICK h : h = [x \in (1 .. n) \X Nat |-> IF x[2] > e[x[1]] THEN x[2] ELSE e[x[1]]]
  OBVIOUS
<1>4. h \in [(1 .. n) \X Nat -> Nat]
  <2>1. \A x \in (1 .. n) \X Nat : (IF x[2] > e[x[1]] THEN x[2] ELSE e[x[1]]) \in Nat
    BY <1>2
  <2>2. QED
    BY <1>3, <2>1
<1>5. \A k \in 1 .. n, v \in Nat : h[<<k, v>>] = IF v > e[k] THEN v ELSE e[k]
  BY <1>3
<1>6. PICK f : Solves(f, n, Nat, 0, h)
  BY <1>2, <1>4, FoldExists
<1>7. ASSUME NEW u \in SUBSET (1 .. n), u # {}
      PROVE  h[<<Max(u), f[u \ {Max(u)}]>>] =
               IF f[u \ {Max(u)}] > e[Max(u)] THEN f[u \ {Max(u)}] ELSE e[Max(u)]
  <2>1. Max(u) \in 1 .. n
    BY <1>2, <1>7, MaxIn
  <2>2. f[u \ {Max(u)}] \in Nat
    BY <1>6 DEF Solves
  <2>3. QED
    BY <1>5, <2>1, <2>2
<1>8. f = [u \in SUBSET DOMAIN e |-> IF u = {} THEN 0 ELSE
             IF f[u \ {Max(u)}] > e[Max(u)] THEN f[u \ {Max(u)}] ELSE e[Max(u)]]
  BY <1>2, <1>6, <1>7 DEF Solves
<1>9. PICK g : g = (CHOOSE c : c = [u \in SUBSET DOMAIN e |-> IF u = {} THEN 0 ELSE
             IF c[u \ {Max(u)}] > e[Max(u)] THEN c[u \ {Max(u)}] ELSE e[Max(u)]])
  OBVIOUS
<1>10. g = [u \in SUBSET DOMAIN e |-> IF u = {} THEN 0 ELSE
             IF g[u \ {Max(u)}] > e[Max(u)] THEN g[u \ {Max(u)}] ELSE e[Max(u)]]
  BY <1>8, <1>9
<1>11. Indices(e) = {i \in [DOMAIN e -> 0 .. g[1 .. n]] : \A d \in DOMAIN e : i[d] < e[d]}
  BY <1>2, <1>9 DEF Indices, FoldLeft, MapThenFoldSet
<1>12. g[{}] = 0
  BY <1>10
<1>13. ASSUME NEW k \in 1 .. n
       PROVE  g[1 .. k] = IF g[1 .. k - 1] > e[k] THEN g[1 .. k - 1] ELSE e[k]
  <2>1. /\ 1 .. k \in SUBSET DOMAIN e /\ 1 .. k # {}
        /\ Max(1 .. k) = k /\ (1 .. k) \ {k} = 1 .. k - 1
    BY <1>2, Prefix
  <2>2. g[1 .. k] = IF g[(1 .. k) \ {Max(1 .. k)}] > e[Max(1 .. k)]
                    THEN g[(1 .. k) \ {Max(1 .. k)}] ELSE e[Max(1 .. k)]
    BY <1>10, <2>1
  <2>3. QED
    BY <2>1, <2>2
<1>14. \A k \in 1 .. n : g[1 .. k - 1] \in Nat => g[1 .. k] = h[<<k, g[1 .. k - 1]>>]
  BY <1>5, <1>13
<1>15. PICK p : Partial(p, n, Nat, 0, h) /\ g[1 .. n] = p[n]
  <2>1. Folds(g, n, Nat, 0, h)
    BY <1>2, <1>4, <1>12, <1>14 DEF Folds
  <2>2. QED
    BY <2>1, FoldPartial
<1>16. \A k \in 1 .. n : p[k] >= e[k] /\ p[k] >= p[k - 1]
  <2>1. \A k \in 1 .. n : k - 1 \in 0 .. n /\ p[k - 1] \in Nat
    BY <1>2, <1>15 DEF Partial
  <2>2. \A k \in 1 .. n : p[k] = IF p[k - 1] > e[k] THEN p[k - 1] ELSE e[k]
    BY <1>5, <1>15, <2>1 DEF Partial
  <2>3. QED
    BY <1>2, <2>1, <2>2
<1>17. ASSUME NEW d \in 1 .. n PROVE p[n] >= e[d]
  <2>2. p \in [0 .. n -> Nat]
    BY <1>15 DEF Partial
  <2>3. PICK U : U = {k \in 0 .. n : p[n] >= p[k]}
    OBVIOUS
  <2>4. n \in U
    BY <1>2, <2>2, <2>3
  <2>5. ASSUME NEW k \in 1 .. n, k \in U PROVE k - 1 \in U
    <3>1. k \in 0 .. n /\ k - 1 \in 0 .. n /\ n \in 0 .. n
      BY <1>2
    <3>2. p[n] >= p[k] /\ p[k] >= p[k - 1] /\ p[n] \in Nat /\ p[k] \in Nat /\ p[k - 1] \in Nat
      BY <1>16, <2>2, <2>3, <2>5, <3>1
    <3>3. QED
      BY <2>3, <3>1, <3>2
  <2>6. 0 .. n \subseteq U
    BY <1>2, <2>4, <2>5, Downward
  <2>7. d \in 0 .. n /\ n \in 0 .. n
    BY <1>2
  <2>8. p[n] >= p[d] /\ p[d] >= e[d] /\ p[n] \in Nat /\ p[d] \in Nat /\ e[d] \in Nat
    BY <1>2, <1>16, <2>2, <2>3, <2>6, <2>7
  <2>9. QED
    BY <2>8
<1>18. g[1 .. n] \in Nat /\ \A d \in 1 .. n : g[1 .. n] >= e[d]
  BY <1>2, <1>15, <1>17 DEF Partial
<1>19. ASSUME NEW i PROVE i \in Indices(e) <=> i \in [1 .. n -> Nat] /\ \A d \in 1 .. n : i[d] < e[d]
  <2>1. ASSUME i \in [1 .. n -> Nat], \A d \in 1 .. n : i[d] < e[d]
        PROVE  i \in [1 .. n -> 0 .. g[1 .. n]]
    <3>1. \A d \in 1 .. n : i[d] \in Nat /\ i[d] < e[d] /\ e[d] \in Nat /\ g[1 .. n] >= e[d]
      BY <1>2, <1>18, <2>1
    <3>2. \A d \in 1 .. n : i[d] \in 0 .. g[1 .. n]
      BY <1>18, <3>1
    <3>3. QED
      BY <2>1, <3>2
  <2>2. 0 .. g[1 .. n] \subseteq Nat
    BY <1>18
  <2>3. i \in Indices(e) <=> i \in [1 .. n -> 0 .. g[1 .. n]] /\ \A d \in 1 .. n : i[d] < e[d]
    BY <1>2, <1>11
  <2>4. QED
    BY <2>1, <2>2, <2>3
<1>20. QED
  BY <1>1, <1>19

-----------------------------------------------------------------------------
(* Digits: a number below s and a multiple of s tell each other apart.     *)

LEMMA Times ==
  ASSUME NEW a \in Nat, NEW b \in Nat, NEW c \in Nat, a <= b
  PROVE  a * c <= b * c /\ a * c \in Nat /\ b * c \in Nat
<1>1. (b - a) * c \in Nat /\ b - a \in Nat
  OBVIOUS
<1>2. b * c = a * c + (b - a) * c
  OBVIOUS
<1>3. QED
  BY <1>1, <1>2

LEMMA Digit ==
  ASSUME NEW x \in Nat, NEW i \in Nat, NEW e \in Nat, NEW s \in Nat, x < s, i < e
  PROVE  x + i * s < e * s /\ i * s \in Nat /\ e * s \in Nat
<1>1. i + 1 \in Nat /\ i + 1 <= e
  OBVIOUS
<1>2. (i + 1) * s <= e * s /\ e * s \in Nat
  BY <1>1, Times
<1>3. (i + 1) * s = i * s + s /\ i * s \in Nat
  OBVIOUS
<1>4. QED
  BY <1>2, <1>3

LEMMA SameDigit ==
  ASSUME NEW x \in Nat, NEW y \in Nat, NEW i \in Nat, NEW j \in Nat, NEW s \in Nat,
         x < s, y < s, x + i * s = y + j * s
  PROVE  i = j /\ x = y
<1>1. ASSUME NEW a \in Nat, NEW b \in Nat, NEW k \in Nat, NEW l \in Nat, a < s, k < l
      PROVE  a + k * s # b + l * s
  <2>1. a + k * s < l * s /\ l * s \in Nat /\ k * s \in Nat
    BY <1>1, Digit
  <2>2. QED
    BY <2>1
<1>2. ~ (i < j) /\ ~ (j < i)
  BY <1>1
<1>3. i = j
  BY <1>2
<1>4. i * s \in Nat /\ x + i * s = y + i * s
  BY <1>3
<1>5. QED
  BY <1>3, <1>4

(* Every number below e * s has a digit.                                   *)
LEMMA HasDigit ==
  ASSUME NEW x \in Nat, NEW s \in Positive, NEW e \in Nat, x < e * s
  PROVE  \E i \in Nat, r \in Nat : r < s /\ i < e /\ x = r + i * s
<1>1. PICK T : T = {k \in 0 .. e : \E i \in Nat, r \in Nat : x < k * s => r < s /\ i < k /\ x = r + i * s}
  OBVIOUS
<1>2. 0 \in T
  <2>1. ~ (x < 0 * s)
    BY DEF Positive
  <2>2. 0 \in 0 .. e
    OBVIOUS
  <2>3. QED
    BY <1>1, <2>1, <2>2
<1>3. ASSUME NEW k \in 1 .. e, k - 1 \in T PROVE k \in T
  <2>1. k \in Nat /\ k - 1 \in Nat /\ s \in Nat
    BY DEF Positive
  <2>2. k * s = (k - 1) * s + s /\ (k - 1) * s \in Nat
    BY <2>1
  <2>3. \E i \in Nat, r \in Nat : x < k * s => r < s /\ i < k /\ x = r + i * s
    <3>1. CASE x < (k - 1) * s
      <4>1. PICK i \in Nat, r \in Nat : r < s /\ i < k - 1 /\ x = r + i * s
        BY <1>1, <1>3, <3>1
      <4>2. i < k
        BY <2>1, <4>1
      <4>3. QED
        BY <4>1, <4>2
    <3>2. CASE ~ (x < (k - 1) * s)
      <4>1. PICK r : r = x - (k - 1) * s
        OBVIOUS
      <4>2. r \in Nat /\ x = r + (k - 1) * s /\ (x < k * s => r < s) /\ k - 1 < k
        BY <2>1, <2>2, <3>2, <4>1
      <4>3. QED
        BY <2>1, <4>2
    <3>3. QED
      BY <3>1, <3>2
  <2>4. k \in 0 .. e
    OBVIOUS
  <2>5. QED
    BY <1>1, <2>3, <2>4
<1>4. 0 .. e \subseteq T
  BY <1>2, <1>3, Upward
<1>5. e \in T
  BY <1>4
<1>6. QED
  BY <1>1, <1>5

-----------------------------------------------------------------------------
(* Products of extents.                                                    *)

LEMMA Extents ==
  ASSUME NEW e \in Seq(Positive)
  PROVE  /\ Len(e) \in Nat /\ DOMAIN e = 1 .. Len(e)
         /\ \A k \in 1 .. Len(e) : e[k] \in Positive /\ e[k] \in Nat /\ e[k] - 1 \in Nat
  BY DEF Positive

LEMMA ProductUnique ==
  ASSUME NEW e \in Seq(Positive), NEW p, Products(p, e)
  PROVE  Product(e) = p[Len(e)]
<1>1. PICK n : n = Len(e)
  OBVIOUS
<1>2. PICK r : Products(r, e) /\ Product(e) = r[n]
  BY <1>1, ProductFold
<1>3. PICK T : T = {k \in 0 .. n : p[k] = r[k]}
  OBVIOUS
<1>4. n \in Nat /\ 0 \in T
  BY <1>1, <1>2, <1>3 DEF Products
<1>5. \A k \in 1 .. n : p[k] = p[k - 1] * e[k] /\ r[k] = r[k - 1] * e[k] /\ k \in 0 .. n
  BY <1>1, <1>2 DEF Products
<1>6. \A k \in 1 .. n : k - 1 \in T => k \in T
  BY <1>3, <1>5
<1>7. 0 .. n \subseteq T
  BY <1>4, <1>6, Upward
<1>8. n \in T
  BY <1>4, <1>7
<1>9. QED
  BY <1>1, <1>2, <1>3, <1>8

LEMMA LeftProducts ==
  ASSUME NEW e \in Seq(Positive), NEW p, Products(p, e)
  PROVE  /\ DOMAIN LeftStrides(e) = 1 .. Len(e)
         /\ \A d \in 1 .. Len(e) : LeftStrides(e)[d] = p[d - 1]
<1>1. DOMAIN e = 1 .. Len(e) /\ Len(e) \in Nat
  OBVIOUS
<1>2. ASSUME NEW d \in 1 .. Len(e) PROVE Product(SubSeq(e, 1, d - 1)) = p[d - 1]
  <2>1. PICK f, m : f = SubSeq(e, 1, d - 1) /\ m = d - 1
    OBVIOUS
  <2>2. m \in Nat /\ m <= Len(e)
    BY <1>1, <2>1
  <2>3. f \in Seq(Positive) /\ Len(f) = m /\ \A k \in 1 .. m : f[k] = e[k]
    BY <2>1, <2>2, SubSeqProperties
  <2>4. PICK r : r = [k \in 0 .. m |-> p[k]]
    OBVIOUS
  <2>5. 0 .. m \subseteq 0 .. Len(e) /\ 1 .. m \subseteq 1 .. Len(e) /\ \A k \in 1 .. m : k - 1 \in 0 .. m
    BY <2>2
  <2>6. Products(r, f)
    <3>1. p \in [0 .. Len(e) -> Positive] /\ p[0] = 1
          /\ \A k \in 1 .. Len(e) : p[k] = p[k - 1] * e[k]
      BY DEF Products
    <3>2. \A k \in 0 .. m : p[k] \in Positive /\ r[k] = p[k]
      BY <2>4, <2>5, <3>1
    <3>3. r \in [0 .. m -> Positive]
      BY <2>4, <3>2
    <3>4. r[0] = 1
      BY <2>2, <3>1, <3>2
    <3>5. ASSUME NEW k \in 1 .. m PROVE r[k] = r[k - 1] * f[k]
      <4>1. k \in 0 .. m /\ k - 1 \in 0 .. m /\ k \in 1 .. Len(e)
        BY <2>2, <2>5
      <4>2. QED
        BY <2>3, <3>1, <3>2, <4>1
    <3>6. QED
      BY <2>3, <3>3, <3>4, <3>5 DEF Products
  <2>7. Product(f) = r[m]
    BY <2>3, <2>6, ProductUnique
  <2>8. QED
    BY <2>1, <2>2, <2>4, <2>7
<1>3. QED
  BY <1>1, <1>2 DEF LeftStrides

LEMMA ProductHead ==
  ASSUME NEW s \in Seq(Positive), NEW t \in Seq(Positive), Len(s) = Len(t) + 1,
         \A k \in 1 .. Len(t) : s[k + 1] = t[k]
  PROVE  Product(s) = s[1] * Product(t)
<1>1. PICK p : Products(p, s) /\ Product(s) = p[Len(s)]
  BY ProductFold
<1>2. PICK r : Products(r, t) /\ Product(t) = r[Len(t)]
  BY ProductFold
<1>3. PICK n : n = Len(t)
  OBVIOUS
<1>4. PICK a : a = s[1]
  OBVIOUS
<1>5. n \in Nat /\ a \in Nat /\ Len(s) = n + 1 /\ 1 \in 1 .. n + 1
  BY <1>3, <1>4 DEF Positive
<1>6. PICK T : T = {k \in 0 .. n : p[k + 1] = a * r[k]}
  OBVIOUS
<1>7. 0 \in T
  <2>1. p[1] = p[0] * s[1] /\ p[0] = 1 /\ r[0] = 1
    BY <1>1, <1>2, <1>5 DEF Products
  <2>2. p[1] = a * r[0]
    BY <1>4, <1>5, <2>1
  <2>3. QED
    BY <1>5, <1>6, <2>2
<1>8. ASSUME NEW k \in 1 .. n, k - 1 \in T PROVE k \in T
  <2>1. k \in 0 .. n /\ k - 1 \in 0 .. n /\ k + 1 \in 1 .. n + 1 /\ (k + 1) - 1 = k /\ (k - 1) + 1 = k
    BY <1>5
  <2>2. p[k + 1] = p[k] * s[k + 1] /\ r[k] = r[k - 1] * t[k] /\ s[k + 1] = t[k]
    BY <1>1, <1>2, <1>3, <1>5, <2>1 DEF Products
  <2>3. p[k] = a * r[k - 1]
    BY <1>6, <1>8, <2>1
  <2>4. r[k - 1] \in Nat /\ t[k] \in Nat
    <3>1. r[k - 1] \in Positive
      BY <1>2, <1>3, <2>1 DEF Products
    <3>2. t[k] \in Positive
      BY <1>3
    <3>3. QED
      BY <3>1, <3>2 DEF Positive
  <2>5. \A x, y, z \in Nat : (x * y) * z = x * (y * z)
    OBVIOUS
  <2>6. p[k + 1] = a * r[k]
    BY <1>5, <2>2, <2>3, <2>4, <2>5
  <2>7. QED
    BY <1>6, <2>1, <2>6
<1>9. 0 .. n \subseteq T
  BY <1>5, <1>7, <1>8, Upward
<1>10. n \in T
  BY <1>5, <1>9
<1>11. QED
  BY <1>1, <1>2, <1>3, <1>4, <1>5, <1>6, <1>10

(* Products of the extents after k, times u: q[k].                         *)
Tails(q, e, u) ==
  /\ q \in [0 .. Len(e) -> Positive] /\ q[Len(e)] = u
  /\ \A k \in 1 .. Len(e) : q[k - 1] = e[k] * q[k]

LEMMA RightProducts ==
  ASSUME NEW e \in Seq(Positive)
  PROVE  \E q : /\ Tails(q, e, 1) /\ q[0] = Product(e)
                /\ DOMAIN RightStrides(e) = 1 .. Len(e)
                /\ \A d \in 1 .. Len(e) : RightStrides(e)[d] = q[d]
<1>1. PICK n : n = Len(e)
  OBVIOUS
<1>2. n \in Nat /\ DOMAIN e = 1 .. n
  BY <1>1
<1>3. PICK q : q = [k \in 0 .. n |-> Product(SubSeq(e, k + 1, n))]
  OBVIOUS
<1>4. ASSUME NEW k \in 0 .. n
      PROVE  /\ SubSeq(e, k + 1, n) \in Seq(Positive) /\ Len(SubSeq(e, k + 1, n)) = n - k
             /\ \A l \in 1 .. n - k : SubSeq(e, k + 1, n)[l] = e[k + l]
  <2>1. PICK a : a = k + 1
    OBVIOUS
  <2>2. a \in 1 .. n + 1 /\ n \in a - 1 .. n
    BY <1>2, <2>1
  <2>3. SubSeq(e, a, n) \in Seq(Positive) /\ Len(SubSeq(e, a, n)) = n - a + 1
        /\ \A l \in 1 .. n - a + 1 : SubSeq(e, a, n)[l] = e[a + l - 1]
    BY <1>1, <2>2, SubSeqProperties
  <2>4. n - a + 1 = n - k /\ \A l \in 1 .. n - k : a + l - 1 = k + l
    BY <1>2, <2>1
  <2>5. QED
    BY <2>1, <2>3, <2>4
<1>5. \A k \in 0 .. n : q[k] \in Positive
  <2>1. ASSUME NEW f \in Seq(Positive) PROVE Product(f) \in Positive
    <3>1. PICK p : Products(p, f) /\ Product(f) = p[Len(f)]
      BY ProductFold
    <3>2. p[Len(f)] \in Positive
      BY <3>1 DEF Products
    <3>3. QED
      BY <3>1, <3>2
  <2>2. QED
    BY <1>3, <1>4, <2>1
<1>6. q[n] = 1
  <2>1. PICK f : f = SubSeq(e, n + 1, n)
    OBVIOUS
  <2>2. n \in 0 .. n /\ n - n = 0
    BY <1>2
  <2>3. f \in Seq(Positive) /\ Len(f) = 0
    BY <1>4, <2>1, <2>2
  <2>4. PICK p : Products(p, f) /\ Product(f) = p[0]
    BY <2>3, ProductFold
  <2>5. QED
    BY <1>3, <2>1, <2>2, <2>4 DEF Products
<1>7. ASSUME NEW k \in 1 .. n PROVE q[k - 1] = e[k] * q[k]
  <2>1. PICK s, t : s = SubSeq(e, k, n) /\ t = SubSeq(e, k + 1, n)
    OBVIOUS
  <2>2. k - 1 \in 0 .. n /\ k \in 0 .. n /\ (k - 1) + 1 = k /\ n - (k - 1) = (n - k) + 1 /\ n - k \in Nat
    BY <1>2
  <2>3. t \in Seq(Positive) /\ Len(t) = n - k /\ \A l \in 1 .. n - k : t[l] = e[k + l]
    BY <1>4, <2>1, <2>2
  <2>4. s \in Seq(Positive) /\ Len(s) = (n - k) + 1
        /\ \A l \in 1 .. (n - k) + 1 : s[l] = e[(k - 1) + l]
    BY <1>4, <2>1, <2>2
  <2>5. \A l \in 1 .. n - k : l + 1 \in 1 .. (n - k) + 1 /\ (k - 1) + (l + 1) = k + l
    BY <2>2
  <2>6. \A l \in 1 .. Len(t) : s[l + 1] = t[l]
    BY <2>3, <2>4, <2>5
  <2>7. Product(s) = s[1] * Product(t)
    BY <2>3, <2>4, <2>6, ProductHead
  <2>8. s[1] = e[k]
    <3>1. 1 \in 1 .. (n - k) + 1 /\ (k - 1) + 1 = k
      BY <2>2
    <3>2. QED
      BY <2>4, <3>1
  <2>9. q[k - 1] = Product(s) /\ q[k] = Product(t)
    BY <1>3, <2>1, <2>2
  <2>10. QED
    BY <2>7, <2>8, <2>9
<1>8. Tails(q, e, 1)
  BY <1>1, <1>3, <1>5, <1>6, <1>7 DEF Tails
<1>9. q[0] = Product(e)
  <2>1. SubSeq(e, 1, n) = e
    BY <1>1, SubSeqFull
  <2>2. 0 \in 0 .. n /\ 0 + 1 = 1
    BY <1>2
  <2>3. q[0] = Product(SubSeq(e, 0 + 1, n))
    BY <1>3, <2>2
  <2>4. QED
    BY <2>1, <2>2, <2>3
<1>10. DOMAIN RightStrides(e) = 1 .. n /\ \A d \in 1 .. n : RightStrides(e)[d] = q[d]
  BY <1>1, <1>2, <1>3 DEF RightStrides
<1>11. QED
  BY <1>1, <1>8, <1>9, <1>10

LEMMA TailsUnique ==
  ASSUME NEW e \in Seq(Positive), NEW u \in Positive, NEW q, Tails(q, e, u)
  PROVE  q[0] = u * Product(e)
<1>1. PICK n : n = Len(e)
  OBVIOUS
<1>2. PICK r : Tails(r, e, 1) /\ r[0] = Product(e)
  BY RightProducts
<1>3. PICK T : T = {k \in 0 .. n : q[k] = u * r[k]}
  OBVIOUS
<1>4. n \in Nat /\ u \in Nat
  BY <1>1 DEF Positive
<1>5. n \in T
  BY <1>1, <1>2, <1>3, <1>4 DEF Tails
<1>6. ASSUME NEW k \in 1 .. n, k \in T PROVE k - 1 \in T
  <2>1. k \in 0 .. n /\ k - 1 \in 0 .. n
    BY <1>4
  <2>2. q[k - 1] = e[k] * q[k] /\ r[k - 1] = e[k] * r[k] /\ q[k] = u * r[k]
    BY <1>1, <1>2, <1>3, <1>6 DEF Tails
  <2>3. r[k] \in Positive /\ e[k] \in Positive
    BY <1>1, <1>2, <2>1 DEF Tails
  <2>4. \A x, y, z \in Nat : x * (y * z) = y * (x * z)
    OBVIOUS
  <2>5. q[k - 1] = u * r[k - 1]
    BY <1>4, <2>2, <2>3, <2>4 DEF Positive
  <2>6. QED
    BY <1>3, <2>1, <2>5
<1>7. 0 .. n \subseteq T
  BY <1>4, <1>5, <1>6, Downward
<1>8. 0 \in T
  BY <1>4, <1>7
<1>9. QED
  BY <1>2, <1>3, <1>8

(* Row-major strides of e with an extra extent u at the end.               *)
LEMMA RightOfAppend ==
  ASSUME NEW e \in Seq(Positive), NEW u \in Positive
  PROVE  \E q : /\ Tails(q, e, u)
                /\ DOMAIN SubSeq(RightStrides(Append(e, u)), 1, Len(e)) = 1 .. Len(e)
                /\ \A d \in 1 .. Len(e) : SubSeq(RightStrides(Append(e, u)), 1, Len(e))[d] = q[d]
<1>1. PICK n, f : n = Len(e) /\ f = Append(e, u)
  OBVIOUS
<1>2. /\ n \in Nat /\ f \in Seq(Positive) /\ Len(f) = n + 1
      /\ f[n + 1] = u /\ \A k \in 1 .. n : f[k] = e[k]
  BY <1>1, AppendProperties
<1>3. PICK r : /\ Tails(r, f, 1) /\ DOMAIN RightStrides(f) = 1 .. n + 1
               /\ \A d \in 1 .. n + 1 : RightStrides(f)[d] = r[d]
  BY <1>2, RightProducts
<1>4. /\ r \in [0 .. n + 1 -> Positive] /\ r[n + 1] = 1
      /\ \A k \in 1 .. n + 1 : r[k - 1] = f[k] * r[k]
  BY <1>2, <1>3 DEF Tails
<1>5. PICK q : q = [k \in 0 .. n |-> r[k]]
  OBVIOUS
<1>6. q \in [0 .. n -> Positive] /\ \A k \in 0 .. n : q[k] = r[k]
  BY <1>2, <1>4, <1>5
<1>7. r[n] = u
  <2>1. n + 1 \in 1 .. n + 1 /\ (n + 1) - 1 = n
    BY <1>2
  <2>2. r[n] = u * 1 /\ u \in Nat
    BY <1>2, <1>4, <2>1 DEF Positive
  <2>3. QED
    BY <2>2
<1>8. \A k \in 1 .. n : k \in 0 .. n /\ k - 1 \in 0 .. n /\ k \in 1 .. n + 1 /\ n \in 0 .. n
  BY <1>2
<1>9. Tails(q, e, u)
  <2>1. q[n] = u
    BY <1>2, <1>6, <1>7
  <2>2. \A k \in 1 .. n : q[k - 1] = e[k] * q[k]
    BY <1>2, <1>4, <1>6, <1>8
  <2>3. QED
    BY <1>1, <1>6, <2>1, <2>2 DEF Tails
<1>10. RightStrides(f) \in Seq(Positive) /\ Len(RightStrides(f)) = n + 1
  <2>1. PICK R : R = RightStrides(f)
    OBVIOUS
  <2>2. R \in [1 .. n + 1 -> Positive]
    <3>1. R = [d \in 1 .. n + 1 |-> R[d]]
      BY <1>2, <2>1 DEF RightStrides
    <3>2. \A d \in 1 .. n + 1 : R[d] \in Positive
      BY <1>2, <1>3, <1>4, <2>1
    <3>3. QED
      BY <3>1, <3>2
  <2>3. R \in Seq(Positive) /\ Len(R) = n + 1
    BY <1>2, <2>2
  <2>4. QED
    BY <2>1, <2>3
<1>11. PICK t : t = SubSeq(RightStrides(f), 1, n)
  OBVIOUS
<1>12. /\ t \in Seq(Positive) /\ Len(t) = n /\ \A d \in 1 .. n : t[d] = RightStrides(f)[d]
  BY <1>2, <1>10, <1>11, SubSeqProperties
<1>13. \A d \in 1 .. n : t[d] = q[d]
  BY <1>3, <1>6, <1>8, <1>12
<1>14. DOMAIN t = 1 .. n
  BY <1>12
<1>15. QED
  BY <1>1, <1>9, <1>11, <1>13, <1>14

-----------------------------------------------------------------------------
(* Offsets.  Strides are apart when each holds what the dimensions below   *)
(* it span, in one direction or the other.                                 *)

IsIndex(i, e) == i \in [1 .. Len(e) -> Nat] /\ \A d \in 1 .. Len(e) : i[d] < e[d]

Rising(e, s) ==
  /\ s \in [1 .. Len(e) -> Positive]
  /\ \A d \in 1 .. Len(e) : d + 1 \in 1 .. Len(e) => e[d] * s[d] <= s[d + 1]

Falling(e, s) ==
  /\ s \in [1 .. Len(e) -> Positive]
  /\ \A d \in 1 .. Len(e) : d + 1 \in 1 .. Len(e) => e[d + 1] * s[d + 1] <= s[d]

LEMMA IndicesAre ==
  ASSUME NEW e \in Seq(Positive), NEW i
  PROVE  i \in Indices(e) <=> IsIndex(i, e)
BY BoundFold DEF IsIndex

LEMMA OffsetUnique ==
  ASSUME NEW n \in Nat, NEW i \in [1 .. n -> Nat], NEW s \in [1 .. n -> Nat], NEW p, Offsets(p, n, i, s)
  PROVE  Offset(i, s) = p[n]
<1>1. PICK r : Offsets(r, n, i, s) /\ Offset(i, s) = r[n]
  BY OffsetFold
<1>2. PICK T : T = {k \in 0 .. n : p[k] = r[k]}
  OBVIOUS
<1>3. 0 \in T
  BY <1>1, <1>2 DEF Offsets
<1>4. \A k \in 1 .. n : p[k] = p[k - 1] + i[k] * s[k] /\ r[k] = r[k - 1] + i[k] * s[k] /\ k \in 0 .. n
  BY <1>1 DEF Offsets
<1>5. \A k \in 1 .. n : k - 1 \in T => k \in T
  BY <1>2, <1>4
<1>6. 0 .. n \subseteq T
  BY <1>3, <1>5, Upward
<1>7. n \in T
  BY <1>6
<1>8. QED
  BY <1>1, <1>2, <1>7

LEMMA RisingBound ==
  ASSUME NEW e \in Seq(Positive), NEW s, Rising(e, s), NEW i, IsIndex(i, e),
         NEW p, Offsets(p, Len(e), i, s), NEW k \in 1 .. Len(e)
  PROVE  p[k - 1] < s[k]
<1>1. PICK n : n = Len(e)
  OBVIOUS
<1>2. PICK T : T = {m \in 0 .. n : m + 1 \in 1 .. n => p[m] < s[m + 1]}
  OBVIOUS
<1>3. n \in Nat /\ s \in [1 .. n -> Positive] /\ p[0] = 0
  BY <1>1 DEF Rising, Offsets
<1>4. 0 \in T
  BY <1>2, <1>3 DEF Positive
<1>5. ASSUME NEW m \in 1 .. n, m - 1 \in T PROVE m \in T
  <2>1. m \in 0 .. n /\ m - 1 \in 0 .. n /\ (m - 1) + 1 = m
    BY <1>3
  <2>2. p[m - 1] < s[m]
    BY <1>2, <1>5, <2>1
  <2>3. p[m] = p[m - 1] + i[m] * s[m] /\ p[m - 1] \in Nat /\ p[m] \in Nat
    BY <1>1, <2>1 DEF Offsets
  <2>4. i[m] \in Nat /\ i[m] < e[m] /\ e[m] \in Nat /\ s[m] \in Nat
    BY <1>1, <1>3, Extents DEF IsIndex, Positive
  <2>5. p[m] < e[m] * s[m] /\ e[m] * s[m] \in Nat
    <3>1. PICK x, c, f, t : x = p[m - 1] /\ c = i[m] /\ f = e[m] /\ t = s[m]
      OBVIOUS
    <3>2. x \in Nat /\ c \in Nat /\ f \in Nat /\ t \in Nat /\ x < t /\ c < f
      BY <2>2, <2>3, <2>4, <3>1
    <3>3. x + c * t < f * t /\ f * t \in Nat
      BY <3>2, Digit
    <3>4. QED
      BY <2>3, <3>1, <3>3
  <2>6. ASSUME m + 1 \in 1 .. n PROVE p[m] < s[m + 1]
    <3>1. e[m] * s[m] <= s[m + 1] /\ s[m + 1] \in Nat
      BY <1>1, <1>3, <2>6 DEF Rising, Positive
    <3>2. QED
      BY <2>3, <2>5, <3>1
  <2>7. QED
    BY <1>2, <2>1, <2>6
<1>6. 0 .. n \subseteq T
  BY <1>3, <1>4, <1>5, Upward
<1>7. k - 1 \in 0 .. n /\ (k - 1) + 1 = k /\ k \in 1 .. n
  BY <1>1, <1>3
<1>8. QED
  BY <1>2, <1>6, <1>7

LEMMA RisingApart ==
  ASSUME NEW e \in Seq(Positive), NEW s, Rising(e, s), NEW i, IsIndex(i, e), NEW j, IsIndex(j, e),
         Offset(i, s) = Offset(j, s)
  PROVE  i = j
<1>1. PICK n : n = Len(e)
  OBVIOUS
<1>2. n \in Nat /\ s \in [1 .. n -> Nat] /\ i \in [1 .. n -> Nat] /\ j \in [1 .. n -> Nat]
  BY <1>1 DEF Rising, IsIndex, Positive
<1>3. PICK p : Offsets(p, n, i, s) /\ Offset(i, s) = p[n]
  BY <1>2, OffsetFold
<1>4. PICK r : Offsets(r, n, j, s) /\ Offset(j, s) = r[n]
  BY <1>2, OffsetFold
<1>5. PICK T : T = {k \in 0 .. n : p[k] = r[k]}
  OBVIOUS
<1>6. n \in T
  <2>1. n \in 0 .. n
    BY <1>2
  <2>2. QED
    BY <1>3, <1>4, <1>5, <2>1
<1>7. ASSUME NEW k \in 1 .. n, k \in T PROVE k - 1 \in T /\ i[k] = j[k]
  <2>1. k \in 0 .. n /\ k - 1 \in 0 .. n
    BY <1>2
  <2>2. p[k] = p[k - 1] + i[k] * s[k] /\ r[k] = r[k - 1] + j[k] * s[k]
        /\ p[k - 1] \in Nat /\ r[k - 1] \in Nat
    BY <1>3, <1>4, <2>1 DEF Offsets
  <2>3. p[k - 1] < s[k] /\ r[k - 1] < s[k]
    BY <1>1, <1>3, <1>4, RisingBound
  <2>4. i[k] \in Nat /\ j[k] \in Nat /\ s[k] \in Nat
    BY <1>2
  <2>5. p[k - 1] + i[k] * s[k] = r[k - 1] + j[k] * s[k]
    BY <1>5, <1>7, <2>2
  <2>6. i[k] = j[k] /\ p[k - 1] = r[k - 1]
    <3>1. PICK x, y, c, d, t : x = p[k - 1] /\ y = r[k - 1] /\ c = i[k] /\ d = j[k] /\ t = s[k]
      OBVIOUS
    <3>2. /\ x \in Nat /\ y \in Nat /\ c \in Nat /\ d \in Nat /\ t \in Nat
          /\ x < t /\ y < t
      BY <2>2, <2>3, <2>4, <3>1
    <3>3. x + c * t = y + d * t
      BY <2>5, <3>1
    <3>4. c = d /\ x = y
      BY <3>2, <3>3, SameDigit
    <3>5. QED
      BY <3>1, <3>4
  <2>7. QED
    BY <1>5, <2>1, <2>6
<1>8. 0 .. n \subseteq T
  BY <1>2, <1>6, <1>7, Downward
<1>9. \A k \in 1 .. n : i[k] = j[k]
  BY <1>2, <1>7, <1>8
<1>10. QED
  BY <1>2, <1>9

LEMMA FallingBound ==
  ASSUME NEW e \in Seq(Positive), NEW s, Falling(e, s), NEW i, IsIndex(i, e),
         NEW p, Offsets(p, Len(e), i, s), NEW k \in 1 .. Len(e)
  PROVE  p[Len(e)] - p[k] \in Nat /\ p[Len(e)] - p[k] < s[k]
<1>1. PICK n : n = Len(e)
  OBVIOUS
<1>2. PICK T : T = {m \in 0 .. n : m \in 1 .. n => p[n] - p[m] \in Nat /\ p[n] - p[m] < s[m]}
  OBVIOUS
<1>3. n \in Nat /\ s \in [1 .. n -> Positive] /\ p \in [0 .. n -> Nat]
  BY <1>1 DEF Falling, Offsets
<1>4. n \in T
  <2>1. n \in 0 .. n /\ p[n] \in Nat /\ p[n] - p[n] = 0
    BY <1>3
  <2>2. QED
    BY <1>2, <1>3, <2>1 DEF Positive
<1>5. ASSUME NEW m \in 1 .. n, m \in T PROVE m - 1 \in T
  <2>1. m \in 0 .. n /\ m - 1 \in 0 .. n /\ (m - 1) + 1 = m
    BY <1>3
  <2>2. p[n] - p[m] \in Nat /\ p[n] - p[m] < s[m]
    BY <1>2, <1>5
  <2>3. p[m] = p[m - 1] + i[m] * s[m] /\ p[m - 1] \in Nat /\ p[m] \in Nat
    BY <1>1, <2>1 DEF Offsets
  <2>4. i[m] \in Nat /\ i[m] < e[m] /\ e[m] \in Nat /\ s[m] \in Nat
    BY <1>1, <1>3, Extents DEF IsIndex, Positive
  <2>5. PICK x : x = p[n] - p[m]
    OBVIOUS
  <2>6. x + i[m] * s[m] < e[m] * s[m] /\ i[m] * s[m] \in Nat /\ e[m] * s[m] \in Nat
    BY <2>2, <2>4, <2>5, Digit
  <2>7. p[n] - p[m - 1] = x + i[m] * s[m]
    <3>1. PICK a, b, c, g : a = p[n] /\ b = p[m] /\ c = p[m - 1] /\ g = i[m] * s[m]
      OBVIOUS
    <3>2. a \in Nat /\ b \in Nat /\ c \in Nat /\ g \in Nat /\ b = c + g /\ x = a - b
      BY <1>3, <2>3, <2>5, <2>6, <3>1
    <3>3. a - c = x + g
      BY <3>2
    <3>4. QED
      BY <3>1, <3>3
  <2>8. ASSUME m - 1 \in 1 .. n PROVE p[n] - p[m - 1] \in Nat /\ p[n] - p[m - 1] < s[m - 1]
    <3>1. e[m] * s[m] <= s[m - 1] /\ s[m - 1] \in Nat
      BY <1>1, <1>3, <2>1, <2>8 DEF Falling, Positive
    <3>2. QED
      BY <2>2, <2>5, <2>6, <2>7, <3>1
  <2>9. QED
    BY <1>2, <2>1, <2>8
<1>6. 0 .. n \subseteq T
  BY <1>3, <1>4, <1>5, Downward
<1>7. k \in 0 .. n /\ k \in 1 .. n
  BY <1>1, <1>3
<1>8. QED
  BY <1>1, <1>2, <1>6, <1>7

LEMMA FallingApart ==
  ASSUME NEW e \in Seq(Positive), NEW s, Falling(e, s), NEW i, IsIndex(i, e), NEW j, IsIndex(j, e),
         Offset(i, s) = Offset(j, s)
  PROVE  i = j
<1>1. PICK n : n = Len(e)
  OBVIOUS
<1>2. n \in Nat /\ s \in [1 .. n -> Nat] /\ i \in [1 .. n -> Nat] /\ j \in [1 .. n -> Nat]
  BY <1>1 DEF Falling, IsIndex, Positive
<1>3. PICK p : Offsets(p, n, i, s) /\ Offset(i, s) = p[n]
  BY <1>2, OffsetFold
<1>4. PICK r : Offsets(r, n, j, s) /\ Offset(j, s) = r[n]
  BY <1>2, OffsetFold
<1>5. PICK T : T = {k \in 0 .. n : p[k] = r[k]}
  OBVIOUS
<1>6. 0 \in T
  BY <1>2, <1>3, <1>4, <1>5 DEF Offsets
<1>7. ASSUME NEW k \in 1 .. n, k - 1 \in T PROVE k \in T /\ i[k] = j[k]
  <2>1. k \in 0 .. n /\ k - 1 \in 0 .. n /\ n \in 0 .. n
    BY <1>2
  <2>2. p[k] = p[k - 1] + i[k] * s[k] /\ r[k] = r[k - 1] + j[k] * s[k]
    BY <1>3, <1>4 DEF Offsets
  <2>3. p[k - 1] \in Nat /\ r[k - 1] \in Nat /\ p[k] \in Nat /\ r[k] \in Nat /\ p[n] \in Nat /\ r[n] \in Nat
    BY <1>3, <1>4, <2>1 DEF Offsets
  <2>4. p[n] - p[k] \in Nat /\ p[n] - p[k] < s[k] /\ r[n] - r[k] \in Nat /\ r[n] - r[k] < s[k]
    BY <1>1, <1>3, <1>4, FallingBound
  <2>5. i[k] \in Nat /\ j[k] \in Nat /\ s[k] \in Nat /\ i[k] * s[k] \in Nat /\ j[k] * s[k] \in Nat
    BY <1>2
  <2>6. PICK x, y : x = p[n] - p[k] /\ y = r[n] - r[k]
    OBVIOUS
  <2>7. p[n] = r[n] /\ p[k - 1] = r[k - 1]
    BY <1>3, <1>4, <1>5, <1>7
  <2>8. x + i[k] * s[k] = y + j[k] * s[k]
    <3>1. PICK a, b : a = i[k] * s[k] /\ b = j[k] * s[k]
      OBVIOUS
    <3>2. a \in Nat /\ b \in Nat /\ p[k] = p[k - 1] + a /\ r[k] = r[k - 1] + b
      BY <2>2, <2>5, <3>1
    <3>3. PICK pn, pk, rk, pl : pn = p[n] /\ pk = p[k] /\ rk = r[k] /\ pl = p[k - 1]
      OBVIOUS
    <3>4. /\ pn \in Nat /\ pk \in Nat /\ rk \in Nat /\ pl \in Nat /\ a \in Nat /\ b \in Nat
          /\ pk = pl + a /\ rk = pl + b /\ x = pn - pk /\ y = pn - rk
      BY <2>3, <2>6, <2>7, <3>2, <3>3
    <3>5. x + a = y + b
      BY <3>4
    <3>6. QED
      BY <3>1, <3>5
  <2>9. i[k] = j[k] /\ x = y
    <3>1. PICK c, d, t : c = i[k] /\ d = j[k] /\ t = s[k]
      OBVIOUS
    <3>2. /\ x \in Nat /\ y \in Nat /\ c \in Nat /\ d \in Nat /\ t \in Nat
          /\ x < t /\ y < t
      BY <2>4, <2>5, <2>6, <3>1
    <3>3. x + c * t = y + d * t
      BY <2>8, <3>1
    <3>4. c = d /\ x = y
      BY <3>2, <3>3, SameDigit
    <3>5. QED
      BY <3>1, <3>4
  <2>10. p[k] = r[k]
    BY <2>3, <2>6, <2>7, <2>9
  <2>11. QED
    BY <1>5, <2>1, <2>9, <2>10
<1>8. 0 .. n \subseteq T
  BY <1>2, <1>6, <1>7, Upward
<1>9. \A k \in 1 .. n : i[k] = j[k]
  <2>1. \A k \in 1 .. n : k - 1 \in 0 .. n
    BY <1>2
  <2>2. QED
    BY <1>7, <1>8, <2>1
<1>10. QED
  BY <1>2, <1>9

-----------------------------------------------------------------------------
(* Spans: the offset of the last index.                                    *)

LastIndex(e) == [d \in DOMAIN e |-> e[d] - 1]

LEMMA LastIsIndex == ASSUME NEW e \in Seq(Positive) PROVE IsIndex(LastIndex(e), e)
<1>1. DOMAIN e = 1 .. Len(e) /\ \A k \in 1 .. Len(e) : e[k] - 1 \in Nat /\ e[k] - 1 < e[k]
  BY Extents
<1>2. QED
  BY <1>1 DEF LastIndex, IsIndex

(* No offset is greater than one whose index is greater everywhere.        *)
LEMMA OffsetMonotone ==
  ASSUME NEW n \in Nat, NEW i \in [1 .. n -> Nat], NEW j \in [1 .. n -> Nat], NEW s \in [1 .. n -> Nat],
         \A k \in 1 .. n : i[k] <= j[k]
  PROVE  Offset(i, s) \in Nat /\ Offset(j, s) \in Nat /\ Offset(i, s) <= Offset(j, s)
<1>1. PICK p : Offsets(p, n, i, s) /\ Offset(i, s) = p[n]
  BY OffsetFold
<1>2. PICK r : Offsets(r, n, j, s) /\ Offset(j, s) = r[n]
  BY OffsetFold
<1>3. PICK T : T = {k \in 0 .. n : p[k] <= r[k]}
  OBVIOUS
<1>4. 0 \in T
  <2>1. p[0] = 0 /\ r[0] = 0 /\ 0 \in 0 .. n
    BY <1>1, <1>2 DEF Offsets
  <2>2. QED
    BY <1>3, <2>1
<1>5. ASSUME NEW k \in 1 .. n, k - 1 \in T PROVE k \in T
  <2>1. k \in 0 .. n /\ k - 1 \in 0 .. n
    OBVIOUS
  <2>2. p[k] = p[k - 1] + i[k] * s[k] /\ r[k] = r[k - 1] + j[k] * s[k]
        /\ p[k - 1] \in Nat /\ r[k - 1] \in Nat
    BY <1>1, <1>2, <2>1 DEF Offsets
  <2>3. i[k] * s[k] <= j[k] * s[k] /\ i[k] * s[k] \in Nat /\ j[k] * s[k] \in Nat
    <3>1. PICK a, b, t : a = i[k] /\ b = j[k] /\ t = s[k]
      OBVIOUS
    <3>2. a \in Nat /\ b \in Nat /\ t \in Nat /\ a <= b
      BY <3>1
    <3>3. a * t <= b * t /\ a * t \in Nat /\ b * t \in Nat
      BY <3>2, Times
    <3>4. QED
      BY <3>1, <3>3
  <2>4. p[k - 1] <= r[k - 1]
    BY <1>3, <1>5
  <2>5. PICK a, b : a = i[k] * s[k] /\ b = j[k] * s[k]
    OBVIOUS
  <2>6. p[k] = p[k - 1] + a /\ r[k] = r[k - 1] + b /\ a \in Nat /\ b \in Nat /\ a <= b
    BY <2>2, <2>3, <2>5
  <2>7. p[k] <= r[k]
    <3>1. PICK x, y, z, w : x = p[k - 1] /\ y = r[k - 1] /\ z = p[k] /\ w = r[k]
      OBVIOUS
    <3>2. x \in Nat /\ y \in Nat /\ x <= y /\ z = x + a /\ w = y + b
      BY <2>2, <2>4, <2>6, <3>1
    <3>3. z <= w
      BY <2>6, <3>2
    <3>4. QED
      BY <3>1, <3>3
  <2>8. QED
    BY <1>3, <2>1, <2>7
<1>6. 0 .. n \subseteq T
  BY <1>4, <1>5, Upward
<1>7. n \in T /\ n \in 0 .. n
  BY <1>6
<1>8. p[n] \in Nat /\ r[n] \in Nat /\ p[n] <= r[n]
  BY <1>1, <1>2, <1>3, <1>7 DEF Offsets
<1>9. QED
  BY <1>1, <1>2, <1>8

LEMMA LeftLast ==
  ASSUME NEW e \in Seq(Positive), NEW s \in [1 .. Len(e) -> Nat], NEW p, Products(p, e),
         \A d \in 1 .. Len(e) : s[d] = p[d - 1]
  PROVE  1 + Offset(LastIndex(e), s) = Product(e)
<1>1. PICK n, i : n = Len(e) /\ i = LastIndex(e)
  OBVIOUS
<1>2. n \in Nat /\ i \in [1 .. n -> Nat] /\ s \in [1 .. n -> Nat] /\ p \in [0 .. n -> Positive]
  BY <1>1, LastIsIndex DEF IsIndex, Products
<1>3. PICK r : r = [k \in 0 .. n |-> p[k] - 1]
  OBVIOUS
<1>4. \A k \in 0 .. n : p[k] \in Nat /\ p[k] - 1 \in Nat /\ r[k] = p[k] - 1
  BY <1>2, <1>3 DEF Positive
<1>5. Offsets(r, n, i, s)
  <2>1. r \in [0 .. n -> Nat]
    BY <1>3, <1>4
  <2>2. r[0] = 0
    <3>1. p[0] = 1 /\ 0 \in 0 .. n
      BY <1>2 DEF Products
    <3>2. QED
      BY <1>4, <3>1
  <2>3. ASSUME NEW k \in 1 .. n PROVE r[k] = r[k - 1] + i[k] * s[k]
    <3>1. k \in 0 .. n /\ k - 1 \in 0 .. n
      BY <1>2
    <3>2. PICK a, f : a = p[k - 1] /\ f = e[k]
      OBVIOUS
    <3>3. p[k] = a * f /\ i[k] = f - 1 /\ s[k] = a /\ r[k - 1] = a - 1 /\ r[k] = p[k] - 1
      BY <1>1, <1>4, <3>1, <3>2 DEF Products, LastIndex
    <3>4. a \in Nat /\ f \in Nat
      BY <1>1, <1>4, <3>1, <3>2 DEF Positive
    <3>5. a * f - 1 = (a - 1) + (f - 1) * a
      BY <3>4
    <3>6. QED
      BY <3>3, <3>5
  <2>4. QED
    BY <2>1, <2>2, <2>3 DEF Offsets
<1>6. Offset(i, s) = r[n]
  BY <1>2, <1>5, OffsetUnique
<1>7. Product(e) = p[n]
  BY <1>1, ProductUnique
<1>8. r[n] = p[n] - 1 /\ p[n] \in Nat
  BY <1>2, <1>4
<1>9. QED
  BY <1>1, <1>6, <1>7, <1>8

LEMMA RightLast ==
  ASSUME NEW e \in Seq(Positive), NEW s \in [1 .. Len(e) -> Nat], NEW u \in Positive, NEW q, Tails(q, e, u),
         \A d \in 1 .. Len(e) : s[d] = q[d]
  PROVE  u + Offset(LastIndex(e), s) = u * Product(e)
<1>1. PICK n, i : n = Len(e) /\ i = LastIndex(e)
  OBVIOUS
<1>2. /\ n \in Nat /\ i \in [1 .. n -> Nat] /\ s \in [1 .. n -> Nat]
      /\ q \in [0 .. n -> Positive] /\ q[n] = u
  BY <1>1, LastIsIndex DEF IsIndex, Tails
<1>3. PICK p : Offsets(p, n, i, s) /\ Offset(i, s) = p[n]
  BY <1>2, OffsetFold
<1>4. PICK T : T = {k \in 0 .. n : p[k] + q[k] = q[0]}
  OBVIOUS
<1>5. 0 \in T
  <2>1. p[0] = 0 /\ q[0] \in Nat /\ 0 \in 0 .. n
    BY <1>2, <1>3 DEF Offsets, Positive
  <2>2. QED
    BY <1>4, <2>1
<1>6. ASSUME NEW k \in 1 .. n, k - 1 \in T PROVE k \in T
  <2>1. k \in 0 .. n /\ k - 1 \in 0 .. n
    BY <1>2
  <2>2. PICK a, f, b : a = q[k] /\ f = e[k] /\ b = p[k - 1]
    OBVIOUS
  <2>3. q[k - 1] = f * a /\ i[k] = f - 1 /\ s[k] = a /\ b + q[k - 1] = q[0]
    BY <1>1, <1>4, <1>6, <2>2 DEF Tails, LastIndex
  <2>4. p[k] = b + i[k] * s[k]
    BY <1>3, <2>2 DEF Offsets
  <2>5. a \in Nat /\ f \in Nat /\ b \in Nat
    <3>1. q[k] \in Positive /\ p[k - 1] \in Nat
      BY <1>2, <1>3, <2>1 DEF Offsets
    <3>2. e[k] \in Positive
      BY <1>1
    <3>3. QED
      BY <2>2, <3>1, <3>2 DEF Positive
  <2>6. (b + (f - 1) * a) + a = b + f * a
    BY <2>5
  <2>7. p[k] + q[k] = q[0]
    BY <2>2, <2>3, <2>4, <2>6
  <2>8. QED
    BY <1>4, <2>1, <2>7
<1>7. 0 .. n \subseteq T
  BY <1>2, <1>5, <1>6, Upward
<1>8. n \in T /\ n \in 0 .. n
  BY <1>2, <1>7
<1>9. p[n] + u = q[0] /\ p[n] \in Nat /\ u \in Nat
  BY <1>2, <1>3, <1>4, <1>8 DEF Offsets, Positive
<1>10. q[0] = u * Product(e)
  BY TailsUnique
<1>11. QED
  BY <1>1, <1>3, <1>9, <1>10

-----------------------------------------------------------------------------
(* There are as many indices as the product of the extents says: with      *)
(* column-major strides they are numbered.                                 *)

LEMMA EveryOffset ==
  ASSUME NEW e \in Seq(Positive), NEW s \in [1 .. Len(e) -> Nat], NEW p, Products(p, e),
         \A d \in 1 .. Len(e) : s[d] = p[d - 1], NEW x \in 0 .. Product(e) - 1
  PROVE  \E i : IsIndex(i, e) /\ Offset(i, s) = x
<1>1. PICK n : n = Len(e)
  OBVIOUS
<1>2. /\ n \in Nat /\ s \in [1 .. n -> Nat] /\ p \in [0 .. n -> Positive]
      /\ p[0] = 1 /\ \A k \in 1 .. n : p[k] = p[k - 1] * e[k]
  BY <1>1 DEF Products
<1>3. PICK T : T = {k \in 0 .. n : \A y \in Nat : y < p[k] =>
                      \E i : /\ IsIndex(i, e) /\ Offset(i, s) = y
                             /\ \A d \in 1 .. n : d > k => i[d] = 0}
  OBVIOUS
<1>4. 0 \in T
  <2>1. PICK i : i = [d \in 1 .. n |-> 0]
    OBVIOUS
  <2>2. IsIndex(i, e)
    <3>1. \A d \in 1 .. n : 0 < e[d]
      BY <1>1, Extents DEF Positive
    <3>2. QED
      BY <1>1, <2>1, <3>1 DEF IsIndex
  <2>3. PICK r : r = [k \in 0 .. n |-> 0]
    OBVIOUS
  <2>4. Offsets(r, n, i, s)
    BY <1>2, <2>1, <2>3 DEF Offsets
  <2>5. Offset(i, s) = r[n]
    BY <1>2, <2>1, <2>4, OffsetUnique
  <2>6. Offset(i, s) = 0 /\ \A d \in 1 .. n : i[d] = 0
    BY <1>2, <2>1, <2>3, <2>5
  <2>7. \A y \in Nat : y < p[0] => y = 0
    BY <1>2
  <2>8. 0 \in 0 .. n
    BY <1>2
  <2>9. QED
    BY <1>3, <2>2, <2>6, <2>7, <2>8
<1>5. ASSUME NEW k \in 1 .. n, k - 1 \in T PROVE k \in T
  <2>1. k \in 0 .. n /\ k - 1 \in 0 .. n
    BY <1>2
  <2>2. ASSUME NEW y \in Nat, y < p[k]
        PROVE  \E i : /\ IsIndex(i, e) /\ Offset(i, s) = y
                      /\ \A d \in 1 .. n : d > k => i[d] = 0
    <3>1. PICK a, f : a = p[k - 1] /\ f = e[k]
      OBVIOUS
    <3>2. a \in Positive /\ f \in Nat /\ f \in Positive /\ a \in Nat
      BY <1>1, <1>2, <2>1, <3>1, Extents DEF Positive
    <3>3. y < f * a
      <4>1. p[k] = a * f
        BY <1>2, <3>1
      <4>2. a * f = f * a
        BY <3>2
      <4>3. QED
        BY <2>2, <4>1, <4>2
    <3>4. PICK c \in Nat, z \in Nat : z < a /\ c < f /\ y = z + c * a
      BY <3>2, <3>3, HasDigit
    <3>5. PICK i : /\ IsIndex(i, e) /\ Offset(i, s) = z
                   /\ \A d \in 1 .. n : d > k - 1 => i[d] = 0
      BY <1>3, <1>5, <3>1, <3>4
    <3>6. PICK j : j = [i EXCEPT ![k] = c]
      OBVIOUS
    <3>7. i \in [1 .. n -> Nat] /\ \A d \in 1 .. n : i[d] < e[d]
      BY <1>1, <3>5 DEF IsIndex
    <3>8. j \in [1 .. n -> Nat] /\ j[k] = c /\ \A d \in 1 .. n : d # k => j[d] = i[d]
      BY <3>6, <3>7
    <3>9. IsIndex(j, e)
      BY <1>1, <3>1, <3>4, <3>7, <3>8 DEF IsIndex
    <3>10. \A d \in 1 .. n : d > k => j[d] = 0
      BY <3>5, <3>8
    <3>11. Offset(j, s) = y
      <4>1. PICK r : Offsets(r, n, i, s) /\ Offset(i, s) = r[n]
        BY <1>2, <3>7, OffsetFold
      <4>2. r \in [0 .. n -> Nat] /\ r[0] = 0 /\ \A d \in 1 .. n : r[d] = r[d - 1] + i[d] * s[d]
        BY <4>1 DEF Offsets
      <4>3. PICK m : m = c * a
        OBVIOUS
      <4>4. m \in Nat
        BY <3>2, <4>3
      <4>5. PICK t : t = [d \in 0 .. n |-> IF d < k THEN r[d] ELSE r[d] + m]
        OBVIOUS
      <4>6. t \in [0 .. n -> Nat]
        BY <4>2, <4>4, <4>5
      <4>7. t[0] = 0
        BY <1>2, <4>2, <4>5
      <4>8. ASSUME NEW d \in 1 .. n PROVE t[d] = t[d - 1] + j[d] * s[d]
        <5>1. d \in 0 .. n /\ d - 1 \in 0 .. n /\ d \in Nat /\ k \in Nat
          BY <1>2
        <5>2. t[d] = IF d < k THEN r[d] ELSE r[d] + m
          BY <4>5, <5>1
        <5>3. t[d - 1] = IF d - 1 < k THEN r[d - 1] ELSE r[d - 1] + m
          BY <4>5, <5>1
        <5>4. r[d - 1] \in Nat /\ r[d] \in Nat
          BY <4>2, <5>1
        <5>5. CASE d < k
          <6>1. t[d] = r[d] /\ t[d - 1] = r[d - 1] /\ j[d] = i[d]
            BY <3>8, <5>1, <5>2, <5>3, <5>5
          <6>2. QED
            BY <4>2, <6>1
        <5>6. CASE d = k
          <6>1. t[d] = r[d] + m /\ t[d - 1] = r[d - 1]
            BY <5>1, <5>2, <5>3, <5>6
          <6>2. i[d] = 0 /\ j[d] = c /\ s[d] = a
            <7>1. d > k - 1
              BY <5>1, <5>6
            <7>2. QED
              BY <1>1, <3>1, <3>5, <3>8, <5>6, <7>1
          <6>3. r[d] = r[d - 1]
            <7>1. i[d] * s[d] = 0
              BY <3>2, <6>2
            <7>2. QED
              BY <4>2, <5>4, <7>1
          <6>4. QED
            BY <4>3, <6>1, <6>2, <6>3
        <5>7. CASE d > k
          <6>1. t[d] = r[d] + m /\ t[d - 1] = r[d - 1] + m /\ j[d] = i[d]
            BY <3>8, <5>1, <5>2, <5>3, <5>7
          <6>2. i[d] = 0 /\ i[d] * s[d] = 0
            <7>1. i[d] = 0
              BY <3>5, <5>1, <5>7
            <7>2. s[d] \in Nat
              BY <1>2
            <7>3. QED
              BY <7>1, <7>2
          <6>3. r[d] = r[d - 1]
            BY <4>2, <5>4, <6>2
          <6>4. QED
            BY <4>4, <5>4, <6>1, <6>2, <6>3
        <5>8. QED
          BY <5>1, <5>5, <5>6, <5>7
      <4>9. Offsets(t, n, j, s)
        BY <4>6, <4>7, <4>8 DEF Offsets
      <4>10. Offset(j, s) = t[n]
        <5>1. n \in Nat /\ j \in [1 .. n -> Nat] /\ s \in [1 .. n -> Nat]
          BY <1>2, <3>8
        <5>2. QED
          BY <4>9, <5>1, OffsetUnique
      <4>11. t[n] = r[n] + m
        BY <1>2, <4>5
      <4>12. QED
        BY <3>4, <3>5, <4>1, <4>3, <4>10, <4>11
    <3>12. QED
      BY <3>9, <3>10, <3>11
  <2>3. QED
    BY <1>3, <2>1, <2>2
<1>6. 0 .. n \subseteq T
  BY <1>2, <1>4, <1>5, Upward
<1>7. n \in T
  BY <1>2, <1>6
<1>8. Product(e) = p[n] /\ p[n] \in Nat
  <2>1. n \in 0 .. n
    BY <1>2
  <2>2. QED
    BY <1>1, <1>2, <2>1, ProductUnique DEF Positive
<1>9. x \in Nat /\ x < p[n]
  BY <1>8
<1>10. QED
  BY <1>3, <1>7, <1>9

LEMMA WithinLast ==
  ASSUME NEW e \in Seq(Positive), NEW s \in [1 .. Len(e) -> Nat]
  PROVE  /\ Offset(LastIndex(e), s) \in Nat
         /\ \A i \in Indices(e) : Offset(i, s) \in 0 .. Offset(LastIndex(e), s)
         /\ LastIndex(e) \in Indices(e)
<1>1. PICK n, l : n = Len(e) /\ l = LastIndex(e)
  OBVIOUS
<1>2. n \in Nat /\ l \in [1 .. n -> Nat] /\ \A k \in 1 .. n : l[k] = e[k] - 1
  BY <1>1, LastIsIndex DEF IsIndex, LastIndex
<1>3. ASSUME NEW i \in Indices(e)
      PROVE  Offset(i, s) \in 0 .. Offset(l, s) /\ Offset(l, s) \in Nat
  <2>1. i \in [1 .. n -> Nat] /\ \A k \in 1 .. n : i[k] < e[k]
    BY <1>1, <1>3, IndicesAre DEF IsIndex
  <2>2. \A k \in 1 .. n : i[k] \in Nat /\ e[k] \in Nat
    BY <1>1, <2>1, Extents
  <2>3. ASSUME NEW k \in 1 .. n PROVE i[k] <= l[k]
    <3>1. PICK x, y : x = i[k] /\ y = e[k]
      OBVIOUS
    <3>2. x \in Nat /\ y \in Nat /\ x < y
      BY <2>1, <2>2, <3>1
    <3>3. l[k] = y - 1
      BY <1>2, <3>1
    <3>4. x <= y - 1
      BY <3>2
    <3>5. QED
      BY <3>1, <3>3, <3>4
  <2>4. Offset(i, s) \in Nat /\ Offset(l, s) \in Nat /\ Offset(i, s) <= Offset(l, s)
    BY <1>1, <1>2, <2>1, <2>3, OffsetMonotone
  <2>5. QED
    BY <2>4
<1>4. l \in Indices(e)
  BY <1>1, LastIsIndex, IndicesAre
<1>5. QED
  BY <1>1, <1>3, <1>4

(* The strides of the layouts.                                             *)

LEMMA LeftAre ==
  ASSUME NEW e \in Seq(Positive)
  PROVE  \E p : /\ Products(p, e) /\ LeftStrides(e) \in [1 .. Len(e) -> Positive]
                /\ \A d \in 1 .. Len(e) : LeftStrides(e)[d] = p[d - 1]
<1>1. PICK p : Products(p, e)
  BY ProductFold
<1>2. PICK n, s : n = Len(e) /\ s = LeftStrides(e)
  OBVIOUS
<1>3. DOMAIN s = 1 .. n /\ (\A d \in 1 .. n : s[d] = p[d - 1]) /\ s = [d \in DOMAIN s |-> s[d]]
  BY <1>1, <1>2, LeftProducts DEF LeftStrides
<1>4. \A d \in 1 .. n : d - 1 \in 0 .. n
  BY <1>2
<1>5. \A d \in 1 .. n : s[d] \in Positive
  BY <1>1, <1>2, <1>3, <1>4 DEF Products
<1>6. s \in [1 .. n -> Positive]
  BY <1>3, <1>5
<1>7. QED
  BY <1>1, <1>2, <1>3, <1>6

(* Column-major strides of extents w have room for smaller extents e.      *)
LEMMA LeftRising ==
  ASSUME NEW e \in Seq(Positive), NEW w \in Seq(Positive), Len(w) = Len(e),
         \A d \in 1 .. Len(e) : e[d] <= w[d]
  PROVE  Rising(e, LeftStrides(w))
<1>1. PICK n, s : n = Len(e) /\ s = LeftStrides(w)
  OBVIOUS
<1>2. PICK p : /\ Products(p, w) /\ s \in [1 .. n -> Positive]
               /\ \A d \in 1 .. n : s[d] = p[d - 1]
  <2>1. Len(w) = n /\ LeftStrides(w) = s
    BY <1>1
  <2>2. PICK p : /\ Products(p, w) /\ LeftStrides(w) \in [1 .. Len(w) -> Positive]
                 /\ \A d \in 1 .. Len(w) : LeftStrides(w)[d] = p[d - 1]
    BY LeftAre
  <2>3. QED
    BY <2>1, <2>2
<1>3. ASSUME NEW d \in 1 .. n, d + 1 \in 1 .. n PROVE e[d] * s[d] <= s[d + 1]
  <2>1. (d + 1) - 1 = d /\ d - 1 \in 0 .. n
    BY <1>1
  <2>2. PICK a, f, g : a = s[d] /\ f = e[d] /\ g = w[d]
    OBVIOUS
  <2>3. a \in Nat /\ f \in Nat /\ g \in Nat /\ f <= g
    <3>1. s[d] \in Positive
      BY <1>2
    <3>2. e[d] \in Nat /\ w[d] \in Nat
      BY <1>1, Extents
    <3>3. QED
      BY <1>1, <2>2, <3>1, <3>2 DEF Positive
  <2>4. s[d + 1] = a * g
    BY <1>1, <1>2, <1>3, <2>1, <2>2 DEF Products
  <2>5. f * a <= g * a /\ g * a = a * g
    BY <2>3, Times
  <2>6. QED
    BY <2>2, <2>4, <2>5
<1>4. QED
  BY <1>1, <1>2, <1>3 DEF Rising

LEMMA TailsFalling ==
  ASSUME NEW e \in Seq(Positive), NEW u \in Positive, NEW q, Tails(q, e, u), NEW s, DOMAIN s = 1 .. Len(e),
         s = [d \in DOMAIN s |-> s[d]], \A d \in 1 .. Len(e) : s[d] = q[d]
  PROVE  s \in [1 .. Len(e) -> Positive] /\ Falling(e, s)
<1>1. PICK n : n = Len(e)
  OBVIOUS
<1>2. n \in Nat /\ q \in [0 .. n -> Positive]
  BY <1>1 DEF Tails
<1>3. \A d \in 1 .. n : d \in 0 .. n /\ s[d] \in Positive
  BY <1>1, <1>2
<1>4. s \in [1 .. n -> Positive]
  BY <1>1, <1>3
<1>5. ASSUME NEW d \in 1 .. n, d + 1 \in 1 .. n PROVE e[d + 1] * s[d + 1] <= s[d]
  <2>1. (d + 1) - 1 = d
    BY <1>2
  <2>2. e[d + 1] * s[d + 1] = s[d]
    BY <1>1, <1>5, <2>1 DEF Tails
  <2>3. s[d] \in Nat
    BY <1>3 DEF Positive
  <2>4. QED
    BY <2>2, <2>3
<1>6. QED
  BY <1>1, <1>4, <1>5 DEF Falling

(* What Strides and the two other builds have in common.                   *)
Apart(e, s) == \A i, j \in Indices(e) : Offset(i, s) = Offset(j, s) => i = j

LEMMA RisesApart == ASSUME NEW e \in Seq(Positive), NEW s, Rising(e, s) PROVE Apart(e, s)
  BY RisingApart, IndicesAre DEF Apart

LEMMA FallsApart == ASSUME NEW e \in Seq(Positive), NEW s, Falling(e, s) PROVE Apart(e, s)
  BY FallingApart, IndicesAre DEF Apart

LEMMA LayoutStrides ==
  ASSUME NEW e \in Seq(Positive), NEW layout \in {"left", "right"}
  PROVE  /\ Strides(layout, e) \in [1 .. Len(e) -> Positive] /\ Apart(e, Strides(layout, e))
         /\ 1 + Offset(LastIndex(e), Strides(layout, e)) = Product(e)
<1>1. Positive \subseteq Nat /\ 1 \in Positive
  BY DEF Positive
<1>2. CASE layout = "left"
  <2>1. PICK s : s = LeftStrides(e)
    OBVIOUS
  <2>2. PICK p : /\ Products(p, e) /\ s \in [1 .. Len(e) -> Positive]
                 /\ \A d \in 1 .. Len(e) : s[d] = p[d - 1]
    BY <2>1, LeftAre
  <2>3. \A d \in 1 .. Len(e) : e[d] <= e[d]
    BY Extents
  <2>4. Rising(e, s)
    BY <2>1, <2>3, LeftRising
  <2>5. s \in [1 .. Len(e) -> Nat]
    BY <1>1, <2>2
  <2>6. 1 + Offset(LastIndex(e), s) = Product(e)
    BY <2>2, <2>5, LeftLast
  <2>7. QED
    BY <1>2, <2>1, <2>2, <2>4, <2>6, RisesApart DEF Strides
<1>3. CASE layout = "right"
  <2>1. PICK s : s = RightStrides(e)
    OBVIOUS
  <2>2. PICK q : Tails(q, e, 1) /\ DOMAIN s = 1 .. Len(e) /\ \A d \in 1 .. Len(e) : s[d] = q[d]
    BY <2>1, RightProducts
  <2>3. s = [d \in DOMAIN s |-> s[d]]
    BY <2>1 DEF RightStrides
  <2>4. s \in [1 .. Len(e) -> Positive] /\ Falling(e, s)
    BY <1>1, <2>2, <2>3, TailsFalling
  <2>5. s \in [1 .. Len(e) -> Nat]
    BY <1>1, <2>4
  <2>6. 1 + Offset(LastIndex(e), s) = 1 * Product(e)
    BY <1>1, <2>2, <2>5, RightLast
  <2>7. Product(e) \in Nat
    <3>1. PICK p : Products(p, e) /\ Product(e) = p[Len(e)]
      BY ProductFold
    <3>2. p[Len(e)] \in Positive
      BY <3>1 DEF Products
    <3>3. QED
      BY <1>1, <3>1, <3>2
  <2>8. 1 * Product(e) = Product(e)
    BY <2>7
  <2>9. QED
    BY <1>3, <2>1, <2>4, <2>6, <2>8, FallsApart DEF Strides
<1>4. QED
  BY <1>2, <1>3

LEMMA ProductPositive == ASSUME NEW e \in Seq(Positive) PROVE Product(e) \in Positive /\ Product(e) \in Nat
<1>1. PICK p : Products(p, e) /\ Product(e) = p[Len(e)]
  BY ProductFold
<1>2. p[Len(e)] \in Positive
  BY <1>1 DEF Products
<1>3. QED
  BY <1>1, <1>2 DEF Positive

LEMMA CountIndices ==
  ASSUME NEW e \in Seq(Positive)
  PROVE  IsFiniteSet(Indices(e)) /\ Cardinality(Indices(e)) = Product(e)
<1>1. PICK s, m : s = LeftStrides(e) /\ m = Product(e)
  OBVIOUS
<1>2. m \in Nat
  BY <1>1, ProductPositive
<1>3. PICK p : /\ Products(p, e) /\ s \in [1 .. Len(e) -> Positive]
               /\ \A d \in 1 .. Len(e) : s[d] = p[d - 1]
  BY <1>1, LeftAre
<1>4. s \in [1 .. Len(e) -> Nat]
  BY <1>3 DEF Positive
<1>5. Apart(e, s) /\ 1 + Offset(LastIndex(e), s) = m
  BY <1>1, LayoutStrides DEF Strides
<1>6. \A i \in Indices(e) : Offset(i, s) \in 0 .. m - 1
  BY <1>2, <1>4, <1>5, WithinLast
<1>7. ASSUME NEW x \in 0 .. m - 1 PROVE \E i \in Indices(e) : Offset(i, s) = x
  <2>1. x \in 0 .. Product(e) - 1
    BY <1>1
  <2>2. \E i : IsIndex(i, e) /\ Offset(i, s) = x
    BY <1>3, <1>4, <2>1, EveryOffset
  <2>3. QED
    BY <2>2, IndicesAre
<1>8. PICK f : f = [i \in Indices(e) |-> Offset(i, s)]
  OBVIOUS
<1>9. f \in [Indices(e) -> 0 .. m - 1] /\ \A i, j \in Indices(e) : f[i] = f[j] => i = j
  BY <1>5, <1>6, <1>8 DEF Apart
<1>10. \A x \in 0 .. m - 1 : \E i \in Indices(e) : f[i] = x
  BY <1>7, <1>8
<1>11. f \in Injection(Indices(e), 0 .. m - 1) /\ f \in Surjection(Indices(e), 0 .. m - 1)
  BY <1>9, <1>10 DEF Injection, Surjection, IsInjective
<1>12. IsFiniteSet(0 .. m - 1) /\ Cardinality(0 .. m - 1) = m
  <2>1. Cardinality(0 .. m - 1) = IF 0 > m - 1 THEN 0 ELSE (m - 1) - 0 + 1
    BY <1>2, FS_Interval
  <2>2. QED
    BY <1>2, <2>1, FS_Interval
<1>13. IsFiniteSet(Indices(e)) /\ Cardinality(Indices(e)) = m
  BY <1>11, <1>12, FS_Injection
<1>14. QED
  BY <1>1, <1>13


-----------------------------------------------------------------------------
(* Views whose elements are apart and inside the allocation.               *)

Sound(v) ==
  /\ v.space \in {"left", "right"} /\ v.base \in Nat /\ v.alloc \in Nat
  /\ v.ext \in Seq(Positive) /\ v.stride \in [1 .. Len(v.ext) -> Positive]
  /\ Apart(v.ext, v.stride)
  /\ v.base + span(v) <= v.alloc

(* Whatever is laid out in one piece: the default views of the tests,      *)
(* column-major views and packed views.                                    *)
LEMMA OnePiece ==
  ASSUME NEW e \in Seq(Positive), NEW space \in {"left", "right"}, NEW layout \in {"left", "right"}, NEW v,
         v = [space |-> space, ext |-> e, stride |-> Strides(layout, e), base |-> 0, alloc |-> Product(e)]
  PROVE  Sound(v) /\ span(v) = Product(e)
<1>1. PICK s, m : s = Strides(layout, e) /\ m = Product(e)
  OBVIOUS
<1>2. /\ v.space = space /\ v.ext = e /\ v.stride = s /\ v.base = 0 /\ v.alloc = m
  BY <1>1
<1>3. m \in Nat /\ s \in [1 .. Len(e) -> Positive] /\ Apart(e, s) /\ 1 + Offset(LastIndex(e), s) = m
  BY <1>1, LayoutStrides, ProductPositive
<1>4. span(v) = m
  BY <1>2, <1>3 DEF span, LastIndex
<1>5. v.base + span(v) <= v.alloc
  BY <1>2, <1>3, <1>4
<1>6. QED
  BY <1>1, <1>2, <1>3, <1>4, <1>5 DEF Sound

(* Every other cell.                                                       *)
LEMMA EveryOther ==
  ASSUME NEW e \in Seq(Positive), NEW space \in {"left", "right"}, NEW v,
         v = [space |-> space, ext |-> e, stride |-> SubSeq(RightStrides(Append(e, 2)), 1, Len(e)),
              base |-> 1, alloc |-> 2 * Product(e)]
  PROVE  Sound(v)
<1>1. PICK s, m : s = SubSeq(RightStrides(Append(e, 2)), 1, Len(e)) /\ m = Product(e)
  OBVIOUS
<1>2. v.space = space /\ v.ext = e /\ v.stride = s /\ v.base = 1 /\ v.alloc = 2 * m
  BY <1>1
<1>3. 2 \in Positive
  BY DEF Positive
<1>4. PICK q : Tails(q, e, 2) /\ DOMAIN s = 1 .. Len(e) /\ \A d \in 1 .. Len(e) : s[d] = q[d]
  BY <1>1, <1>3, RightOfAppend
<1>5. s = [d \in DOMAIN s |-> s[d]]
  BY <1>1
<1>6. s \in [1 .. Len(e) -> Positive] /\ Falling(e, s)
  BY <1>3, <1>4, <1>5, TailsFalling
<1>7. s \in [1 .. Len(e) -> Nat]
  BY <1>6 DEF Positive
<1>8. 2 + Offset(LastIndex(e), s) = 2 * m
  <2>1. PICK u : u = 2
    OBVIOUS
  <2>2. u \in Positive /\ Tails(q, e, u) /\ \A d \in 1 .. Len(e) : s[d] = q[d]
    BY <1>3, <1>4, <2>1
  <2>3. u + Offset(LastIndex(e), s) = u * Product(e)
    BY <1>7, <2>2, RightLast
  <2>4. QED
    BY <1>1, <2>1, <2>3
<1>9. m \in Nat /\ Offset(LastIndex(e), s) \in Nat
  BY <1>1, <1>7, ProductPositive, WithinLast
<1>10. span(v) = 1 + Offset(LastIndex(e), s)
  BY <1>2 DEF span, LastIndex
<1>11. v.base + span(v) <= v.alloc
  BY <1>2, <1>8, <1>9, <1>10
<1>12. Apart(e, s)
  BY <1>6, FallsApart
<1>13. v.alloc \in Nat
  BY <1>2, <1>9
<1>14. QED
  BY <1>2, <1>6, <1>11, <1>12, <1>13 DEF Sound

(* A corner of a column-major view.                                        *)
LEMMA Corner ==
  ASSUME NEW e \in Seq(Positive), NEW space \in {"left", "right"},
         NEW w, w = [d \in DOMAIN e |-> e[d] + 1],
         NEW v, v = [space |-> space, ext |-> e, stride |-> LeftStrides(w), base |-> 0,
                  alloc |-> Product(w)]
  PROVE  Sound(v)
<1>1. PICK s, m, n : s = LeftStrides(w) /\ m = Product(w) /\ n = Len(e)
  OBVIOUS
<1>2. v.space = space /\ v.ext = e /\ v.stride = s /\ v.base = 0 /\ v.alloc = m
  BY <1>1
<1>3. /\ n \in Nat /\ DOMAIN e = 1 .. n
      /\ \A d \in 1 .. n : e[d] \in Nat /\ e[d] - 1 \in Nat /\ e[d] + 1 \in Positive
  BY <1>1, Extents DEF Positive
<1>4. w \in Seq(Positive) /\ Len(w) = n /\ \A d \in 1 .. n : w[d] = e[d] + 1
  BY <1>3
<1>5. \A d \in 1 .. n : e[d] <= w[d]
  BY <1>3, <1>4
<1>6. Rising(e, s)
  BY <1>1, <1>4, <1>5, LeftRising
<1>7. s \in [1 .. n -> Positive] /\ s \in [1 .. n -> Nat]
  BY <1>1, <1>6 DEF Rising, Positive
<1>8. Apart(e, s)
  BY <1>6, RisesApart
<1>9. 1 + Offset(LastIndex(w), s) = m /\ m \in Nat
  BY <1>1, <1>4, LayoutStrides, ProductPositive DEF Strides
<1>10. Offset(LastIndex(e), s) <= Offset(LastIndex(w), s) /\ Offset(LastIndex(e), s) \in Nat
  <2>1. PICK l, h : l = LastIndex(e) /\ h = LastIndex(w)
    OBVIOUS
  <2>2. l \in [1 .. n -> Nat] /\ h \in [1 .. n -> Nat]
    BY <1>1, <1>4, <2>1, LastIsIndex DEF IsIndex
  <2>3. \A d \in 1 .. n : l[d] = e[d] - 1 /\ h[d] = (e[d] + 1) - 1
    BY <1>3, <1>4, <2>1 DEF LastIndex
  <2>4. \A d \in 1 .. n : l[d] <= h[d]
    BY <1>3, <2>3
  <2>5. Offset(l, s) <= Offset(h, s) /\ Offset(l, s) \in Nat
    BY <1>3, <1>7, <2>2, <2>4, OffsetMonotone
  <2>6. QED
    BY <2>1, <2>5
<1>11. Offset(LastIndex(w), s) \in Nat
  BY <1>4, <1>7, WithinLast
<1>12. span(v) = 1 + Offset(LastIndex(e), s)
  BY <1>2 DEF span, LastIndex
<1>13. v.base + span(v) <= v.alloc
  BY <1>2, <1>9, <1>10, <1>11, <1>12
<1>14. QED
  BY <1>1, <1>2, <1>7, <1>8, <1>9, <1>13 DEF Sound

LEMMA BuildSound ==
  ASSUME NEW e \in Shapes, NEW kind \in Kinds, NEW space \in Spaces
  PROVE  Sound(Build(kind, space, e)) /\ Build(kind, space, e).ext = e
<1>1. /\ e \in Seq(Positive) /\ space \in {"left", "right"}
      /\ kind \in {"contig", "noncontig", "left", "block"}
  BY PackingAssumption DEF Positive
<1>2. PICK v : v = Build(kind, space, e)
  OBVIOUS
<1>3. CASE kind = "contig"
  <2>1. v = [space |-> space, ext |-> e, stride |-> Strides(space, e), base |-> 0, alloc |-> Product(e)]
    BY <1>2, <1>3 DEF Build
  <2>2. QED
    BY <1>1, <1>2, <2>1, OnePiece
<1>4. CASE kind = "noncontig"
  <2>1. v = [space |-> space, ext |-> e, stride |-> SubSeq(RightStrides(Append(e, 2)), 1, Len(e)),
             base |-> 1, alloc |-> 2 * Product(e)]
    BY <1>2, <1>4 DEF Build
  <2>2. QED
    BY <1>1, <1>2, <2>1, EveryOther
<1>5. CASE kind = "left"
  <2>1. v = [space |-> space, ext |-> e, stride |-> Strides("left", e), base |-> 0, alloc |-> Product(e)]
    BY <1>2, <1>5 DEF Build, Strides
  <2>2. QED
    BY <1>1, <1>2, <2>1, OnePiece
<1>6. CASE kind = "block"
  <2>1. PICK w : w = [d \in DOMAIN e |-> e[d] + 1]
    OBVIOUS
  <2>2. v = [space |-> space, ext |-> e, stride |-> LeftStrides(w), base |-> 0, alloc |-> Product(w)]
    BY <1>2, <1>6, <2>1 DEF Build
  <2>3. QED
    BY <1>1, <1>2, <2>1, <2>2, Corner
<1>7. QED
  BY <1>1, <1>3, <1>4, <1>5, <1>6

LEMMA PackedViews ==
  ASSUME NEW v, Sound(v), NEW c, c = contiguous_view(v)
  PROVE  /\ Sound(c) /\ c.ext = v.ext /\ c.base = 0 /\ c.alloc = size(v) /\ span(c) = size(v)
         /\ c.stride = Strides(v.space, v.ext) /\ c.space = v.space
<1>1. c = [space |-> v.space, ext |-> v.ext, stride |-> Strides(v.space, v.ext), base |-> 0,
           alloc |-> Product(v.ext)]
  BY DEF contiguous_view, size
<1>2. v.ext \in Seq(Positive) /\ v.space \in {"left", "right"}
  BY DEF Sound
<1>3. Sound(c) /\ span(c) = Product(v.ext)
  BY <1>1, <1>2, OnePiece
<1>4. QED
  BY <1>1, <1>3 DEF size

-----------------------------------------------------------------------------
(* The cells of a view.                                                    *)

LEMMA CellsApart ==
  ASSUME NEW v, Sound(v)
  PROVE  /\ span(v) \in Positive /\ span(v) \in Nat /\ v.base \in Nat
         /\ \A i \in Indices(v.ext) : Cell(v, i) \in v.base .. v.base + span(v) - 1
         /\ \A i, j \in Indices(v.ext) : Cell(v, i) = Cell(v, j) => i = j
         /\ Cell(v, LastIndex(v.ext)) = v.base + span(v) - 1
<1>1. PICK e, s, b, m : e = v.ext /\ s = v.stride /\ b = v.base /\ m = Offset(LastIndex(e), s)
  OBVIOUS
<1>2. e \in Seq(Positive) /\ s \in [1 .. Len(e) -> Nat] /\ b \in Nat /\ Apart(e, s)
  BY <1>1 DEF Sound, Positive
<1>3. m \in Nat /\ \A i \in Indices(e) : Offset(i, s) \in 0 .. m
  BY <1>1, <1>2, WithinLast
<1>4. span(v) = 1 + m /\ \A i : Cell(v, i) = b + Offset(i, s)
  BY <1>1 DEF span, LastIndex, Cell
<1>5. ASSUME NEW i \in Indices(e), NEW j \in Indices(e), Cell(v, i) = Cell(v, j)
      PROVE  i = j
  <2>1. PICK x, y : x = Offset(i, s) /\ y = Offset(j, s)
    OBVIOUS
  <2>2. x \in Nat /\ y \in Nat
    BY <1>3, <2>1
  <2>3. b + x = b + y
    BY <1>4, <1>5, <2>1
  <2>4. x = y
    BY <1>2, <2>2, <2>3
  <2>5. QED
    BY <1>2, <2>1, <2>4 DEF Apart
<1>6. ASSUME NEW i \in Indices(e) PROVE Cell(v, i) \in b .. b + span(v) - 1
  <2>1. PICK x : x = Offset(i, s)
    OBVIOUS
  <2>2. x \in 0 .. m /\ Cell(v, i) = b + x
    BY <1>3, <1>4, <2>1
  <2>3. QED
    BY <1>2, <1>3, <1>4, <2>2
<1>7. Cell(v, LastIndex(e)) = b + m
  BY <1>1, <1>4
<1>8. b + m = b + span(v) - 1 /\ span(v) \in Positive /\ span(v) \in Nat
  BY <1>2, <1>3, <1>4 DEF Positive
<1>9. QED
  BY <1>1, <1>2, <1>5, <1>6, <1>7, <1>8

LEMMA CountCells ==
  ASSUME NEW v, Sound(v)
  PROVE  IsFiniteSet(Cells(v)) /\ Cardinality(Cells(v)) = size(v)
<1>1. PICK I : I = Indices(v.ext)
  OBVIOUS
<1>2. IsFiniteSet(I) /\ Cardinality(I) = size(v)
  BY <1>1, CountIndices DEF Sound, size
<1>3. PICK f : f = [i \in I |-> Cell(v, i)]
  OBVIOUS
<1>4. f \in [I -> Cells(v)] /\ \A c \in Cells(v) : \E i \in I : f[i] = c
  BY <1>1, <1>3 DEF Cells
<1>5. \A i, j \in I : f[i] = f[j] => i = j
  BY <1>1, <1>3, CellsApart
<1>6. f \in Injection(I, Cells(v)) /\ f \in Surjection(I, Cells(v))
  BY <1>4, <1>5 DEF Injection, Surjection, IsInjective
<1>7. QED
  BY <1>2, <1>6, FS_Surjection

(* The first element.                                                      *)
FirstIndex(e) == [d \in DOMAIN e |-> 0]

LEMMA FirstCell ==
  ASSUME NEW v, Sound(v)
  PROVE  FirstIndex(v.ext) \in Indices(v.ext) /\ Cell(v, FirstIndex(v.ext)) = v.base
<1>1. PICK e, s, n, i : e = v.ext /\ s = v.stride /\ n = Len(e) /\ i = FirstIndex(e)
  OBVIOUS
<1>2. e \in Seq(Positive) /\ s \in [1 .. n -> Nat] /\ v.base \in Nat
  BY <1>1 DEF Sound, Positive
<1>3. n \in Nat /\ DOMAIN e = 1 .. n /\ \A k \in 1 .. n : e[k] \in Positive
  BY <1>1, <1>2, Extents
<1>4. i \in [1 .. n -> Nat] /\ \A k \in 1 .. n : i[k] = 0
  BY <1>1, <1>3 DEF FirstIndex
<1>5. \A k \in 1 .. n : i[k] < e[k]
  BY <1>3, <1>4 DEF Positive
<1>6. i \in Indices(e)
  BY <1>1, <1>2, <1>4, <1>5, IndicesAre DEF IsIndex
<1>7. PICK p : p = [k \in 0 .. n |-> 0]
  OBVIOUS
<1>8. Offsets(p, n, i, s)
  <2>1. p \in [0 .. n -> Nat] /\ p[0] = 0 /\ \A k \in 0 .. n : p[k] = 0
    BY <1>3, <1>7
  <2>2. ASSUME NEW k \in 1 .. n PROVE p[k] = p[k - 1] + i[k] * s[k]
    <3>1. PICK x : x = s[k]
      OBVIOUS
    <3>2. k \in 0 .. n /\ k - 1 \in 0 .. n
      BY <1>3
    <3>3. x \in Nat /\ p[k] = 0 /\ p[k - 1] = 0 /\ i[k] = 0
      BY <1>2, <1>4, <2>1, <3>1, <3>2
    <3>4. 0 + 0 * x = 0
      BY <3>3
    <3>5. QED
      BY <3>1, <3>3, <3>4
  <2>3. QED
    BY <2>1, <2>2 DEF Offsets
<1>9. Offset(i, s) = p[n]
  BY <1>2, <1>3, <1>4, <1>8, OffsetUnique
<1>10. Offset(i, s) = 0
  BY <1>3, <1>7, <1>9
<1>11. QED
  BY <1>1, <1>2, <1>6, <1>10 DEF Cell

LEMMA LastCell ==
  ASSUME NEW v, Sound(v)
  PROVE  Max(Cells(v)) - Min(Cells(v)) + 1 = span(v)
<1>1. PICK S, a, b : S = Cells(v) /\ a = v.base /\ b = v.base + span(v) - 1
  OBVIOUS
<1>2. a \in Nat /\ b \in Nat /\ \A x \in S : x \in a .. b
  BY <1>1, CellsApart DEF Cells, Positive
<1>3. a \in S
  BY <1>1, FirstCell DEF Cells
<1>4. b \in S
  <2>1. LastIndex(v.ext) \in Indices(v.ext)
    BY LastIsIndex, IndicesAre DEF Sound
  <2>2. QED
    BY <1>1, <2>1, CellsApart DEF Cells
<1>5. Max(S) = b
  <2>1. \A y \in S : b >= y
    BY <1>2
  <2>2. \A x \in S : (\A y \in S : x >= y) => x = b
    BY <1>2, <1>4
  <2>3. QED
    BY <1>4, <2>1, <2>2 DEF Max
<1>6. Min(S) = a
  <2>1. \A y \in S : a <= y
    BY <1>2
  <2>2. \A x \in S : (\A y \in S : x <= y) => x = a
    BY <1>2, <1>3
  <2>3. QED
    BY <1>3, <2>1, <2>2 DEF Min
<1>7. span(v) \in Nat
  BY CellsApart
<1>8. QED
  BY <1>1, <1>2, <1>5, <1>6, <1>7

(* A contiguous view has no gaps.                                          *)
LEMMA NoGaps ==
  ASSUME NEW v, Sound(v), is_contiguous(v)
  PROVE  Cells(v) = v.base .. v.base + span(v) - 1
<1>1. PICK S, a, b : S = Cells(v) /\ a = v.base /\ b = v.base + span(v) - 1
  OBVIOUS
<1>2. a \in Nat /\ b \in Nat /\ span(v) \in Nat /\ span(v) \in Positive
  BY <1>1, CellsApart DEF Positive
<1>3. S \in SUBSET (a .. b)
  BY <1>1, CellsApart DEF Cells
<1>4. Cardinality(S) = span(v)
  BY <1>1, CountCells DEF is_contiguous
<1>5. IsFiniteSet(a .. b) /\ Cardinality(a .. b) = span(v)
  <2>1. IsFiniteSet(a .. b) /\ Cardinality(a .. b) = IF a > b THEN 0 ELSE b - a + 1
    BY <1>2, FS_Interval
  <2>2. ~ (a > b) /\ b - a + 1 = span(v)
    BY <1>1, <1>2 DEF Positive
  <2>3. QED
    BY <2>1, <2>2
<1>6. S = a .. b
  BY <1>3, <1>4, <1>5, FS_Subset
<1>7. QED
  BY <1>1, <1>6

(* The spans of views that go through memory in one piece.                 *)
LEMMA InMemory ==
  ASSUME NEW v, Sound(v)
  PROVE  /\ \A x \in v.base .. v.base + span(v) - 1 : x \in 0 .. v.alloc - 1
         /\ \A i \in Indices(v.ext) : Cell(v, i) \in 0 .. v.alloc - 1
<1>1. PICK b, m, a : b = v.base /\ m = span(v) /\ a = v.alloc
  OBVIOUS
<1>2. b \in Nat /\ m \in Nat /\ a \in Nat /\ b + m <= a
  BY <1>1, CellsApart DEF Sound
<1>3. \A x \in b .. b + m - 1 : x \in 0 .. a - 1
  BY <1>2
<1>4. \A i \in Indices(v.ext) : Cell(v, i) \in b .. b + m - 1
  BY <1>1, CellsApart
<1>5. QED
  BY <1>1, <1>3, <1>4

(* What deep_copy leaves in memory.                                        *)
ByIndex(c, mem, dst, from, src) ==
  /\ DOMAIN c = DOMAIN mem
  /\ \A i \in Indices(dst.ext) : Cell(dst, i) \in DOMAIN mem => c[Cell(dst, i)] = from[Cell(src, i)]
  /\ \A x \in DOMAIN mem \ Cells(dst) : c[x] = mem[x]

LEMMA CopyByIndex ==
  ASSUME NEW dst, Sound(dst), NEW src, NEW mem, NEW from
  PROVE  ByIndex(deep_copy(mem, dst, from, src), mem, dst, from, src)
<1>1. PICK c : c = deep_copy(mem, dst, from, src)
  OBVIOUS
<1>2. \A i, j \in Indices(dst.ext) : Cell(dst, i) = Cell(dst, j) => i = j
  BY CellsApart
<1>3. ASSUME NEW i \in Indices(dst.ext), Cell(dst, i) \in DOMAIN mem
      PROVE  c[Cell(dst, i)] = from[Cell(src, i)]
  <2>1. PICK x : x = Cell(dst, i)
    OBVIOUS
  <2>2. x \in Cells(dst)
    BY <2>1 DEF Cells
  <2>3. (CHOOSE j \in Indices(dst.ext) : Cell(dst, j) = x) = i
    BY <1>2, <2>1
  <2>4. c[x] = from[Cell(src, CHOOSE j \in Indices(dst.ext) : Cell(dst, j) = x)]
    BY <1>1, <1>3, <2>1, <2>2 DEF deep_copy
  <2>5. QED
    BY <2>1, <2>3, <2>4
<1>4. DOMAIN c = DOMAIN mem /\ \A x \in DOMAIN mem \ Cells(dst) : c[x] = mem[x]
  BY <1>1 DEF deep_copy
<1>5. QED
  BY <1>1, <1>3, <1>4 DEF ByIndex

LEMMA FilledByIndex ==
  ASSUME NEW v, Sound(v), NEW c, c = init_view(v)
  PROVE  /\ DOMAIN c = 0 .. v.alloc - 1
         /\ \A i \in Indices(v.ext) : c[Cell(v, i)] = i
<1>1. \A i, j \in Indices(v.ext) : Cell(v, i) = Cell(v, j) => i = j
  BY CellsApart
<1>2. ASSUME NEW i \in Indices(v.ext) PROVE c[Cell(v, i)] = i
  <2>1. PICK x : x = Cell(v, i)
    OBVIOUS
  <2>2. x \in Cells(v) /\ x \in 0 .. v.alloc - 1
    BY <2>1, InMemory DEF Cells
  <2>3. (CHOOSE j \in Indices(v.ext) : Cell(v, j) = x) = i
    BY <1>1, <2>1
  <2>4. c[x] = CHOOSE j \in Indices(v.ext) : Cell(v, j) = x
    BY <2>2 DEF init_view
  <2>5. QED
    BY <2>1, <2>3, <2>4
<1>3. QED
  BY <1>2 DEF init_view

-----------------------------------------------------------------------------
LEMMA SameIndex ==
  ASSUME NEW n \in Nat, NEW i, NEW j, i \in [1 .. n -> Nat], j \in [1 .. n -> Nat],
         \A k \in 1 .. n : i[k] = j[k]
  PROVE  i = j
  OBVIOUS

(* No two indices have the same number.                                    *)
LEMMA NumbersApart ==
  ASSUME NEW e \in Seq(Positive), NEW i \in Indices(e), NEW j \in Indices(e), Number(e, i) = Number(e, j)
  PROVE  i = j
<1>1. PICK n : n = Len(e)
  OBVIOUS
<1>2. n \in Nat /\ DOMAIN e = 1 .. n /\ \A k \in 1 .. n : e[k] \in Nat
  BY <1>1, Extents
<1>3. /\ i \in [1 .. n -> Nat] /\ j \in [1 .. n -> Nat]
      /\ \A k \in 1 .. n : i[k] < e[k] /\ j[k] < e[k]
  BY <1>1, IndicesAre DEF IsIndex
<1>4. PICK p : Numbers(p, e, i) /\ Number(e, i) = p[n]
  BY <1>1, <1>2, <1>3, NumberFold
<1>5. PICK r : Numbers(r, e, j) /\ Number(e, j) = r[n]
  BY <1>1, <1>2, <1>3, NumberFold
<1>6. /\ p \in [0 .. n -> Nat] /\ r \in [0 .. n -> Nat]
      /\ \A k \in 1 .. n : p[k] = i[k] + e[k] * p[k - 1] /\ r[k] = j[k] + e[k] * r[k - 1]
  BY <1>1, <1>4, <1>5 DEF Numbers
<1>7. PICK T : T = {k \in 0 .. n : p[k] = r[k]}
  OBVIOUS
<1>8. n \in T
  <2>1. n \in 0 .. n
    BY <1>2
  <2>2. p[n] = r[n]
    BY <1>4, <1>5
  <2>3. QED
    BY <1>7, <2>1, <2>2
<1>9. ASSUME NEW k \in 1 .. n, k \in T PROVE k - 1 \in T /\ i[k] = j[k]
  <2>1. k - 1 \in 0 .. n
    BY <1>2
  <2>2. PICK x, y, a, b, s : x = i[k] /\ y = j[k] /\ a = p[k - 1] /\ b = r[k - 1] /\ s = e[k]
    OBVIOUS
  <2>3. a \in Nat /\ b \in Nat
    BY <1>6, <2>1, <2>2
  <2>4. x \in Nat /\ y \in Nat /\ s \in Nat /\ x < s /\ y < s
    BY <1>2, <1>3, <2>2
  <2>5. x + s * a = y + s * b
    BY <1>6, <1>7, <1>9, <2>2
  <2>6. s * a = a * s /\ s * b = b * s
    BY <2>3, <2>4
  <2>7. x + a * s = y + b * s
    BY <2>5, <2>6
  <2>8. a = b /\ x = y
    BY <2>3, <2>4, <2>7, SameDigit
  <2>9. QED
    BY <1>7, <2>1, <2>2, <2>8
<1>10. 0 .. n \subseteq T
  BY <1>2, <1>8, <1>9, Downward
<1>11. \A k \in 1 .. n : i[k] = j[k]
  <2>1. \A k \in 1 .. n : k \in 0 .. n
    BY <1>2
  <2>2. QED
    BY <1>9, <1>10, <2>1
<1>12. i \in [1 .. n -> Nat] /\ j \in [1 .. n -> Nat]
  BY <1>3
<1>13. QED
  BY <1>2, <1>11, <1>12, SameIndex

-----------------------------------------------------------------------------
(* A message holds the elements of a view in some order: that of the view, *)
(* if it is sent as it is, and that of its packed copy otherwise.          *)

Packs(v, p) == ~ p /\ ~ is_contiguous(v)
Order(v, p) == IF Packs(v, p) THEN Strides(v.space, v.ext) ELSE v.stride
Length(v, p) == IF p THEN span(v) ELSE size(v)

Dense(v, p) == \A x \in 0 .. Length(v, p) - 1 : \E i \in Indices(v.ext) : Offset(i, Order(v, p)) = x

LEMMA Positions ==
  ASSUME NEW v, Sound(v), NEW p \in BOOLEAN
  PROVE  /\ Length(v, p) \in Nat
         /\ \A i \in Indices(v.ext) : Offset(i, Order(v, p)) \in 0 .. Length(v, p) - 1
         /\ ~ p => Dense(v, p)
<1>1. ASSUME NEW w, Sound(w), NEW x \in Nat, x \in 0 .. span(w) - 1, is_contiguous(w)
      PROVE  \E i \in Indices(w.ext) : Offset(i, w.stride) = x
  <2>1. w.base + x \in w.base .. w.base + span(w) - 1
    BY <1>1, CellsApart
  <2>2. w.base + x \in Cells(w)
    BY <1>1, <2>1, NoGaps
  <2>3. PICK i \in Indices(w.ext) : w.base + x = Cell(w, i)
    BY <2>2 DEF Cells
  <2>4. Offset(i, w.stride) \in Nat
    BY <1>1, WithinLast DEF Sound, Positive
  <2>5. Offset(i, w.stride) = x
    BY <1>1, <2>3, <2>4 DEF Sound, Cell
  <2>6. QED
    BY <2>5
<1>2. ASSUME NEW w, Sound(w), NEW i \in Indices(w.ext)
      PROVE  Offset(i, w.stride) \in 0 .. span(w) - 1
  <2>1. w.stride \in [1 .. Len(w.ext) -> Nat] /\ w.ext \in Seq(Positive)
    BY <1>2 DEF Sound, Positive
  <2>2. PICK m : m = Offset(LastIndex(w.ext), w.stride)
    OBVIOUS
  <2>3. m \in Nat /\ Offset(i, w.stride) \in 0 .. m
    BY <2>1, <2>2, WithinLast
  <2>4. span(w) = 1 + m
    BY <2>2 DEF span, LastIndex
  <2>5. QED
    BY <2>3, <2>4
<1>3. CASE Packs(v, p)
  <2>1. PICK w : w = contiguous_view(v)
    OBVIOUS
  <2>2. Sound(w) /\ w.ext = v.ext /\ span(w) = size(v) /\ w.stride = Order(v, p)
    BY <1>3, <2>1, PackedViews DEF Order
  <2>3. is_contiguous(w) /\ Length(v, p) = size(v) /\ span(w) \in Nat
    BY <1>3, <2>2, CellsApart DEF is_contiguous, size, Packs, Length
  <2>4. \A i \in Indices(v.ext) : Offset(i, Order(v, p)) \in 0 .. Length(v, p) - 1
    BY <1>2, <2>2, <2>3
  <2>5. Dense(v, p)
    BY <1>1, <2>2, <2>3 DEF Dense
  <2>6. QED
    BY <2>2, <2>3, <2>4, <2>5
<1>4. CASE ~ Packs(v, p)
  <2>1. Order(v, p) = v.stride /\ Length(v, p) = span(v) /\ span(v) \in Nat /\ (~ p => is_contiguous(v))
    BY <1>4, CellsApart DEF Order, Length, Packs, is_contiguous
  <2>2. \A i \in Indices(v.ext) : Offset(i, Order(v, p)) \in 0 .. Length(v, p) - 1
    BY <1>2, <2>1
  <2>3. ~ p => Dense(v, p)
    BY <1>1, <2>1 DEF Dense
  <2>4. QED
    BY <2>1, <2>2, <2>3
<1>5. QED
  BY <1>3, <1>4

(* The contents of a view, of a packed copy, of the message, and of the    *)
(* view at the other end.                                                  *)

Filled(mem, v) == DOMAIN mem = 0 .. v.alloc - 1 /\ \A i \in Indices(v.ext) : mem[Cell(v, i)] = i

Copied(mem, v) ==
  /\ DOMAIN mem = 0 .. size(v) - 1
  /\ \A i \in Indices(v.ext) : mem[Offset(i, Strides(v.space, v.ext))] = i

Sent(w, v, p) ==
  /\ DOMAIN w = 1 .. Length(v, p) /\ Len(w) = Length(v, p)
  /\ \A i \in Indices(v.ext) : w[1 + Offset(i, Order(v, p))] = i

Received(mem, w, v) ==
  /\ DOMAIN mem = 0 .. size(v) - 1
  /\ \A k \in 1 .. size(v) : mem[k - 1] = w[k]

Placed(mem, w, v, p) ==
  /\ DOMAIN mem = 0 .. v.alloc - 1
  /\ \A i \in Indices(v.ext) : mem[Cell(v, i)] = w[1 + Offset(i, Order(v, p))]

Around(mem, v, p) == ~ p => \A c \in DOMAIN mem \ Cells(v) : mem[c] = Old

LEMMA PackCopies ==
  ASSUME NEW v, Sound(v), NEW mem, Filled(mem, v), NEW old, DOMAIN old = 0 .. size(v) - 1,
         NEW new, new = deep_copy(old, contiguous_view(v), mem, v)
  PROVE  Copied(new, v)
<1>1. PICK w : w = contiguous_view(v)
  OBVIOUS
<1>2. /\ Sound(w) /\ w.ext = v.ext /\ w.base = 0 /\ w.alloc = size(v)
      /\ w.stride = Strides(v.space, v.ext)
  BY <1>1, PackedViews
<1>3. /\ DOMAIN new = DOMAIN old
      /\ \A i \in Indices(v.ext) : Cell(w, i) \in DOMAIN old => new[Cell(w, i)] = mem[Cell(v, i)]
  <2>1. ByIndex(deep_copy(old, w, mem, v), old, w, mem, v)
    BY <1>2, CopyByIndex
  <2>2. QED
    BY <1>1, <1>2, <2>1 DEF ByIndex
<1>4. \A i \in Indices(v.ext) : Cell(w, i) \in DOMAIN old
  BY <1>2, InMemory
<1>5. \A i \in Indices(v.ext) : Cell(w, i) = Offset(i, Strides(v.space, v.ext))
  <2>1. w.ext \in Seq(Positive) /\ w.stride \in [1 .. Len(w.ext) -> Nat]
    BY <1>2 DEF Sound, Positive
  <2>2. \A i \in Indices(w.ext) : Offset(i, w.stride) \in Nat
    BY <2>1, WithinLast
  <2>3. QED
    BY <1>2, <2>2 DEF Cell
<1>6. QED
  BY <1>3, <1>4, <1>5 DEF Filled, Copied

LEMMA SendsView ==
  ASSUME NEW v, Sound(v), NEW p \in BOOLEAN, ~ Packs(v, p), NEW mem, Filled(mem, v),
         NEW w, w = Message(mem, v.base, span(v))
  PROVE  Sent(w, v, p)
<1>1. PICK m : m = span(v)
  OBVIOUS
<1>2. Order(v, p) = v.stride /\ Length(v, p) = m /\ m \in Nat /\ v.base \in Nat
  BY <1>1, CellsApart DEF Order, Length, Packs, is_contiguous
<1>3. DOMAIN w = 1 .. m /\ Len(w) = m /\ \A k \in 1 .. m : w[k] = mem[v.base + k - 1]
  <2>1. PICK b : b = v.base
    OBVIOUS
  <2>2. w = [k \in 1 .. m |-> mem[b + k - 1]]
    BY <1>1, <2>1 DEF Message
  <2>3. DOMAIN w = 1 .. m /\ Len(w) = m /\ \A k \in 1 .. m : w[k] = mem[b + k - 1]
    BY <1>2, <2>2
  <2>4. QED
    BY <2>1, <2>3
<1>4. ASSUME NEW i \in Indices(v.ext) PROVE w[1 + Offset(i, v.stride)] = i
  <2>1. PICK x : x = Offset(i, v.stride)
    OBVIOUS
  <2>2. x \in 0 .. m - 1 /\ Cell(v, i) = v.base + x
    BY <1>2, <2>1, Positions DEF Cell
  <2>3. 1 + x \in 1 .. m /\ v.base + (1 + x) - 1 = v.base + x
    BY <1>2, <2>2
  <2>4. w[1 + x] = mem[v.base + x]
    BY <1>3, <2>3
  <2>5. QED
    BY <2>1, <2>2, <2>4 DEF Filled
<1>5. QED
  BY <1>2, <1>3, <1>4 DEF Sent

LEMMA SendsCopy ==
  ASSUME NEW v, Sound(v), NEW p \in BOOLEAN, Packs(v, p), NEW mem, Copied(mem, v),
         NEW w, w = Message(mem, 0, span(contiguous_view(v)))
  PROVE  Sent(w, v, p)
<1>1. PICK m : m = size(v)
  OBVIOUS
<1>2. Order(v, p) = Strides(v.space, v.ext) /\ Length(v, p) = m /\ m \in Nat
  BY <1>1, Positions DEF Order, Length, Packs
<1>3. w = Message(mem, 0, m)
  BY <1>1, PackedViews
<1>4. DOMAIN w = 1 .. m /\ Len(w) = m /\ \A k \in 1 .. m : w[k] = mem[0 + k - 1]
  <2>1. w = [k \in 1 .. m |-> mem[0 + k - 1]]
    BY <1>3 DEF Message
  <2>2. QED
    BY <1>2, <2>1
<1>5. ASSUME NEW i \in Indices(v.ext) PROVE w[1 + Offset(i, Order(v, p))] = i
  <2>1. PICK x : x = Offset(i, Order(v, p))
    OBVIOUS
  <2>2. x \in 0 .. m - 1
    BY <1>2, <2>1, Positions
  <2>3. 1 + x \in 1 .. m /\ 0 + (1 + x) - 1 = x
    BY <1>2, <2>2
  <2>4. w[1 + x] = mem[x]
    BY <1>4, <2>3
  <2>5. QED
    BY <1>2, <2>1, <2>4 DEF Copied
<1>6. QED
  BY <1>2, <1>4, <1>5 DEF Sent

LEMMA ArrivesInView ==
  ASSUME NEW v, Sound(v), NEW p \in BOOLEAN, ~ Packs(v, p), NEW w, Len(w) = Length(v, p),
         NEW mem, mem = Fresh(v.alloc, Old), NEW new,
         new = [c \in DOMAIN mem |->
                  IF c \in v.base .. v.base + Len(w) - 1 THEN w[c - v.base + 1] ELSE mem[c]]
  PROVE  Placed(new, w, v, p) /\ Around(new, v, p)
<1>1. PICK b, m : b = v.base /\ m = span(v)
  OBVIOUS
<1>2. /\ Order(v, p) = v.stride /\ Length(v, p) = m /\ m \in Nat /\ b \in Nat
      /\ ~ p => is_contiguous(v)
  BY <1>1, CellsApart DEF Order, Length, Packs, is_contiguous
<1>3. DOMAIN mem = 0 .. v.alloc - 1 /\ \A c \in DOMAIN mem : mem[c] = Old
  BY DEF Fresh
<1>4. /\ DOMAIN new = DOMAIN mem
      /\ \A c \in DOMAIN mem : c \in b .. b + m - 1 => new[c] = w[c - b + 1]
      /\ \A c \in DOMAIN mem : c \notin b .. b + m - 1 => new[c] = mem[c]
  BY <1>1, <1>2
<1>5. ASSUME NEW i \in Indices(v.ext) PROVE new[Cell(v, i)] = w[1 + Offset(i, v.stride)]
  <2>1. PICK x : x = Offset(i, v.stride)
    OBVIOUS
  <2>2. x \in 0 .. m - 1 /\ Cell(v, i) = b + x
    BY <1>1, <1>2, <2>1, Positions DEF Cell
  <2>3. b + x \in DOMAIN mem
    BY <1>3, <2>2, InMemory
  <2>4. b + x \in b .. b + m - 1 /\ (b + x) - b + 1 = 1 + x
    BY <1>2, <2>2
  <2>5. new[b + x] = w[(b + x) - b + 1]
    BY <1>4, <2>3, <2>4
  <2>6. QED
    BY <2>1, <2>2, <2>4, <2>5
<1>6. Placed(new, w, v, p)
  BY <1>2, <1>3, <1>4, <1>5 DEF Placed
<1>7. ASSUME ~ p, NEW c \in DOMAIN new \ Cells(v) PROVE new[c] = Old
  <2>1. Cells(v) = b .. b + m - 1
    BY <1>1, <1>2, <1>7, NoGaps
  <2>2. QED
    BY <1>3, <1>4, <1>7, <2>1
<1>8. QED
  BY <1>6, <1>7 DEF Around

LEMMA ArrivesInCopy ==
  ASSUME NEW v, Sound(v), NEW p \in BOOLEAN, Packs(v, p), NEW w, Len(w) = Length(v, p),
         NEW mem, DOMAIN mem = 0 .. size(v) - 1, NEW new,
         new = [c \in DOMAIN mem |-> IF c \in 0 .. 0 + Len(w) - 1 THEN w[c - 0 + 1] ELSE mem[c]]
  PROVE  Received(new, w, v)
<1>1. PICK m : m = size(v)
  OBVIOUS
<1>2. Length(v, p) = m /\ m \in Nat
  BY <1>1, Positions DEF Length, Packs
<1>3. DOMAIN new = 0 .. m - 1 /\ \A c \in 0 .. m - 1 : new[c] = w[c - 0 + 1]
  BY <1>1, <1>2
<1>4. ASSUME NEW k \in 1 .. m PROVE new[k - 1] = w[k]
  <2>1. k - 1 \in 0 .. m - 1 /\ (k - 1) - 0 + 1 = k
    BY <1>2
  <2>2. QED
    BY <1>3, <2>1
<1>5. QED
  BY <1>1, <1>3, <1>4 DEF Received

LEMMA UnpacksCopy ==
  ASSUME NEW v, Sound(v), NEW p \in BOOLEAN, Packs(v, p), NEW w, NEW from, Received(from, w, v),
         NEW mem, mem = Fresh(v.alloc, Old), NEW new, new = deep_copy(mem, v, from, contiguous_view(v))
  PROVE  Placed(new, w, v, p) /\ Around(new, v, p)
<1>1. PICK c : c = contiguous_view(v)
  OBVIOUS
<1>2. DOMAIN mem = 0 .. v.alloc - 1 /\ \A x \in DOMAIN mem : mem[x] = Old
  BY DEF Fresh
<1>3. ByIndex(new, mem, v, from, c)
  BY <1>1, CopyByIndex
<1>4. c.base = 0 /\ c.stride = Order(v, p) /\ Length(v, p) = size(v) /\ size(v) \in Nat
  BY <1>1, PackedViews, Positions DEF Order, Length, Packs
<1>5. ASSUME NEW i \in Indices(v.ext) PROVE new[Cell(v, i)] = w[1 + Offset(i, Order(v, p))]
  <2>1. PICK x : x = Offset(i, Order(v, p))
    OBVIOUS
  <2>2. x \in 0 .. size(v) - 1
    BY <1>4, <2>1, Positions
  <2>3. 1 + x \in 1 .. size(v) /\ (1 + x) - 1 = x /\ 0 + x = x
    BY <1>4, <2>2
  <2>4. Cell(c, i) = x
    BY <1>4, <2>1, <2>3 DEF Cell
  <2>5. Cell(v, i) \in DOMAIN mem
    BY <1>2, InMemory
  <2>6. new[Cell(v, i)] = from[x]
    BY <1>3, <2>4, <2>5 DEF ByIndex
  <2>7. from[x] = w[1 + x]
    BY <2>3 DEF Received
  <2>8. QED
    BY <2>1, <2>6, <2>7
<1>6. QED
  BY <1>2, <1>3, <1>5 DEF ByIndex, Placed, Around

(* What both ends announce is one length.                                  *)
LEMMA OneLength ==
  ASSUME NEW v, NEW u, v.ext = u.ext, NEW p \in BOOLEAN, p => v.stride = u.stride
  PROVE  Length(v, p) = Length(u, p)
BY DEF Length, size, span

-----------------------------------------------------------------------------
(* What follows for the elements.                                          *)

LEMMA OneOrder ==
  ASSUME NEW v, Sound(v), NEW i \in Indices(v.ext), NEW p \in BOOLEAN, ~ p, Native(v)
  PROVE  Offset(i, Order(v, p)) = Offset(i, Strides(v.space, v.ext))
<1>1. CASE Packs(v, p)
  BY <1>1 DEF Order
<1>2. CASE ~ Packs(v, p)
  <2>1. is_contiguous(v) /\ Order(v, p) = v.stride
    BY <1>2 DEF Packs, Order
  <2>2. PICK x, y, b : /\ x = Offset(i, v.stride) /\ y = Offset(i, Strides(v.space, v.ext))
                       /\ b = v.base
    OBVIOUS
  <2>3. b + x = b + y
    BY <2>1, <2>2 DEF Native, Cell
  <2>4. v.ext \in Seq(Positive) /\ v.stride \in [1 .. Len(v.ext) -> Nat] /\ b \in Nat
    BY <2>2 DEF Sound, Positive
  <2>5. Strides(v.space, v.ext) \in [1 .. Len(v.ext) -> Nat]
    BY LayoutStrides DEF Sound, Positive
  <2>6. x \in Nat /\ y \in Nat
    BY <2>2, <2>4, <2>5, WithinLast
  <2>7. x = y
    BY <2>3, <2>4, <2>6
  <2>8. QED
    BY <2>1, <2>2, <2>7
<1>3. QED
  BY <1>1, <1>2

(* Each end's positions in the message are the other's, in some order.     *)
LEMMA Exchanged ==
  ASSUME NEW v, Sound(v), NEW u, Sound(u), v.ext = u.ext, NEW p \in BOOLEAN, p => v.stride = u.stride,
         NEW w, Sent(w, v, p), NEW mem, Placed(mem, w, u, p)
  PROVE  /\ \A i \in Indices(u.ext) : mem[Cell(u, i)] \in Indices(u.ext)
         /\ \A j \in Indices(u.ext) : \E i \in Indices(u.ext) : mem[Cell(u, i)] = j
<1>1. PICK m : m = Length(v, p)
  OBVIOUS
<1>2. m = Length(u, p)
  BY <1>1, OneLength
<1>3. CASE p
  <2>1. Order(v, p) = Order(u, p)
    BY <1>3 DEF Order, Packs
  <2>2. \A i \in Indices(u.ext) : mem[Cell(u, i)] = i
    BY <2>1 DEF Sent, Placed
  <2>3. QED
    BY <2>2
<1>4. CASE ~ p
  <2>1. ASSUME NEW i \in Indices(u.ext) PROVE mem[Cell(u, i)] \in Indices(u.ext)
    <3>1. PICK x : x = Offset(i, Order(u, p))
      OBVIOUS
    <3>2. x \in 0 .. m - 1
      BY <1>2, <3>1, Positions
    <3>3. PICK j \in Indices(v.ext) : Offset(j, Order(v, p)) = x
      BY <1>1, <1>4, <3>2, Positions DEF Dense
    <3>4. w[1 + x] = j
      BY <3>3 DEF Sent
    <3>5. QED
      BY <3>1, <3>3, <3>4 DEF Placed
  <2>2. ASSUME NEW j \in Indices(u.ext) PROVE \E i \in Indices(u.ext) : mem[Cell(u, i)] = j
    <3>1. PICK x : x = Offset(j, Order(v, p))
      OBVIOUS
    <3>2. x \in 0 .. m - 1
      BY <1>1, <3>1, Positions
    <3>3. PICK i \in Indices(u.ext) : Offset(i, Order(u, p)) = x
      BY <1>2, <1>4, <3>2, Positions DEF Dense
    <3>4. mem[Cell(u, i)] = w[1 + x] /\ w[1 + x] = j
      BY <3>1, <3>3 DEF Placed, Sent
    <3>5. QED
      BY <3>4
  <2>3. QED
    BY <2>1, <2>2
<1>5. QED
  BY <1>3, <1>4

-----------------------------------------------------------------------------
(* The inductive invariant.  TypeOK and the other invariants speak of the  *)
(* end of a transfer; this one says at every stage which element each      *)
(* buffer holds where.                                                     *)

Ends ==
  /\ Sound(sv) /\ Sound(rv) /\ sv.ext = rv.ext
  /\ persistent \in BOOLEAN /\ (persistent => sv.stride = rv.stride)

Sending ==
  /\ Filled(smem, sv) /\ DOMAIN spacked = 0 .. size(sv) - 1
  /\ stage = "packed" => Packs(sv, persistent) /\ Copied(spacked, sv)

Sends == stage \in {"sent", "received", "done"} => Sent(wire, sv, persistent)

Receiving ==
  /\ DOMAIN rpacked = 0 .. size(rv) - 1
  /\ stage = "received" => Packs(rv, persistent) /\ Received(rpacked, wire, rv)
  /\ IF stage = "done" THEN Placed(rmem, wire, rv, persistent) /\ Around(rmem, rv, persistent)
     ELSE rmem = Fresh(rv.alloc, Old)

Stages == stage \in {"call", "packed", "sent", "received", "done"}

IInv == Ends /\ Stages /\ Sending /\ Sends /\ Receiving

LEMMA Starts == Init => IInv
<1>1. SUFFICES ASSUME Init PROVE IInv
  OBVIOUS
<1>2. PICK e \in Shapes, ks \in Kinds, kr \in Kinds, ss \in Spaces, sr \in Spaces :
        sv = Build(ks, ss, e) /\ rv = Build(kr, sr, e)
  BY <1>1 DEF Init
<1>3. Sound(sv) /\ Sound(rv) /\ sv.ext = e /\ rv.ext = e
  BY <1>2, BuildSound
<1>4. Ends
  BY <1>1, <1>3 DEF Init, Ends
<1>5. stage = "call" /\ smem = init_view(sv) /\ rmem = Fresh(rv.alloc, Old)
  BY <1>1 DEF Init
<1>6. DOMAIN spacked = 0 .. size(sv) - 1 /\ DOMAIN rpacked = 0 .. size(rv) - 1
  BY <1>1 DEF Init, Fresh
<1>7. Filled(smem, sv)
  BY <1>3, <1>5, FilledByIndex DEF Filled
<1>8. QED
  BY <1>4, <1>5, <1>6, <1>7 DEF IInv, Stages, Sending, Sends, Receiving

LEMMA PackedIs == ASSUME NEW v PROVE Packed(v) <=> Packs(v, persistent)
  BY DEF Packed, Packs

LEMMA PackKeeps == ASSUME IInv, pack PROVE IInv'
<1>1. UNCHANGED <<sv, rv, persistent, smem, rmem, rpacked, wire>> /\ stage = "call" /\ stage' = "packed"
  BY DEF pack
<1>2. Sound(sv) /\ Filled(smem, sv) /\ DOMAIN spacked = 0 .. size(sv) - 1 /\ Packs(sv, persistent)
  BY PackedIs DEF IInv, Ends, Sending, pack
<1>3. Copied(spacked', sv)
  BY <1>2, PackCopies DEF pack
<1>4. DOMAIN spacked' = 0 .. size(sv) - 1
  BY <1>3 DEF Copied
<1>5. Ends'
  BY <1>1 DEF IInv, Ends
<1>6. Sending'
  BY <1>1, <1>2, <1>3, <1>4 DEF Sending, size
<1>7. Receiving'
  BY <1>1 DEF IInv, Receiving
<1>8. QED
  BY <1>1, <1>5, <1>6, <1>7 DEF IInv, Stages, Sends

LEMMA SendKeeps == ASSUME IInv, send PROVE IInv'
<1>1. UNCHANGED <<sv, rv, persistent, smem, rmem, spacked, rpacked>> /\ stage' = "sent"
  BY DEF send
<1>2. Sound(sv) /\ Filled(smem, sv) /\ persistent \in BOOLEAN
  BY DEF IInv, Ends, Sending
<1>3. Sent(wire', sv, persistent)
  <2>1. CASE stage = "call" /\ ~ Packed(sv) /\ wire' = Message(smem, sv.base, span(sv))
    BY <1>2, <2>1, PackedIs, SendsView
  <2>2. CASE stage = "packed" /\ wire' = Message(spacked, 0, span(contiguous_view(sv)))
    <3>1. Packs(sv, persistent) /\ Copied(spacked, sv)
      BY <2>2 DEF IInv, Sending
    <3>2. QED
      BY <1>2, <2>2, <3>1, SendsCopy
  <2>3. QED
    BY <2>1, <2>2 DEF send
<1>4. stage \in {"call", "packed"}
  BY DEF send
<1>5. Ends'
  BY <1>1 DEF IInv, Ends
<1>6. Sending'
  BY <1>1 DEF IInv, Sending
<1>7. Receiving'
  BY <1>1, <1>4 DEF IInv, Receiving
<1>8. Sends'
  BY <1>1, <1>3 DEF Sends
<1>9. QED
  BY <1>1, <1>5, <1>6, <1>7, <1>8 DEF IInv, Stages

LEMMA RecvKeeps == ASSUME IInv, recv PROVE IInv'
<1>1. UNCHANGED <<sv, rv, persistent, smem, spacked, wire>> /\ stage = "sent"
  BY DEF recv
<1>2. Sound(rv) /\ persistent \in BOOLEAN /\ Sent(wire, sv, persistent)
  BY <1>1 DEF IInv, Ends, Sends
<1>3. Len(wire) = Length(rv, persistent)
  <2>1. Length(sv, persistent) = Length(rv, persistent)
    BY OneLength DEF IInv, Ends
  <2>2. QED
    BY <1>2, <2>1 DEF Sent
<1>4. Ends'
  BY <1>1 DEF IInv, Ends
<1>5. DOMAIN rpacked = 0 .. size(rv) - 1 /\ rmem = Fresh(rv.alloc, Old)
  BY <1>1 DEF IInv, Receiving
<1>6. CASE Packed(rv)
  <2>1. rpacked' = Arrive(rpacked, 0) /\ stage' = "received" /\ rmem' = rmem
    BY <1>6 DEF recv
  <2>2. Received(rpacked', wire, rv)
    BY <1>2, <1>3, <1>5, <1>6, <2>1, PackedIs, ArrivesInCopy DEF Arrive
  <2>3. Packs(rv, persistent)
    BY <1>6, PackedIs
  <2>4. DOMAIN rpacked' = 0 .. size(rv) - 1
    BY <2>2 DEF Received
  <2>5. Receiving'
    BY <1>1, <1>5, <2>1, <2>2, <2>3, <2>4 DEF Receiving
  <2>6. Sending' /\ Sends' /\ Stages'
    BY <1>1, <1>2, <2>1 DEF IInv, Sending, Sends, Stages
  <2>7. QED
    BY <1>4, <2>5, <2>6 DEF IInv
<1>7. CASE ~ Packed(rv)
  <2>1. rmem' = Arrive(rmem, rv.base) /\ stage' = "done" /\ rpacked' = rpacked
    BY <1>7 DEF recv
  <2>2. Placed(rmem', wire, rv, persistent) /\ Around(rmem', rv, persistent)
    BY <1>2, <1>3, <1>5, <1>7, <2>1, PackedIs, ArrivesInView DEF Arrive
  <2>3. Receiving'
    BY <1>1, <1>5, <2>1, <2>2 DEF Receiving
  <2>4. Sending' /\ Sends' /\ Stages'
    BY <1>1, <1>2, <2>1 DEF IInv, Sending, Sends, Stages
  <2>5. QED
    BY <1>4, <2>3, <2>4 DEF IInv
<1>8. QED
  BY <1>6, <1>7

LEMMA UnpackKeeps == ASSUME IInv, unpack_into PROVE IInv'
<1>1. /\ UNCHANGED <<sv, rv, persistent, smem, spacked, rpacked, wire>>
      /\ stage = "received" /\ stage' = "done"
  BY DEF unpack_into
<1>2. /\ Sound(rv) /\ persistent \in BOOLEAN /\ Packs(rv, persistent) /\ Received(rpacked, wire, rv)
      /\ rmem = Fresh(rv.alloc, Old) /\ Sent(wire, sv, persistent)
  BY <1>1 DEF IInv, Ends, Sends, Receiving
<1>3. Placed(rmem', wire, rv, persistent) /\ Around(rmem', rv, persistent)
  BY <1>2, UnpacksCopy DEF unpack_into
<1>4. Ends'
  BY <1>1 DEF IInv, Ends
<1>5. Receiving'
  BY <1>1, <1>3 DEF IInv, Receiving
<1>6. Sending' /\ Sends' /\ Stages'
  BY <1>1, <1>2 DEF IInv, Sending, Sends, Stages
<1>7. QED
  BY <1>4, <1>5, <1>6 DEF IInv

LEMMA StutterKeeps == ASSUME IInv, UNCHANGED vars PROVE IInv'
  BY DEF IInv, Ends, Stages, Sending, Sends, Receiving, vars

LEMMA Invariance == Spec => []IInv
<1>1. IInv /\ [Next]_vars => IInv'
  BY PackKeeps, SendKeeps, RecvKeeps, UnpackKeeps, StutterKeeps DEF Next
<1>2. QED
  BY Starts, <1>1, PTL DEF Spec

(* Views stay in their allocations with every element in a cell of its     *)
(* own, and a message has the length the receiving end expects.            *)
THEOREM TypeCorrect == Spec => []TypeOK
<1>1. IInv => TypeOK
  <2>1. SUFFICES ASSUME IInv PROVE TypeOK
    OBVIOUS
  <2>2. ASSUME NEW v, Sound(v)
        PROVE  /\ Cells(v) \subseteq 0 .. v.alloc - 1 /\ Cardinality(Cells(v)) = size(v)
               /\ v.base + span(v) <= v.alloc
    <3>1. Cells(v) \subseteq 0 .. v.alloc - 1
      BY <2>2, InMemory DEF Cells
    <3>2. QED
      BY <2>2, <3>1, CountCells DEF Sound
  <2>3. DOMAIN smem = 0 .. sv.alloc - 1
    BY <2>1 DEF IInv, Sending, Filled
  <2>4. DOMAIN rmem = 0 .. rv.alloc - 1
    BY <2>1 DEF IInv, Receiving, Placed, Fresh
  <2>5. ASSUME stage \in {"sent", "received", "done"}
        PROVE  Len(wire) = IF persistent THEN Max(Cells(rv)) - Min(Cells(rv)) + 1
                           ELSE Cardinality(Indices(rv.ext))
    <3>1. Len(wire) = Length(rv, persistent)
      BY <2>1, <2>5, OneLength DEF IInv, Ends, Sends, Sent
    <3>2. Cardinality(Indices(rv.ext)) = size(rv)
      BY <2>1, CountIndices DEF IInv, Ends, Sound, size
    <3>3. Max(Cells(rv)) - Min(Cells(rv)) + 1 = span(rv)
      BY <2>1, LastCell DEF IInv, Ends
    <3>4. QED
      BY <3>1, <3>2, <3>3 DEF Length
  <2>6. Sound(sv) /\ Sound(rv) /\ Stages
    BY <2>1 DEF IInv, Ends
  <2>7. QED
    BY <2>2, <2>3, <2>4, <2>5, <2>6 DEF TypeOK, Stages
<1>2. QED
  BY <1>1, Invariance, PTL

(* Where layouts agree, or strides do for a channel, what arrives at an    *)
(* index was sent from that index, packed at neither, either or both ends. *)
THEOREM ArrivesInPlace == Spec => []Intact
<1>1. IInv => Intact
  <2>1. SUFFICES ASSUME IInv, stage = "done",
                        persistent \/ (sv.space = rv.space /\ Native(sv) /\ Native(rv)),
                        NEW i \in Indices(rv.ext)
                 PROVE  rmem[Cell(rv, i)] = i
    BY DEF Intact, Identical
  <2>2. /\ Sound(sv) /\ Sound(rv) /\ sv.ext = rv.ext /\ persistent \in BOOLEAN
        /\ persistent => sv.stride = rv.stride
    BY <2>1 DEF IInv, Ends
  <2>3. Sent(wire, sv, persistent) /\ Placed(rmem, wire, rv, persistent)
    BY <2>1 DEF IInv, Sends, Receiving
  <2>4. Offset(i, Order(sv, persistent)) = Offset(i, Order(rv, persistent))
    <3>1. CASE persistent
      BY <2>2, <3>1 DEF Order, Packs
    <3>2. CASE ~ persistent
      <4>1. Offset(i, Order(sv, persistent)) = Offset(i, Strides(sv.space, sv.ext))
        BY <2>1, <2>2, <3>2, OneOrder
      <4>2. Offset(i, Order(rv, persistent)) = Offset(i, Strides(rv.space, rv.ext))
        BY <2>1, <2>2, <3>2, OneOrder
      <4>3. QED
        BY <2>1, <2>2, <3>2, <4>1, <4>2
    <3>3. QED
      BY <3>1, <3>2
  <2>5. QED
    BY <2>1, <2>2, <2>3, <2>4 DEF Sent, Placed
<1>2. QED
  BY <1>1, Invariance, PTL

LEMMA AllArrive ==
  ASSUME IInv, stage = "done"
  PROVE  /\ \A i \in Indices(rv.ext) : rmem[Cell(rv, i)] \in Indices(rv.ext)
         /\ \A j \in Indices(rv.ext) : \E i \in Indices(rv.ext) : rmem[Cell(rv, i)] = j
<1>1. /\ Sound(sv) /\ Sound(rv) /\ sv.ext = rv.ext /\ persistent \in BOOLEAN
      /\ persistent => sv.stride = rv.stride
  BY DEF IInv, Ends
<1>2. Sent(wire, sv, persistent) /\ Placed(rmem, wire, rv, persistent)
  BY DEF IInv, Sends, Receiving
<1>3. QED
  BY <1>1, <1>2, Exchanged

(* Between any two layouts the elements that arrive are those that were    *)
(* sent, each once, and only a channel writes between them.                *)
THEOREM ArrivesWhole == Spec => []NothingLost
<1>1. IInv => NothingLost
  <2>1. SUFFICES ASSUME IInv PROVE NothingLost
    OBVIOUS
  <2>2. ASSUME stage = "done" PROVE {rmem[c] : c \in Cells(rv)} = Indices(rv.ext)
    <3>1. /\ \A i \in Indices(rv.ext) : rmem[Cell(rv, i)] \in Indices(rv.ext)
          /\ \A j \in Indices(rv.ext) : \E i \in Indices(rv.ext) : rmem[Cell(rv, i)] = j
      BY <2>1, <2>2, AllArrive
    <3>2. \A c \in Cells(rv) : rmem[c] \in Indices(rv.ext)
      BY <3>1 DEF Cells
    <3>3. \A j \in Indices(rv.ext) : \E c \in Cells(rv) : rmem[c] = j
      BY <3>1 DEF Cells
    <3>4. QED
      BY <3>2, <3>3
  <2>3. ASSUME ~ persistent, NEW c \in DOMAIN rmem \ Cells(rv) PROVE rmem[c] = Old
    BY <2>1, <2>3 DEF IInv, Receiving, Around, Fresh
  <2>4. QED
    BY <2>2, <2>3 DEF NothingLost
<1>2. QED
  BY <1>1, Invariance, PTL

(* The comparison of the tests counts an element exactly if it is not the  *)
(* one that was sent from its index: no permutation goes unnoticed.        *)
THEOREM CountsErrors == Spec => []ErrorsCounted
<1>1. IInv => ErrorsCounted
  <2>1. SUFFICES ASSUME IInv, stage = "done"
                 PROVE  count_errors(rv, rmem) =
                          Cardinality({i \in Indices(rv.ext) : rmem[Cell(rv, i)] # i})
    BY DEF ErrorsCounted
  <2>2. rv.ext \in Seq(Positive)
    BY <2>1 DEF IInv, Ends, Sound
  <2>3. ASSUME NEW i \in Indices(rv.ext)
        PROVE  (\/ rmem[Cell(rv, i)] \notin Indices(rv.ext)
                \/ Number(rv.ext, rmem[Cell(rv, i)]) # Number(rv.ext, i))
               <=> rmem[Cell(rv, i)] # i
    <3>1. PICK j : j = rmem[Cell(rv, i)]
      OBVIOUS
    <3>2. j \in Indices(rv.ext)
      BY <2>1, <3>1, AllArrive
    <3>3. Number(rv.ext, j) = Number(rv.ext, i) => j = i
      BY <2>2, <3>2, NumbersApart
    <3>4. QED
      BY <3>1, <3>2, <3>3
  <2>4. {i \in Indices(rv.ext) : \/ rmem[Cell(rv, i)] \notin Indices(rv.ext)
                                 \/ Number(rv.ext, rmem[Cell(rv, i)]) # Number(rv.ext, i)}
        = {i \in Indices(rv.ext) : rmem[Cell(rv, i)] # i}
    BY <2>3
  <2>5. QED
    BY <2>4 DEF count_errors
<1>2. QED
  BY <1>1, Invariance, PTL
=============================================================================
