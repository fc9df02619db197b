--------------------------- MODULE DeliveryProofs ---------------------------
(***************************************************************************)
(* BlockingCalls implements Delivery, for any number of ranks, any views   *)
(* and any programs that fit together.                                     *)
(*                                                                         *)
(* The invariant Delivering comes on top of those of BlockingCallsProofs.  *)
(* It says where the data is: a rank's messages are those its calls asked  *)
(* for (Filed, Closed), between two ranks and with one tag as many sends   *)
(* are matched as receives (Paired), the n-th entry of each rank is what   *)
(* it gives to the n-th collective (Entries), calls that are over have met *)
(* their peers (Met), and what MPI is given or has brought is in the       *)
(* memory it was given, or the kernel that puts it there comes next        *)
(* (Flow).                                                                 *)
(*                                                                         *)
(* Calls that meet have the same place among those of their kind.  The     *)
(* place of a number in a set counts those that are not greater.           *)
(***************************************************************************)
EXTENDS BlockingCallsProofs, FiniteSetTheorems

-----------------------------------------------------------------------------
(* Counting.                                                               *)

(* Sets of calls: of the numbers of a program.                             *)
Counted(T) == IsFiniteSet(T) /\ \A j \in T : j \in Nat /\ j > 0

(* The least of a set of numbers.                                           *)
LEMMA SmallestNumber ==
  ASSUME NEW T \in SUBSET Nat, T # {}
  PROVE  \E m \in T : \A k \in T : m <= k
<1>1. PICK R : R = OpToRel(<, Nat)
  OBVIOUS
<1>2. IsWellFoundedOn(R, Nat)
  BY <1>1, NatLessThanWellFounded
<1>3. PICK m \in T : \A k \in T : <<k, m>> \notin R
  BY <1>2, WFMin
<1>4. \A k, n \in Nat : k < n => <<k, n>> \in R
  BY <1>1 DEF OpToRel
<1>5. ASSUME NEW k \in T PROVE m <= k
  <2>1. k \in Nat /\ m \in Nat
    OBVIOUS
  <2>2. ~ (k < m)
    BY <1>3, <1>4, <2>1, Zenon
  <2>3. QED
    BY <2>1, <2>2
<1>6. QED
  BY <1>5

LEMMA UptoFinite ==
  ASSUME NEW T, Counted(T), NEW n
  PROVE  Counted(Upto(T, n)) /\ IsFiniteSet(Upto(T, n)) /\ Place(T, n) \in Nat
<1>1. Upto(T, n) \in SUBSET T
  BY DEF Upto
<1>2. IsFiniteSet(Upto(T, n))
  BY <1>1, FS_Subset DEF Counted
<1>3. QED
  BY <1>1, <1>2, FS_CardinalityType DEF Counted, Place

LEMMA PlaceGrows ==
  ASSUME NEW T, Counted(T), NEW m \in Int, NEW n \in Int, m <= n
  PROVE  Place(T, m) <= Place(T, n) /\ (n \in T /\ m # n => Place(T, m) < Place(T, n))
<1>1. /\ Upto(T, m) \in SUBSET Upto(T, n)
      /\ n \in T /\ m # n => n \in Upto(T, n) \ Upto(T, m)
  BY DEF Upto, Counted
<1>2. IsFiniteSet(Upto(T, n)) /\ Place(T, n) \in Nat /\ Place(T, m) \in Nat
  BY UptoFinite
<1>3. Place(T, m) <= Place(T, n) /\ (Place(T, m) = Place(T, n) => Upto(T, m) = Upto(T, n))
  BY <1>1, <1>2, FS_Subset DEF Place
<1>4. QED
  BY <1>1, <1>2, <1>3

LEMMA PlaceUnique ==
  ASSUME NEW T, Counted(T), NEW m \in T, NEW n \in T, Place(T, m) = Place(T, n)
  PROVE  m = n
<1>1. m \in Int /\ n \in Int
  BY DEF Counted
<1>3. Place(T, m) \in Nat
  BY UptoFinite
<1>4. CASE m <= n
  BY <1>1, <1>3, <1>4, PlaceGrows
<1>5. CASE n <= m
  BY <1>1, <1>3, <1>5, PlaceGrows
<1>6. QED
  BY <1>1, <1>4, <1>5

(* The next number.                                                        *)
LEMMA PlaceNext ==
  ASSUME NEW T, Counted(T), NEW n \in Nat
  PROVE  Place(T, n + 1) = IF n + 1 \in T THEN Place(T, n) + 1 ELSE Place(T, n)
<1>1. IsFiniteSet(Upto(T, n))
  BY UptoFinite
<1>2. CASE n + 1 \in T
  <2>1. Upto(T, n + 1) = Upto(T, n) \union {n + 1} /\ n + 1 \notin Upto(T, n)
    <3>1. \A j \in T : j <= n + 1 <=> j <= n \/ j = n + 1
      BY DEF Counted
    <3>2. QED
      BY <1>2, <3>1 DEF Upto
  <2>2. QED
    BY <1>1, <1>2, <2>1, FS_AddElement DEF Place
<1>3. CASE n + 1 \notin T
  <2>1. Upto(T, n + 1) = Upto(T, n)
    <3>1. \A j \in T : j <= n + 1 <=> j <= n
      BY <1>3 DEF Counted
    <3>2. QED
      BY <3>1 DEF Upto
  <2>2. QED
    BY <1>3, <2>1 DEF Place
<1>4. QED
  BY <1>2, <1>3

LEMMA PlaceZero ==
  ASSUME NEW T, Counted(T)
  PROVE  Place(T, 0) = 0
<1>1. Upto(T, 0) = {}
  BY DEF Upto, Counted
<1>2. QED
  BY <1>1, FS_EmptySet DEF Place

(* Every place up to that of m is taken.                                   *)
LEMMA PlaceTaken ==
  ASSUME NEW T, Counted(T), NEW m \in Nat, NEW k \in 1 .. Place(T, m)
  PROVE  \E j \in T : j <= m /\ Place(T, j) = k
<1>1. PICK S : S = {j \in Nat : Place(T, j) >= k}
  OBVIOUS
<1>2. Place(T, m) \in Nat /\ Place(T, 0) = 0
  BY UptoFinite, PlaceZero
<1>3. m \in S /\ 0 \notin S /\ S \in SUBSET Nat /\ k \in Nat /\ k > 0
  BY <1>1, <1>2
<1>4. PICK j \in S : \A i \in S : j <= i
  BY <1>3, SmallestNumber
<1>5. j \in Nat /\ j # 0 /\ j <= m /\ Place(T, j) >= k /\ Place(T, j) \in Nat
  BY <1>1, <1>3, <1>4, UptoFinite
<1>6. PICK i \in Nat : j = i + 1
  <2>1. j - 1 \in Nat /\ j = (j - 1) + 1
    BY <1>5
  <2>2. QED
    BY <2>1
<1>7. i \notin S /\ Place(T, i) \in Nat
  BY <1>4, <1>6, UptoFinite
<1>8. Place(T, i) < k
  BY <1>1, <1>3, <1>7
<1>9. Place(T, j) = IF j \in T THEN Place(T, i) + 1 ELSE Place(T, i)
  BY <1>6, PlaceNext
<1>10. j \in T /\ Place(T, j) = k
  BY <1>3, <1>5, <1>7, <1>8, <1>9
<1>11. QED
  BY <1>5, <1>10

-----------------------------------------------------------------------------
(* Two sets of numbers, and a part of each, that agree on which places the *)
(* part has: numbers with one place in the parts have one in the sets.     *)
LEMMA PlacesLess ==
  ASSUME NEW S, NEW T, Counted(S), Counted(T), NEW A, NEW B, Counted(A), Counted(B),
         A \subseteq S, B \subseteq T, NEW i \in A, NEW j \in B,
         \A a \in S, b \in T :
           a <= i /\ b <= j /\ Place(S, a) = Place(T, b) => (a \in A <=> b \in B),
         Place(A, i) = Place(B, j)
  PROVE  ~ (Place(S, i) < Place(T, j))
<1> SUFFICES ASSUME Place(S, i) < Place(T, j) PROVE FALSE
  OBVIOUS
<1>1. i \in Nat /\ i > 0 /\ j \in Nat /\ j > 0 /\ i \in S /\ j \in T
  BY DEF Counted
<1>2. \A n : Place(S, n) \in Nat /\ Place(T, n) \in Nat /\ Place(A, n) \in Nat /\ Place(B, n) \in Nat
  BY UptoFinite
<1>3. \A a \in S : a \in Nat /\ Place(S, a) > 0
  <2>1. ASSUME NEW a \in S PROVE a \in Nat /\ Place(S, a) > 0
    <3>1. a \in Nat /\ 0 <= a /\ 0 # a /\ 0 \in Int /\ a \in Int
      BY DEF Counted
    <3>2. Place(S, 0) < Place(S, a)
      BY <3>1, PlaceGrows
    <3>3. QED
      BY <1>2, <3>1, <3>2
  <2>2. QED
    BY <2>1
<1>4. PICK k \in T : k <= j /\ Place(T, k) = Place(S, i)
  <2>1. Place(S, i) \in 1 .. Place(T, j)
    BY <1>1, <1>2, <1>3
  <2>2. QED
    BY <1>1, <2>1, PlaceTaken
<1>5. k \in Nat /\ k # j
  BY <1>2, <1>4 DEF Counted
<1>6. \A a \in Upto(A, i) : \E b \in Upto(B, k) : Place(T, b) = Place(S, a)
  <2>1. ASSUME NEW a \in Upto(A, i) PROVE \E b \in Upto(B, k) : Place(T, b) = Place(S, a)
    <3>1. a \in A /\ a \in S /\ a <= i /\ a \in Int /\ i \in Int
      BY <1>1, <1>3 DEF Upto
    <3>2. Place(S, a) <= Place(S, i)
      BY <3>1, PlaceGrows
    <3>3. Place(S, a) \in 1 .. Place(T, k)
      BY <1>2, <1>3, <1>4, <3>1, <3>2
    <3>4. PICK b \in T : b <= k /\ Place(T, b) = Place(S, a)
      BY <1>5, <3>3, PlaceTaken
    <3>5. b <= j
      BY <1>1, <1>4, <1>5, <3>4 DEF Counted
    <3>6. b \in B
      BY <3>1, <3>4, <3>5
    <3>7. QED
      BY <3>4, <3>6 DEF Upto
  <2>2. QED
    BY <2>1
<1>7. PICK f : f = [a \in Upto(A, i) |-> CHOOSE b \in Upto(B, k) : Place(T, b) = Place(S, a)]
  OBVIOUS
<1>8. \A a \in Upto(A, i) : f[a] \in Upto(B, k) /\ Place(T, f[a]) = Place(S, a)
  BY <1>6, <1>7
<1>9. f \in Injection(Upto(A, i), Upto(B, k))
  <2>1. ASSUME NEW a \in Upto(A, i), NEW b \in Upto(A, i), f[a] = f[b] PROVE a = b
    <3>1. a \in S /\ b \in S /\ Place(S, a) = Place(S, b)
      BY <1>8, <2>1 DEF Upto
    <3>2. QED
      BY <3>1, PlaceUnique
  <2>2. f \in [Upto(A, i) -> Upto(B, k)]
    BY <1>7, <1>8
  <2>3. QED
    BY <2>1, <2>2 DEF Injection, IsInjective
<1>10. Place(A, i) <= Place(B, k)
  <2>1. IsFiniteSet(Upto(B, k))
    BY UptoFinite
  <2>2. QED
    BY <1>9, <2>1, FS_Injection DEF Place
<1>11. Place(B, k) < Place(B, j)
  BY <1>1, <1>4, <1>5, PlaceGrows
<1>12. QED
  BY <1>2, <1>10, <1>11

LEMMA PlacesAgree ==
  ASSUME NEW S, NEW T, Counted(S), Counted(T), NEW A, NEW B, Counted(A), Counted(B),
         A \subseteq S, B \subseteq T, NEW i \in A, NEW j \in B,
         \A a \in S, b \in T :
           a <= i /\ b <= j /\ Place(S, a) = Place(T, b) => (a \in A <=> b \in B),
         Place(A, i) = Place(B, j)
  PROVE  Place(S, i) = Place(T, j)
<1>1. ~ (Place(S, i) < Place(T, j))
  BY PlacesLess
<1>2. ~ (Place(T, j) < Place(S, i))
  <2>1. \A b \in T, a \in S :
          b <= j /\ a <= i /\ Place(T, b) = Place(S, a) => (b \in B <=> a \in A)
    OBVIOUS
  <2>2. QED
    BY <2>1, PlacesLess
<1>3. Place(S, i) \in Nat /\ Place(T, j) \in Nat
  BY UptoFinite
<1>4. QED
  BY <1>1, <1>2, <1>3

-----------------------------------------------------------------------------
(* What Delivery says of calls, for the program g.                         *)
Subj(g, p, i) == IF g[p][i].fn = "wait" THEN g[p][i].of ELSE i

Brings(g, p, i) ==
  LET c == g[p][i] IN
  CASE c.fn \in Promise!Gathers -> Ranks
    [] c.fn \in Promise!Broadcasts -> {c.root}
    [] c.fn \in Promise!Reductions -> IF p = c.root THEN Ranks ELSE {}
    [] c.fn \in Promise!InclusiveScans -> {q \in Ranks : q <= p}
    [] c.fn \in Promise!ExclusiveScans -> {q \in Ranks : q < p}
    [] c.fn \in Promise!Receivers \ Promise!Posts -> {c.peer}
    [] c.fn = "wait" -> IF g[p][c.of].fn \in Promise!Receivers THEN {g[p][c.of].peer} ELSE {}
    [] OTHER -> {}

Wants(g, p, i) ==
  LET c == g[p][i]
      d == g[p][Subj(g, p, i)]
  IN  CASE c.fn = "barrier" -> Ranks
        [] c.fn \in {"send", "wait"} /\ d.fn \in Promise!Senders /\ d.mode = "synchronous" -> {d.peer}
        [] OTHER -> Brings(g, p, i)

Taken(g, p) == {i \in Colls(g, p) : Takes(g[p][i])}
Along(g, p, fns, q, tag) ==
  {i \in Numbers(g, p) : g[p][i].fn \in fns /\ g[p][i].peer = q /\ g[p][i].tag = tag}
SendsTo(g, p, q, tag) == Along(g, p, Promise!Senders, q, tag)
RecvsFrom(g, p, q, tag) == Along(g, p, Promise!Receivers, q, tag)

SamePlace(S, i, T, j) == i \in S /\ j \in T /\ Place(S, i) = Place(T, j)

(* Call j of q is the one that call s of p, no wait, meets.                *)
Meets(g, p, s, q, j) ==
  LET tag == g[p][s].tag IN
  IF g[p][s].fn \in Promise!Senders
  THEN SamePlace(SendsTo(g, p, q, tag), s, RecvsFrom(g, q, p, tag), j)
  ELSE IF g[p][s].fn \in Promise!Receivers
  THEN SamePlace(RecvsFrom(g, p, q, tag), s, SendsTo(g, q, p, tag), j)
  ELSE SamePlace(Colls(g, p), s, Colls(g, q), j)

DueOf(g, p, s, R) == {d \in Ranks \X Nat : d[1] \in R /\ Meets(g, p, s, d[1], d[2])}
Due(g, p, i) == DueOf(g, p, Subj(g, p, i), Brings(g, p, i))

SendBuf(g, p, i) == IF Packs(g[p][i]) THEN <<"packed sv", i>> ELSE OwnView(g[p][i])
RecvBuf(g, p, i) == IF Unpacks(p, g[p][i]) THEN <<"packed rv", i>> ELSE RecvView(g[p][i])

WritesOf(g, p, k) ==
  LET c == g[p][k.call] IN
  CASE k.op = "pack" -> {<<"packed sv", k.call>>}
    [] k.op = "unpack" -> {RecvView(g[p][Subj(g, p, k.call)])}
    [] k.op = "produce" -> {RecvView(c)} \union (IF Contributes(p, c) THEN {OwnView(c)} ELSE {})
    [] OTHER -> {}

Own(g, p, i) == IF Contributes(p, g[p][i]) THEN {<<p, i>>} ELSE {}

-----------------------------------------------------------------------------
(* What is left of call i.                                                 *)
Past(t) == Range(t) \intersect InMpi = {}

(* For a call c that unpacks if u.                                         *)
Rest(c, u, t) ==
  /\ \A m \in DOMAIN t :
       /\ t[m] = "pack" => m = 1 /\ Packs(c)
       /\ t[m] = "unpack" => u /\ \A l \in DOMAIN t : l >= m => t[l] \notin InMpi
       /\ t[m] \in InMpi => \A l \in DOMAIN t : l > m => t[l] \notin Screens
       /\ t[m] \in {"leave", "finish"} => \A l \in DOMAIN t : l > m => t[l] \notin InMpi
       /\ t[m] = "collective" =>
            /\ \E l \in DOMAIN t : l > m /\ t[l] = "leave"
            /\ \A l \in DOMAIN t : l > m => t[l] # "collective"
  /\ u => (\A m \in DOMAIN t : t[m] \notin InMpi) \/ \E m \in DOMAIN t : t[m] = "unpack"

Remains(g, p, i, t) ==
  Rest(g[p][i], g[p][i].fn \notin Promise!Posts /\ Unpacks(p, g[p][Subj(g, p, i)]), t)

Leads(t) == "pack" \in Range(t) => Range(t) \intersect {"collective", "message"} # {}

-----------------------------------------------------------------------------
(* The messages of a rank, P, when its last call is a and t is left of it.  *)
(* Asked: call i is past that step.                                         *)
Asked(i, a, t, step) == i <= a /\ (i = a => step \notin Range(t))

(* P is in the order of the calls that asked for messages, and has what     *)
(* they said.                                                               *)
Filed(g, p, a, t, P) ==
  /\ \A i \in 1 .. a : g[p][i].fn \in Messages /\ Asked(i, a, t, "message") =>
       \E n \in DOMAIN P : P[n].call = i
  /\ \A m, n \in DOMAIN P : m < n => P[m].call < P[n].call
  /\ \A n \in DOMAIN P :
       /\ P[n].peer = g[p][P[n].call].peer /\ P[n].tag = g[p][P[n].call].tag
       /\ P[n].kind = "send" => P[n].data = {<<p, P[n].call>>}

(* A receive that is not matched is open; an operation that is complete     *)
(* was waited for.                                                          *)
Closed(g, p, a, t, P) ==
  \A n \in DOMAIN P :
    /\ P[n].kind = "recv" /\ ~ P[n].matched => P[n].open
    /\ ~ P[n].open =>
         LET i == P[n].call IN
         IF g[p][i].fn \in Promise!Posts
         THEN \E w \in 1 .. a : WaitsFor(g[p], w, i) /\ Asked(w, a, t, "finish")
         ELSE Asked(i, a, t, "finish")

On(P, m, kind, peer, tag) ==
  m \in DOMAIN P /\ P[m].kind = kind /\ P[m].peer = peer /\ P[m].tag = tag

(* Of the messages of some kind with a peer and a tag, which are those of   *)
(* the calls S, exactly the first n are matched; and so are the receives    *)
(* of the peer for the sends.                                               *)
Side(S, P, kind, peer, tag, n) ==
  /\ \A m \in DOMAIN P : On(P, m, kind, peer, tag) => (P[m].matched <=> Place(S, P[m].call) <= n)
  /\ \A k \in 1 .. n : \E m \in DOMAIN P : On(P, m, kind, peer, tag) /\ Place(S, P[m].call) = k

Paired(g, p, q, tag, P, R) ==
  \E n \in Nat :
    /\ Side(SendsTo(g, p, q, tag), P, "send", q, tag, n)
    /\ Side(RecvsFrom(g, q, p, tag), R, "recv", p, tag, n)

(* E holds what p contributed to each collective that was not refused.      *)
Entries(g, p, a, t, E) ==
  /\ Len(E) = Place(Taken(g, p), IF "collective" \in Range(t) THEN a - 1 ELSE a)
  /\ \A i \in Taken(g, p) : Asked(i, a, t, "collective") => E[Place(Taken(g, p), i)] = Own(g, p, i)
  /\ \A i \in Colls(g, p) : Asked(i, a, t, "collective") =>
       i \in Taken(g, p) \/ g[p][i].fn \in Promise!Scans

(* The peers of a call that is over have reached the matching calls.        *)
Met(g, p, a, t, reached) ==
  \A i \in 1 .. a : Takes(g[p][i]) /\ (i = a => Past(t)) =>
    \A q \in Wants(g, p, i) : \E j \in 1 .. reached[q] : Meets(g, p, Subj(g, p, i), q, j)

(* Kernels and memory. The data is in place, or the last kernel puts it     *)
(* there.                                                                   *)
Ready(Q, B, b, D, k) == IF Q = <<>> THEN B[b] = D ELSE Q[Len(Q)] = k

(* What kernel n of the queue reads is there, or the kernel before it puts  *)
(* it there, and none in between changes it.                                *)
Fed(g, p, Q, B, n) ==
  LET k == Q[n]
      i == k.call
      s == Subj(g, p, i)
  IN
  /\ k.op = "pack" =>
       /\ Contributes(p, g[p][i])
       /\ \/ n = 1 /\ B[OwnView(g[p][i])] = {<<p, i>>}
          \/ n > 1 /\ Q[n - 1] = [op |-> "produce", call |-> i]
  /\ k.op = "unpack" => B[<<"packed rv", s>>] = Due(g, p, i)
  /\ k.op = "consume" /\ Brings(g, p, i) # {} =>
       \/ n > 1 /\ Q[n - 1] = [op |-> "unpack", call |-> i]
       \/ /\ B[RecvView(g[p][s])] = Due(g, p, i)
          /\ \A m \in 1 .. n - 1 : RecvView(g[p][s]) \notin WritesOf(g, p, Q[m])

(* What the rank gives to MPI.                                              *)
Giving(g, p, a, t, Q, B) ==
  LET c == g[p][a] IN
  Contributes(p, c) /\ Range(t) \intersect {"collective", "message"} # {} =>
    IF "pack" \notin Range(t) /\ Packs(c)
    THEN Ready(Q, B, <<"packed sv", a>>, {<<p, a>>}, [op |-> "pack", call |-> a])
    ELSE Ready(Q, B, OwnView(c), {<<p, a>>}, [op |-> "produce", call |-> a])

(* What the rank was brought by the call that it is in.                     *)
Bringing(g, p, a, t, Q, B) ==
  LET s == Subj(g, p, a) IN
  t # <<>> /\ Past(t) /\ Brings(g, p, a) # {} =>
    IF "unpack" \in Range(t) THEN B[<<"packed rv", s>>] = Due(g, p, a)
    ELSE \/ Q # <<>> /\ Q[Len(Q)] = [op |-> "unpack", call |-> a]
         \/ /\ B[RecvView(g[p][s])] = Due(g, p, a)
            /\ \A m \in DOMAIN Q : RecvView(g[p][s]) \notin WritesOf(g, p, Q[m])

(* What was received for an operation that is still open.                   *)
Landed(g, p, P, B) ==
  \A n \in DOMAIN P : P[n].kind = "recv" /\ P[n].matched /\ P[n].open =>
    B[RecvBuf(g, p, P[n].call)] = DueOf(g, p, P[n].call, {g[p][P[n].call].peer})

-----------------------------------------------------------------------------
(* The parts of the invariant, for the state.                               *)
Mail(p) ==
  /\ Filed(program, p, at[p], todo[p], posted[p])
  /\ Closed(program, p, at[p], todo[p], posted[p])
Flow(p) ==
  /\ \A n \in DOMAIN queue[p] : Fed(program, p, queue[p], buf[p], n)
  /\ Giving(program, p, at[p], todo[p], queue[p], buf[p])
  /\ Bringing(program, p, at[p], todo[p], queue[p], buf[p])
  /\ Landed(program, p, posted[p], buf[p])

Delivering ==
  /\ \A p \in Ranks :
       /\ at[p] > 0 => Remains(program, p, at[p], todo[p])
       /\ Leads(todo[p])
       /\ Mail(p)
       /\ Entries(program, p, at[p], todo[p], entered[p])
       /\ Met(program, p, at[p], todo[p], at)
       /\ at[p] > 0 => Flow(p)
  /\ \A p, q \in Ranks : \A tag \in Nat : Paired(program, p, q, tag, posted[p], posted[q])

-----------------------------------------------------------------------------
(* The names for the program of the state.                                 *)
LEMMA Bridged ==
  ASSUME NEW p, NEW i
  PROVE  /\ Promise!Subject(p, i) = Subj(program, p, i)
         /\ Promise!From(p, i) = Brings(program, p, i)
         /\ Promise!Needed(p, i) = Wants(program, p, i)
         /\ SendBuffer(p, i) = SendBuf(program, p, i)
         /\ RecvBuffer(p, i) = RecvBuf(program, p, i)
<1>1. Promise!Subject(p, i) = Subj(program, p, i)
  BY DEF Promise!Subject, Subj
<1>2. Promise!From(p, i) = Brings(program, p, i)
  BY Zenon DEF Promise!From, Brings
<1>3. Promise!Needed(p, i) = Wants(program, p, i)
  BY <1>1, <1>2, Zenon DEF Promise!Needed, Wants
<1>4. QED
  BY <1>1, <1>2, <1>3, Zenon DEF SendBuffer, SendBuf, RecvBuffer, RecvBuf

LEMMA WritesBridged ==
  ASSUME NEW p, NEW k
  PROVE  Writes(p, k) = WritesOf(program, p, k)
BY Bridged, Zenon DEF Writes, WritesOf

-----------------------------------------------------------------------------
(* The calls of a program.                                                 *)
LEMMA ProgramCalls ==
  ASSUME NEW g \in Programs, NEW p \in Ranks
  PROVE  /\ g[p] \in Seq(CallRecords) /\ Len(g[p]) \in Nat
         /\ Numbers(g, p) = DOMAIN g[p] /\ \A i \in Numbers(g, p) : g[p][i] \in CallRecords
<1>1. g[p] \in Seq(CallRecords)
  BY BlockingCallsAssumption
<1>2. QED
  BY <1>1 DEF Numbers

LEMMA CountedPart ==
  ASSUME NEW g \in Programs, NEW p \in Ranks, NEW T, T \in SUBSET Numbers(g, p)
  PROVE  Counted(T)
<1>1. IsFiniteSet(Numbers(g, p))
  BY ProgramCalls, FS_Interval DEF Numbers
<1>2. IsFiniteSet(T)
  BY <1>1, FS_Subset
<1>3. \A j \in T : j \in Nat /\ j > 0
  BY ProgramCalls DEF Numbers
<1>4. QED
  BY <1>2, <1>3 DEF Counted

LEMMA CountedCalls ==
  ASSUME NEW g \in Programs, NEW p \in Ranks
  PROVE  /\ Counted(Colls(g, p)) /\ Counted(Taken(g, p))
         /\ Taken(g, p) \subseteq Colls(g, p) /\ Colls(g, p) \subseteq Numbers(g, p)
         /\ \A fns, q, tag : Counted(Along(g, p, fns, q, tag))
<1>1. Colls(g, p) \in SUBSET Numbers(g, p) /\ Taken(g, p) \in SUBSET Colls(g, p)
  BY DEF Colls, Taken
<1>2. ASSUME NEW fns, NEW q, NEW tag PROVE Counted(Along(g, p, fns, q, tag))
  <2>1. Along(g, p, fns, q, tag) \in SUBSET Numbers(g, p)
    BY DEF Along
  <2>2. QED
    BY <2>1, CountedPart
<1>3. Taken(g, p) \in SUBSET Numbers(g, p)
  BY <1>1
<1>4. QED
  BY <1>1, <1>2, <1>3, CountedPart

(* The numbers of the ends of a message, and of a collective.              *)
LEMMA MeetsUnique ==
  ASSUME NEW g \in Programs, NEW p \in Ranks, NEW s, NEW q \in Ranks, NEW i, NEW j,
         Meets(g, p, s, q, i), Meets(g, p, s, q, j)
  PROVE  i = j
<1>1. PICK S, T : Counted(T) /\ SamePlace(S, s, T, i) /\ SamePlace(S, s, T, j)
  BY CountedCalls DEF Meets, SendsTo, RecvsFrom
<1>2. QED
  BY <1>1, PlaceUnique DEF SamePlace

LEMMA MeetsNumber ==
  ASSUME NEW g \in Programs, NEW p \in Ranks, NEW s, NEW q \in Ranks, NEW j, Meets(g, p, s, q, j)
  PROVE  j \in Numbers(g, q) /\ j \in Nat /\ j > 0
<1>1. j \in Numbers(g, q)
  BY DEF Meets, SamePlace, SendsTo, RecvsFrom, Along, Colls
<1>2. QED
  BY <1>1, ProgramCalls DEF Numbers

LEMMA DueSingle ==
  ASSUME NEW g \in Programs, NEW p \in Ranks, NEW s, NEW q \in Ranks, NEW j, Meets(g, p, s, q, j)
  PROVE  DueOf(g, p, s, {q}) = {<<q, j>>}
<1>1. j \in Nat
  BY MeetsNumber
<1>2. \A i : Meets(g, p, s, q, i) => i = j
  BY MeetsUnique
<1>3. QED
  BY <1>1, <1>2 DEF DueOf

LEMMA DueShared ==
  ASSUME NEW g \in Programs, NEW p \in Ranks, NEW s, NEW R, R \subseteq Ranks,
         NEW f, \A q \in R : Meets(g, p, s, q, f[q])
  PROVE  DueOf(g, p, s, R) = {<<q, f[q]>> : q \in R}
<1>1. \A q \in R : f[q] \in Nat
  BY MeetsNumber
<1>2. \A q \in R : \A i : Meets(g, p, s, q, i) => i = f[q]
  BY MeetsUnique
<1>3. ASSUME NEW d \in DueOf(g, p, s, R) PROVE d \in {<<q, f[q]>> : q \in R}
  <2>1. PICK q, i : d = <<q, i>> /\ q \in R /\ Meets(g, p, s, q, i)
    <3>1. d \in Ranks \X Nat /\ d[1] \in R /\ Meets(g, p, s, d[1], d[2])
      BY DEF DueOf
    <3>2. d = <<d[1], d[2]>>
      BY <3>1
    <3>3. QED
      BY <3>1, <3>2
  <2>2. QED
    BY <1>2, <2>1
<1>4. ASSUME NEW q \in R PROVE <<q, f[q]>> \in DueOf(g, p, s, R)
  BY <1>1 DEF DueOf
<1>5. QED
  BY <1>3, <1>4

-----------------------------------------------------------------------------
(* The call that meets another is the one that Delivery says matches.      *)
LEMMA MatchingIs ==
  ASSUME program \in Programs, NEW p \in Ranks, NEW q \in Ranks, NEW i, NEW s,
         s = Subj(program, p, i), program[p][s].fn # "wait", NEW j, Meets(program, p, s, q, j)
  PROVE  Promise!Matching(p, i, q) = j
<1> DEFINE c == program[p][Promise!Subject(p, i)]
           Mine(d) == IF c.fn \in Promise!PointToPoint
                      THEN d.fn \in Promise!Senders <=> c.fn \in Promise!Senders
                      ELSE d.fn \notin Promise!PointToPoint
           Like(a, d) == /\ d.fn # "wait"
                         /\ c.fn \in Promise!PointToPoint =>
                              d.fn \in Promise!PointToPoint /\ d.peer = a /\ d.tag = c.tag
           mine == {k \in 1 .. Promise!Subject(p, i) : Like(q, program[p][k]) /\ Mine(program[p][k])}
           theirs(n) == {k \in 1 .. n : /\ Like(p, program[q][k])
                                        /\ IF c.fn \in Promise!PointToPoint THEN ~ Mine(program[q][k])
                                           ELSE Mine(program[q][k])}
           S == {k \in Numbers(program, p) : Like(q, program[p][k]) /\ Mine(program[p][k])}
           T == {k \in Numbers(program, q) :
                   /\ Like(p, program[q][k])
                   /\ IF c.fn \in Promise!PointToPoint THEN ~ Mine(program[q][k])
                      ELSE Mine(program[q][k])}
<1>1. Promise!Matching(p, i, q)
        = CHOOSE n \in theirs(Len(program[q])) : Promise!Cardinality(theirs(n)) = Promise!Cardinality(mine)
  BY DEF Promise!Matching
<1>2. Promise!Subject(p, i) = s /\ c = program[p][s] /\ c.fn # "wait"
  BY Bridged
<1> HIDE DEF c
<1>3. SamePlace(S, s, T, j) /\ Counted(S) /\ Counted(T)
  <2> USE <1>2 DEF Promise!Senders, Promise!Receivers, Promise!PointToPoint
  <2>1. CASE c.fn \in Promise!Senders
    <3>1. SamePlace(SendsTo(program, p, q, c.tag), s, RecvsFrom(program, q, p, c.tag), j)
      BY <2>1 DEF Meets
    <3>2. SendsTo(program, p, q, c.tag) = S
      BY <2>1 DEF SendsTo, Along
    <3>3. RecvsFrom(program, q, p, c.tag) = T
      BY <2>1 DEF RecvsFrom, Along
    <3> HIDE DEF S, T
    <3>4. QED
      BY <3>1, <3>2, <3>3, CountedCalls DEF SendsTo, RecvsFrom
  <2>2. CASE c.fn \in Promise!Receivers
    <3>1. SamePlace(RecvsFrom(program, p, q, c.tag), s, SendsTo(program, q, p, c.tag), j)
      BY <2>2 DEF Meets
    <3>2. RecvsFrom(program, p, q, c.tag) = S
      BY <2>2 DEF RecvsFrom, Along
    <3>3. SendsTo(program, q, p, c.tag) = T
      BY <2>2 DEF SendsTo, Along
    <3> HIDE DEF S, T
    <3>4. QED
      BY <3>1, <3>2, <3>3, CountedCalls DEF SendsTo, RecvsFrom
  <2>3. CASE c.fn \notin Promise!PointToPoint
    <3>1. SamePlace(Colls(program, p), s, Colls(program, q), j)
      BY <2>3 DEF Meets
    <3>2. Colls(program, p) = S
      BY <2>3 DEF Colls
    <3>3. Colls(program, q) = T
      BY <2>3 DEF Colls
    <3> HIDE DEF S, T
    <3>4. QED
      BY <3>1, <3>2, <3>3, CountedCalls
  <2>4. QED
    BY <2>1, <2>2, <2>3
<1>4. s \in S /\ j \in T /\ Place(S, s) = Place(T, j) /\ s \in Nat /\ Len(program[q]) \in Nat
      /\ Len(program[p]) \in Nat /\ s \in Numbers(program, p)
  <2>1. s \in S /\ j \in T /\ Place(S, s) = Place(T, j)
    BY <1>3 DEF SamePlace
  <2>2. s \in Numbers(program, p)
    BY <2>1
  <2>3. QED
    BY <2>1, <2>2, ProgramCalls DEF Numbers
<1>5. mine = Upto(S, s)
  <2>1. \A k : k \in 1 .. s <=> k \in Numbers(program, p) /\ k <= s
    BY <1>4 DEF Numbers
  <2>2. QED
    BY <1>2, <2>1 DEF Upto
<1>6. theirs(Len(program[q])) = T
  BY DEF Numbers
<1>7. ASSUME NEW n \in T PROVE theirs(n) = Upto(T, n)
  <2>1. n \in Numbers(program, q)
    OBVIOUS
  <2>2. \A k : k \in 1 .. n <=> k \in Numbers(program, q) /\ k <= n
    BY <1>4, <2>1 DEF Numbers
  <2>3. QED
    BY <2>2 DEF Upto
<1> HIDE DEF Mine, Like, mine, theirs, S, T
<1>8. \A n \in T : Promise!Cardinality(theirs(n)) = Place(T, n)
  BY <1>7, SameCardinality DEF Place
<1>9. Promise!Cardinality(mine) = Place(S, s)
  BY <1>5, SameCardinality DEF Place
<1>10. \A n \in T : Promise!Cardinality(theirs(n)) = Promise!Cardinality(mine) <=> n = j
  <2>1. \A n \in T : Place(T, n) = Place(T, j) => n = j
    BY <1>3, <1>4, PlaceUnique
  <2>2. QED
    BY <1>4, <1>8, <1>9, <2>1
<1>11. Promise!Matching(p, i, q) = CHOOSE n \in T : n = j
  <2>1. Promise!Matching(p, i, q)
          = CHOOSE n \in T : Promise!Cardinality(theirs(n)) = Promise!Cardinality(mine)
    BY <1>1, <1>6
  <2>2. QED
    BY <1>10, <2>1, Zenon
<1>12. QED
  BY <1>4, <1>11

(* The ranks of a call.                                                    *)
LEMMA BringsFacts ==
  ASSUME NEW g \in Programs, NEW p \in Ranks, NEW i \in Numbers(g, p)
  PROVE  /\ Brings(g, p, i) \subseteq Ranks /\ Wants(g, p, i) \subseteq Ranks
         /\ Brings(g, p, i) \subseteq Wants(g, p, i)
         /\ Subj(g, p, i) \in Numbers(g, p) /\ Subj(g, p, i) <= i /\ g[p][Subj(g, p, i)].fn # "wait"
         /\ g[p][i].fn = "wait" => Subj(g, p, i) < i /\ g[p][Subj(g, p, i)].fn \in Promise!Posts
<1> USE DEF Promise!Gathers, Promise!Broadcasts, Promise!Reductions, Promise!InclusiveScans,
            Promise!ExclusiveScans, Promise!Receivers, Promise!Senders, Promise!Posts
<1>1. /\ g[p][i] \in CallRecords /\ Numbers(g, p) = DOMAIN g[p] /\ i \in Nat
      /\ \A k \in Numbers(g, p) : g[p][k].root \in Ranks /\ g[p][k].peer \in Ranks
  <2>1. i \in Nat
    BY ProgramCalls DEF Numbers
  <2>2. \A k \in Numbers(g, p) : g[p][k].root \in Ranks /\ g[p][k].peer \in Ranks
    BY ProgramCalls DEF CallRecords
  <2>3. QED
    BY <2>1, <2>2, ProgramCalls
<1>2. g[p][i].fn = "wait" => g[p][i].of \in 1 .. i - 1 /\ g[p][g[p][i].of].fn \in Promise!Posts
  BY <1>1, BlockingCallsAssumption
<1>3. /\ Subj(g, p, i) \in Numbers(g, p) /\ Subj(g, p, i) <= i /\ g[p][Subj(g, p, i)].fn # "wait"
      /\ g[p][i].fn = "wait" => Subj(g, p, i) < i /\ g[p][Subj(g, p, i)].fn \in Promise!Posts
  <2>1. CASE g[p][i].fn = "wait"
    <3>1. Subj(g, p, i) = g[p][i].of
      BY <2>1 DEF Subj
    <3>2. g[p][i].of \in Numbers(g, p) /\ g[p][i].of < i
      BY <1>1, <1>2, <2>1, ProgramCalls DEF Numbers
    <3>3. QED
      BY <1>1, <1>2, <2>1, <3>1, <3>2
  <2>2. CASE g[p][i].fn # "wait"
    BY <1>1, <2>2 DEF Subj
  <2>3. QED
    BY <2>1, <2>2
<1>4. g[p][i].fn = "wait" => g[p][i].of \in Numbers(g, p) /\ Subj(g, p, i) = g[p][i].of
  BY <1>3 DEF Subj
<1>5. Brings(g, p, i) \subseteq Ranks
  BY <1>1, <1>4 DEF Brings
<1>6. CASE g[p][i].fn = "barrier"
  BY <1>3, <1>5, <1>6 DEF Wants, Brings
<1>7. CASE g[p][i].fn \in {"send", "wait"} /\ g[p][Subj(g, p, i)].fn \in Promise!Senders
             /\ g[p][Subj(g, p, i)].mode = "synchronous"
  <2>1. Wants(g, p, i) = {g[p][Subj(g, p, i)].peer}
    BY <1>7 DEF Wants
  <2>2. Brings(g, p, i) = {}
    BY <1>4, <1>7 DEF Brings
  <2>3. QED
    BY <1>1, <1>3, <2>1, <2>2
<1>8. CASE /\ g[p][i].fn # "barrier"
           /\ ~ (g[p][i].fn \in {"send", "wait"} /\ g[p][Subj(g, p, i)].fn \in Promise!Senders
                 /\ g[p][Subj(g, p, i)].mode = "synchronous")
  <2>1. Wants(g, p, i) = Brings(g, p, i)
    BY <1>8 DEF Wants
  <2>2. QED
    BY <1>3, <1>5, <2>1
<1>9. QED
  BY <1>3, <1>5, <1>6, <1>7, <1>8

(* What a call that has met those it needs gives is what Delivery expects. *)
LEMMA ExpectedIs ==
  ASSUME program \in Programs, NEW p \in Ranks, NEW i \in Numbers(program, p),
         \A q \in Wants(program, p, i) :
           \E j \in 1 .. at[q] : Meets(program, p, Subj(program, p, i), q, j)
  PROVE  /\ Promise!Expected(p, i) = Due(program, p, i)
         /\ \A q \in Promise!Needed(p, i) : Promise!Matching(p, i, q) <= at[q]
<1>1. PICK s : s = Subj(program, p, i)
  OBVIOUS
<1>2. /\ program[p][s].fn # "wait" /\ Wants(program, p, i) \subseteq Ranks
      /\ Brings(program, p, i) \subseteq Wants(program, p, i)
  BY <1>1, BringsFacts
<1>3. ASSUME NEW q \in Wants(program, p, i)
      PROVE  Meets(program, p, s, q, Promise!Matching(p, i, q)) /\ Promise!Matching(p, i, q) <= at[q]
  <2>1. PICK j \in 1 .. at[q] : Meets(program, p, s, q, j)
    BY <1>1
  <2>2. Promise!Matching(p, i, q) = j
    BY <1>1, <1>2, <2>1, MatchingIs
  <2>3. j <= at[q]
    OBVIOUS
  <2>4. QED
    BY <2>1, <2>2, <2>3
<1>4. PICK f : f = [q \in Ranks |-> Promise!Matching(p, i, q)]
  OBVIOUS
<1>5. PICK R : R = Brings(program, p, i)
  OBVIOUS
<1>6. R \subseteq Ranks /\ \A q \in R : Meets(program, p, s, q, f[q])
  BY <1>2, <1>3, <1>4, <1>5
<1>7. Due(program, p, i) = {<<q, f[q]>> : q \in R}
  BY <1>1, <1>5, <1>6, DueShared DEF Due
<1>8. Promise!Expected(p, i) = {<<q, Promise!Matching(p, i, q)>> : q \in R}
  BY <1>5, Bridged DEF Promise!Expected
<1>9. \A q \in R : f[q] = Promise!Matching(p, i, q)
  BY <1>4, <1>6
<1>10. Promise!Expected(p, i) = Due(program, p, i)
  BY <1>7, <1>8, <1>9
<1>11. QED
  BY <1>3, <1>10, Bridged

-----------------------------------------------------------------------------
(* What is left of a call, after its next step.                            *)
LEMMA TailRemains ==
  ASSUME NEW g, NEW p, NEW i, NEW c, NEW t, Ordered(c, t), t # <<>>, Remains(g, p, i, t)
  PROVE  Remains(g, p, i, Tail(t))
<1>1. PICK n, u : n = Len(t) - 1 /\ u = Tail(t)
  OBVIOUS
<1>2. /\ n \in Nat /\ Len(t) = n + 1 /\ DOMAIN t = 1 .. n + 1 /\ DOMAIN u = 1 .. n
      /\ \A m \in 1 .. n : u[m] = t[m + 1]
  BY <1>1, TailOrdered DEF Ordered
<1>3. PICK U : U <=> g[p][i].fn \notin Promise!Posts /\ Unpacks(p, g[p][Subj(g, p, i)])
  OBVIOUS
<1>4. Remains(g, p, i, t) <=>
  /\ \A m \in DOMAIN t :
       /\ t[m] = "pack" => m = 1 /\ Packs(g[p][i])
       /\ t[m] = "unpack" => U /\ \A l \in DOMAIN t : l >= m => t[l] \notin InMpi
       /\ t[m] \in InMpi => \A l \in DOMAIN t : l > m => t[l] \notin Screens
       /\ t[m] \in {"leave", "finish"} => \A l \in DOMAIN t : l > m => t[l] \notin InMpi
       /\ t[m] = "collective" =>
            /\ \E l \in DOMAIN t : l > m /\ t[l] = "leave"
            /\ \A l \in DOMAIN t : l > m => t[l] # "collective"
  /\ U => (\A m \in DOMAIN t : t[m] \notin InMpi) \/ \E m \in DOMAIN t : t[m] = "unpack"
  BY <1>3 DEF Remains, Rest
<1>5. Remains(g, p, i, u) <=>
  /\ \A m \in DOMAIN u :
       /\ u[m] = "pack" => m = 1 /\ Packs(g[p][i])
       /\ u[m] = "unpack" => U /\ \A l \in DOMAIN u : l >= m => u[l] \notin InMpi
       /\ u[m] \in InMpi => \A l \in DOMAIN u : l > m => u[l] \notin Screens
       /\ u[m] \in {"leave", "finish"} => \A l \in DOMAIN u : l > m => u[l] \notin InMpi
       /\ u[m] = "collective" =>
            /\ \E l \in DOMAIN u : l > m /\ u[l] = "leave"
            /\ \A l \in DOMAIN u : l > m => u[l] # "collective"
  /\ U => (\A m \in DOMAIN u : u[m] \notin InMpi) \/ \E m \in DOMAIN u : u[m] = "unpack"
  BY <1>3 DEF Remains, Rest
<1>6. ASSUME NEW m \in 1 .. n
      PROVE  /\ u[m] = "pack" => m = 1 /\ Packs(g[p][i])
             /\ u[m] = "unpack" => U /\ \A l \in 1 .. n : l >= m => u[l] \notin InMpi
             /\ u[m] \in InMpi => \A l \in 1 .. n : l > m => u[l] \notin Screens
             /\ u[m] \in {"leave", "finish"} => \A l \in 1 .. n : l > m => u[l] \notin InMpi
             /\ u[m] = "collective" => \A l \in 1 .. n : l > m => u[l] # "collective"
  <2>1. u[m] = t[m + 1] /\ m + 1 \in DOMAIN t /\ m + 1 # 1
    BY <1>2
  <2>2. \A l \in 1 .. n : /\ u[l] = t[l + 1] /\ l + 1 \in DOMAIN t
                          /\ (l > m => l + 1 > m + 1) /\ (l >= m => l + 1 >= m + 1)
    BY <1>2
  <2>3. QED
    BY <1>4, <2>1, <2>2
<1>7. ASSUME NEW m \in 1 .. n, u[m] = "collective"
      PROVE  \E l \in 1 .. n : l > m /\ u[l] = "leave"
  <2>1. PICK l \in DOMAIN t : l > m + 1 /\ t[l] = "leave"
    BY <1>2, <1>4, <1>7
  <2>2. l - 1 \in 1 .. n /\ u[l - 1] = t[l] /\ l - 1 > m
    BY <1>2, <2>1
  <2>3. QED
    BY <2>1, <2>2
<1>8. ASSUME U, NEW k \in 1 .. n, u[k] \in InMpi PROVE \E m \in 1 .. n : u[m] = "unpack"
  <2>1. t[k + 1] \in InMpi /\ k + 1 \in DOMAIN t
    BY <1>2, <1>8
  <2>2. PICK m \in DOMAIN t : t[m] = "unpack"
    BY <1>4, <1>8, <2>1
  <2>3. m # 1
    BY <1>2, <1>4, <2>1, <2>2
  <2>4. m - 1 \in 1 .. n /\ u[m - 1] = t[m]
    BY <1>2, <2>2, <2>3
  <2>5. QED
    BY <2>2, <2>4
<1>9. \A m \in DOMAIN u :
        /\ u[m] = "pack" => m = 1 /\ Packs(g[p][i])
        /\ u[m] = "unpack" => U /\ \A l \in DOMAIN u : l >= m => u[l] \notin InMpi
        /\ u[m] \in InMpi => \A l \in DOMAIN u : l > m => u[l] \notin Screens
        /\ u[m] \in {"leave", "finish"} => \A l \in DOMAIN u : l > m => u[l] \notin InMpi
        /\ u[m] = "collective" =>
             /\ \E l \in DOMAIN u : l > m /\ u[l] = "leave"
             /\ \A l \in DOMAIN u : l > m => u[l] # "collective"
  BY <1>2, <1>6, <1>7, Zenon
<1>10. U => (\A m \in DOMAIN u : u[m] \notin InMpi) \/ \E m \in DOMAIN u : u[m] = "unpack"
  BY <1>2, <1>8, Zenon
<1>11. Remains(g, p, i, u)
  BY <1>5, <1>9, <1>10, Zenon
<1>12. QED
  BY <1>1, <1>11

(* What the first step says of those after it.                             *)
LEMMA FirstRemains ==
  ASSUME NEW g, NEW p, NEW i, NEW c, NEW t, Ordered(c, t), t # <<>>, Remains(g, p, i, t),
         NEW h, h = Head(t), NEW U,
         U <=> g[p][i].fn \notin Promise!Posts /\ Unpacks(p, g[p][Subj(g, p, i)])
  PROVE  /\ h \in {"leave", "finish"} => Past(Tail(t))
         /\ h = "collective" => "collective" \notin Range(Tail(t)) /\ "leave" \in Range(Tail(t))
         /\ h = "leave" => "collective" \notin Range(t)
         /\ h \in InMpi => Range(Tail(t)) \intersect Screens = {}
         /\ h = "pack" => "pack" \notin Range(Tail(t))
         /\ "pack" \in Range(t) => h = "pack" /\ Packs(g[p][i])
         /\ h = "unpack" => Past(t) /\ U
         /\ ~ Past(t) => ("unpack" \in Range(t) <=> U)
<1>1. PICK n, u : n = Len(t) - 1 /\ u = Tail(t)
  OBVIOUS
<1>2. /\ n \in Nat /\ Len(t) = n + 1 /\ DOMAIN t = 1 .. n + 1 /\ DOMAIN u = 1 .. n
      /\ \A m \in 1 .. n : u[m] = t[m + 1]
      /\ t[1] = h
  BY <1>1, TailOrdered DEF Ordered
<1>4. /\ \A m \in DOMAIN t :
           /\ t[m] = "pack" => m = 1 /\ Packs(g[p][i])
           /\ t[m] = "unpack" => U /\ \A l \in DOMAIN t : l >= m => t[l] \notin InMpi
           /\ t[m] \in InMpi => \A l \in DOMAIN t : l > m => t[l] \notin Screens
           /\ t[m] \in {"leave", "finish"} => \A l \in DOMAIN t : l > m => t[l] \notin InMpi
           /\ t[m] = "collective" =>
                /\ \E l \in DOMAIN t : l > m /\ t[l] = "leave"
                /\ \A l \in DOMAIN t : l > m => t[l] # "collective"
      /\ U => (\A m \in DOMAIN t : t[m] \notin InMpi) \/ \E m \in DOMAIN t : t[m] = "unpack"
  BY DEF Remains, Rest
<1>5. Range(t) = {t[m] : m \in 1 .. n + 1} /\ Range(u) = {u[m] : m \in 1 .. n}
  BY <1>2 DEF Range
<1>6. \A m \in 1 .. n : m + 1 \in DOMAIN t /\ m + 1 > 1
  BY <1>2
<1>7. 1 \in DOMAIN t /\ \A l \in DOMAIN t : l >= 1 /\ (l > 1 => l - 1 \in 1 .. n /\ u[l - 1] = t[l])
  BY <1>2
<1>8. h \in {"leave", "finish"} => Past(u)
  BY <1>2, <1>4, <1>5, <1>6, <1>7 DEF Past
<1>9. h = "collective" => "collective" \notin Range(u) /\ "leave" \in Range(u)
  <2>1. ASSUME h = "collective" PROVE "leave" \in Range(u)
    <3>1. PICK l \in DOMAIN t : l > 1 /\ t[l] = "leave"
      BY <1>2, <1>4, <1>7, <2>1
    <3>2. l - 1 \in 1 .. n /\ u[l - 1] = "leave"
      BY <1>7, <3>1
    <3>3. QED
      BY <1>5, <3>2
  <2>2. ASSUME h = "collective" PROVE "collective" \notin Range(u)
    <3>1. \A l \in DOMAIN t : l > 1 => t[l] # "collective"
      BY <1>2, <1>4, <1>7, <2>2
    <3>2. \A m \in 1 .. n : u[m] # "collective"
      BY <1>2, <1>6, <3>1
    <3>3. QED
      BY <1>5, <3>2
  <2>3. QED
    BY <2>1, <2>2
<1>10. h = "leave" => "collective" \notin Range(t)
  <2>1. ASSUME h = "leave", NEW m \in 1 .. n + 1, t[m] = "collective" PROVE FALSE
    <3>1. m > 1 /\ m \in DOMAIN t
      BY <1>2, <2>1
    <3>2. t[m] \notin InMpi
      BY <1>2, <1>4, <1>7, <2>1, <3>1
    <3>3. QED
      BY <2>1, <3>2 DEF InMpi
  <2>2. QED
    BY <1>5, <2>1
<1>11. h \in InMpi => Range(u) \intersect Screens = {}
  BY <1>2, <1>4, <1>5, <1>6, <1>7
<1>12. h = "pack" => "pack" \notin Range(u)
  BY <1>2, <1>4, <1>5, <1>6
<1>13. "pack" \in Range(t) => h = "pack" /\ Packs(g[p][i])
  BY <1>2, <1>4, <1>5
<1>14. h = "unpack" => Past(t) /\ U
  BY <1>2, <1>4, <1>5, <1>7 DEF Past
<1>15. ~ Past(t) => ("unpack" \in Range(t) <=> U)
  <2>1. ASSUME ~ Past(t), U PROVE "unpack" \in Range(t)
    <3>1. PICK m \in DOMAIN t : t[m] \in InMpi
      BY <1>2, <1>5, <2>1 DEF Past
    <3>2. \E l \in DOMAIN t : t[l] = "unpack"
      BY <1>4, <2>1, <3>1
    <3>3. QED
      BY <1>2, <1>5, <3>2
  <2>2. ASSUME "unpack" \in Range(t) PROVE U
    BY <1>2, <1>4, <1>5, <2>2
  <2>3. QED
    BY <2>1, <2>2
<1>16. QED
  BY <1>1, <1>8, <1>9, <1>10, <1>11, <1>12, <1>13, <1>14, <1>15

(* All steps of a call c.                                                  *)
Starts(c, u, t) ==
  /\ Rest(c, u, t) /\ ~ Past(t)
  /\ "collective" \in Range(t) <=> c.fn \notin Promise!PointToPoint
  /\ "message" \in Range(t) <=> c.fn \in Messages
  /\ c.fn \in Promise!PointToPoint \ Promise!Posts => "finish" \in Range(t)
  /\ Packs(c) => "pack" \in Range(t)

LEMMA StepsStart ==
  ASSUME NEW p, NEW c \in CallRecords, NEW t, t = Steps(p, c),
         NEW d, d = IF c.fn = "wait" THEN program[p][c.of] ELSE c,
         NEW u, u <=> c.fn \notin Promise!Posts /\ Unpacks(p, d)
  PROVE  Starts(c, u, t)
<1>1. CASE c.fn \in {"allgather_low", "broadcast_low", "reduce_low", "allreduce_inplace_low",
             "broadcast"}
  <2>1. t = <<"fence", "contiguous", "collective", "leave", "consume">>
    BY <1>1, Lists
  <2>2. /\ t # <<>> /\ Len(t) = 5 /\ DOMAIN t = {1, 2, 3, 4, 5}
        /\ t[1] = "fence" /\ t[2] = "contiguous" /\ t[3] = "collective" /\ t[4] = "leave"
           /\ t[5] = "consume"
    BY <2>1
  <2>3. ~ u
    BY <1>1 DEF Unpacks, Promise!Posts
  <2>4. Range(t) = {"fence", "contiguous", "collective", "leave", "consume"}
    BY <2>2 DEF Range
  <2>5. Rest(c, u, t)
    BY <1>1, <2>2, <2>3 DEF Rest, InMpi, Screens, Packs
  <2>6. QED
    BY <1>1, <2>4, <2>5 DEF Starts, Past, InMpi, Messages, Packs, Promise!Senders, Promise!Receivers,
       Promise!Posts, Promise!PointToPoint
<1>2. CASE c.fn \in {"allreduce_low", "inclusive_scan_low", "exclusive_scan_low"}
  <2>1. t = <<"fence", "contiguous", "equal", "collective", "leave", "consume">>
    BY <1>2, Lists
  <2>2. /\ t # <<>> /\ Len(t) = 6 /\ DOMAIN t = {1, 2, 3, 4, 5, 6}
        /\ t[1] = "fence" /\ t[2] = "contiguous" /\ t[3] = "equal" /\ t[4] = "collective"
           /\ t[5] = "leave" /\ t[6] = "consume"
    BY <2>1
  <2>3. ~ u
    BY <1>2 DEF Unpacks, Promise!Posts
  <2>4. Range(t) = {"fence", "contiguous", "equal", "collective", "leave", "consume"}
    BY <2>2 DEF Range
  <2>5. Rest(c, u, t)
    BY <1>2, <2>2, <2>3 DEF Rest, InMpi, Screens, Packs
  <2>6. QED
    BY <1>2, <2>4, <2>5 DEF Starts, Past, InMpi, Messages, Packs, Promise!Senders, Promise!Receivers,
       Promise!Posts, Promise!PointToPoint
<1>3. CASE c.fn = "allgather_inplace"
  <2>1. t = <<"contiguous", "fence", "collective", "leave", "consume">>
    BY <1>3, Lists
  <2>2. /\ t # <<>> /\ Len(t) = 5 /\ DOMAIN t = {1, 2, 3, 4, 5}
        /\ t[1] = "contiguous" /\ t[2] = "fence" /\ t[3] = "collective" /\ t[4] = "leave"
           /\ t[5] = "consume"
    BY <2>1
  <2>3. ~ u
    BY <1>3 DEF Unpacks, Promise!Posts
  <2>4. Range(t) = {"contiguous", "fence", "collective", "leave", "consume"}
    BY <2>2 DEF Range
  <2>5. Rest(c, u, t)
    BY <1>3, <2>2, <2>3 DEF Rest, InMpi, Screens, Packs
  <2>6. QED
    BY <1>3, <2>4, <2>5 DEF Starts, Past, InMpi, Messages, Packs, Promise!Senders, Promise!Receivers,
       Promise!Posts, Promise!PointToPoint
<1>4. CASE c.fn \in {"allgather", "allreduce_inplace"}
  <2>1. t = <<"contiguous", "fence", "contiguous", "collective", "leave", "consume">>
    BY <1>4, Lists
  <2>2. /\ t # <<>> /\ Len(t) = 6 /\ DOMAIN t = {1, 2, 3, 4, 5, 6}
        /\ t[1] = "contiguous" /\ t[2] = "fence" /\ t[3] = "contiguous" /\ t[4] = "collective"
           /\ t[5] = "leave" /\ t[6] = "consume"
    BY <2>1
  <2>3. ~ u
    BY <1>4 DEF Unpacks, Promise!Posts
  <2>4. Range(t) = {"contiguous", "fence", "contiguous", "collective", "leave", "consume"}
    BY <2>2 DEF Range
  <2>5. Rest(c, u, t)
    BY <1>4, <2>2, <2>3 DEF Rest, InMpi, Screens, Packs
  <2>6. QED
    BY <1>4, <2>4, <2>5 DEF Starts, Past, InMpi, Messages, Packs, Promise!Senders, Promise!Receivers,
       Promise!Posts, Promise!PointToPoint
<1>5. CASE c.fn \in {"allreduce", "inclusive_scan", "exclusive_scan"}
  <2>1. t = <<"contiguous", "fence", "contiguous", "equal", "collective", "leave", "consume">>
    BY <1>5, Lists
  <2>2. /\ t # <<>> /\ Len(t) = 7 /\ DOMAIN t = {1, 2, 3, 4, 5, 6, 7}
        /\ t[1] = "contiguous" /\ t[2] = "fence" /\ t[3] = "contiguous" /\ t[4] = "equal"
           /\ t[5] = "collective" /\ t[6] = "leave" /\ t[7] = "consume"
    BY <2>1
  <2>3. ~ u
    BY <1>5 DEF Unpacks, Promise!Posts
  <2>4. Range(t) = {"contiguous", "fence", "contiguous", "equal", "collective", "leave", "consume"}
    BY <2>2 DEF Range
  <2>5. Rest(c, u, t)
    BY <1>5, <2>2, <2>3 DEF Rest, InMpi, Screens, Packs
  <2>6. QED
    BY <1>5, <2>4, <2>5 DEF Starts, Past, InMpi, Messages, Packs, Promise!Senders, Promise!Receivers,
       Promise!Posts, Promise!PointToPoint
<1>6. CASE c.fn \in {"alltoall", "alltoall_inplace"}
  <2>1. t = <<"fence", "contiguous", "fit", "collective", "leave", "consume">>
    BY <1>6, Lists
  <2>2. /\ t # <<>> /\ Len(t) = 6 /\ DOMAIN t = {1, 2, 3, 4, 5, 6}
        /\ t[1] = "fence" /\ t[2] = "contiguous" /\ t[3] = "fit" /\ t[4] = "collective"
           /\ t[5] = "leave" /\ t[6] = "consume"
    BY <2>1
  <2>3. ~ u
    BY <1>6 DEF Unpacks, Promise!Posts
  <2>4. Range(t) = {"fence", "contiguous", "fit", "collective", "leave", "consume"}
    BY <2>2 DEF Range
  <2>5. Rest(c, u, t)
    BY <1>6, <2>2, <2>3 DEF Rest, InMpi, Screens, Packs
  <2>6. QED
    BY <1>6, <2>4, <2>5 DEF Starts, Past, InMpi, Messages, Packs, Promise!Senders, Promise!Receivers,
       Promise!Posts, Promise!PointToPoint
<1>7. CASE c.fn = "barrier"
  <2>1. t = <<"collective", "leave", "consume">>
    BY <1>7, Lists
  <2>2. /\ t # <<>> /\ Len(t) = 3 /\ DOMAIN t = {1, 2, 3}
        /\ t[1] = "collective" /\ t[2] = "leave" /\ t[3] = "consume"
    BY <2>1
  <2>3. ~ u
    BY <1>7 DEF Unpacks, Promise!Posts
  <2>4. Range(t) = {"collective", "leave", "consume"}
    BY <2>2 DEF Range
  <2>5. Rest(c, u, t)
    BY <1>7, <2>2, <2>3 DEF Rest, InMpi, Screens, Packs
  <2>6. QED
    BY <1>7, <2>4, <2>5 DEF Starts, Past, InMpi, Messages, Packs, Promise!Senders, Promise!Receivers,
       Promise!Posts, Promise!PointToPoint
<1>8. CASE c.fn = "recv_low"
  <2>1. t = <<"fence", "contiguous", "message", "finish", "consume">>
    BY <1>8, Lists
  <2>2. /\ t # <<>> /\ Len(t) = 5 /\ DOMAIN t = {1, 2, 3, 4, 5}
        /\ t[1] = "fence" /\ t[2] = "contiguous" /\ t[3] = "message" /\ t[4] = "finish"
           /\ t[5] = "consume"
    BY <2>1
  <2>3. ~ u
    BY <1>8 DEF Unpacks, Promise!Posts
  <2>4. Range(t) = {"fence", "contiguous", "message", "finish", "consume"}
    BY <2>2 DEF Range
  <2>5. Rest(c, u, t)
    BY <1>8, <2>2, <2>3 DEF Rest, InMpi, Screens, Packs
  <2>6. QED
    BY <1>8, <2>4, <2>5 DEF Starts, Past, InMpi, Messages, Packs, Promise!Senders, Promise!Receivers,
       Promise!Posts, Promise!PointToPoint
<1>9. CASE c.fn \in {"isend_low", "irecv_low"}
  <2>1. t = <<"fence", "contiguous", "message", "consume">>
    BY <1>9, Lists
  <2>2. /\ t # <<>> /\ Len(t) = 4 /\ DOMAIN t = {1, 2, 3, 4}
        /\ t[1] = "fence" /\ t[2] = "contiguous" /\ t[3] = "message" /\ t[4] = "consume"
    BY <2>1
  <2>3. ~ u
    BY <1>9 DEF Unpacks, Promise!Posts
  <2>4. Range(t) = {"fence", "contiguous", "message", "consume"}
    BY <2>2 DEF Range
  <2>5. Rest(c, u, t)
    BY <1>9, <2>2, <2>3 DEF Rest, InMpi, Screens, Packs
  <2>6. QED
    BY <1>9, <2>4, <2>5 DEF Starts, Past, InMpi, Messages, Packs, Promise!Senders, Promise!Receivers,
       Promise!Posts, Promise!PointToPoint
<1>10. CASE c.fn = "irecv"
  <2>1. t = <<"fence", "message", "consume">>
    BY <1>10, Lists
  <2>2. /\ t # <<>> /\ Len(t) = 3 /\ DOMAIN t = {1, 2, 3}
        /\ t[1] = "fence" /\ t[2] = "message" /\ t[3] = "consume"
    BY <2>1
  <2>3. ~ u
    BY <1>10 DEF Unpacks, Promise!Posts
  <2>4. Range(t) = {"fence", "message", "consume"}
    BY <2>2 DEF Range
  <2>5. Rest(c, u, t)
    BY <1>10, <2>2, <2>3 DEF Rest, InMpi, Screens, Packs
  <2>6. QED
    BY <1>10, <2>4, <2>5 DEF Starts, Past, InMpi, Messages, Packs, Promise!Senders, Promise!Receivers,
       Promise!Posts, Promise!PointToPoint
<1>11. CASE c.fn = "send" /\ Packs(c)
  <2>1. t = <<"pack", "fence", "message", "finish", "consume">>
    BY <1>11, Lists
  <2>2. /\ t # <<>> /\ Len(t) = 5 /\ DOMAIN t = {1, 2, 3, 4, 5}
        /\ t[1] = "pack" /\ t[2] = "fence" /\ t[3] = "message" /\ t[4] = "finish"
           /\ t[5] = "consume"
    BY <2>1
  <2>3. ~ u
    BY <1>11 DEF Unpacks, Promise!Posts
  <2>4. Range(t) = {"pack", "fence", "message", "finish", "consume"}
    BY <2>2 DEF Range
  <2>5. Rest(c, u, t)
    BY <1>11, <2>2, <2>3 DEF Rest, InMpi, Screens, Packs
  <2>6. QED
    BY <1>11, <2>4, <2>5 DEF Starts, Past, InMpi, Messages, Packs, Promise!Senders, Promise!Receivers,
       Promise!Posts, Promise!PointToPoint
<1>12. CASE c.fn = "send" /\ ~ Packs(c)
  <2>1. t = <<"fence", "message", "finish", "consume">>
    BY <1>12, Lists
  <2>2. /\ t # <<>> /\ Len(t) = 4 /\ DOMAIN t = {1, 2, 3, 4}
        /\ t[1] = "fence" /\ t[2] = "message" /\ t[3] = "finish" /\ t[4] = "consume"
    BY <2>1
  <2>3. ~ u
    BY <1>12 DEF Unpacks, Promise!Posts
  <2>4. Range(t) = {"fence", "message", "finish", "consume"}
    BY <2>2 DEF Range
  <2>5. Rest(c, u, t)
    BY <1>12, <2>2, <2>3 DEF Rest, InMpi, Screens, Packs
  <2>6. QED
    BY <1>12, <2>4, <2>5 DEF Starts, Past, InMpi, Messages, Packs, Promise!Senders, Promise!Receivers,
       Promise!Posts, Promise!PointToPoint
<1>13. CASE c.fn = "isend" /\ Packs(c)
  <2>1. t = <<"pack", "fence", "message", "consume">>
    BY <1>13, Lists
  <2>2. /\ t # <<>> /\ Len(t) = 4 /\ DOMAIN t = {1, 2, 3, 4}
        /\ t[1] = "pack" /\ t[2] = "fence" /\ t[3] = "message" /\ t[4] = "consume"
    BY <2>1
  <2>3. ~ u
    BY <1>13 DEF Unpacks, Promise!Posts
  <2>4. Range(t) = {"pack", "fence", "message", "consume"}
    BY <2>2 DEF Range
  <2>5. Rest(c, u, t)
    BY <1>13, <2>2, <2>3 DEF Rest, InMpi, Screens, Packs
  <2>6. QED
    BY <1>13, <2>4, <2>5 DEF Starts, Past, InMpi, Messages, Packs, Promise!Senders, Promise!Receivers,
       Promise!Posts, Promise!PointToPoint
<1>14. CASE c.fn = "isend" /\ ~ Packs(c)
  <2>1. t = <<"fence", "message", "consume">>
    BY <1>14, Lists
  <2>2. /\ t # <<>> /\ Len(t) = 3 /\ DOMAIN t = {1, 2, 3}
        /\ t[1] = "fence" /\ t[2] = "message" /\ t[3] = "consume"
    BY <2>1
  <2>3. ~ u
    BY <1>14 DEF Unpacks, Promise!Posts
  <2>4. Range(t) = {"fence", "message", "consume"}
    BY <2>2 DEF Range
  <2>5. Rest(c, u, t)
    BY <1>14, <2>2, <2>3 DEF Rest, InMpi, Screens, Packs
  <2>6. QED
    BY <1>14, <2>4, <2>5 DEF Starts, Past, InMpi, Messages, Packs, Promise!Senders, Promise!Receivers,
       Promise!Posts, Promise!PointToPoint
<1>15. CASE c.fn = "recv" /\ Unpacks(p, c)
  <2>1. t = <<"fence", "message", "finish", "unpack", "consume">>
    BY <1>15, Lists
  <2>2. /\ t # <<>> /\ Len(t) = 5 /\ DOMAIN t = {1, 2, 3, 4, 5}
        /\ t[1] = "fence" /\ t[2] = "message" /\ t[3] = "finish" /\ t[4] = "unpack"
           /\ t[5] = "consume"
    BY <2>1
  <2>3. u
    BY <1>15 DEF Unpacks, Promise!Posts
  <2>4. Range(t) = {"fence", "message", "finish", "unpack", "consume"}
    BY <2>2 DEF Range
  <2>5. Rest(c, u, t)
    BY <1>15, <2>2, <2>3 DEF Rest, InMpi, Screens, Packs
  <2>6. QED
    BY <1>15, <2>4, <2>5 DEF Starts, Past, InMpi, Messages, Packs, Promise!Senders, Promise!Receivers,
       Promise!Posts, Promise!PointToPoint
<1>16. CASE c.fn = "recv" /\ ~ Unpacks(p, c)
  <2>1. t = <<"fence", "message", "finish", "consume">>
    BY <1>16, Lists
  <2>2. /\ t # <<>> /\ Len(t) = 4 /\ DOMAIN t = {1, 2, 3, 4}
        /\ t[1] = "fence" /\ t[2] = "message" /\ t[3] = "finish" /\ t[4] = "consume"
    BY <2>1
  <2>3. ~ u
    BY <1>16 DEF Unpacks, Promise!Posts
  <2>4. Range(t) = {"fence", "message", "finish", "consume"}
    BY <2>2 DEF Range
  <2>5. Rest(c, u, t)
    BY <1>16, <2>2, <2>3 DEF Rest, InMpi, Screens, Packs
  <2>6. QED
    BY <1>16, <2>4, <2>5 DEF Starts, Past, InMpi, Messages, Packs, Promise!Senders, Promise!Receivers,
       Promise!Posts, Promise!PointToPoint
<1>17. CASE c.fn = "wait" /\ Unpacks(p, program[p][c.of])
  <2>1. t = <<"finish", "unpack", "fence", "consume">>
    BY <1>17, Lists
  <2>2. /\ t # <<>> /\ Len(t) = 4 /\ DOMAIN t = {1, 2, 3, 4}
        /\ t[1] = "finish" /\ t[2] = "unpack" /\ t[3] = "fence" /\ t[4] = "consume"
    BY <2>1
  <2>3. u
    BY <1>17 DEF Unpacks, Promise!Posts
  <2>4. Range(t) = {"finish", "unpack", "fence", "consume"}
    BY <2>2 DEF Range
  <2>5. Rest(c, u, t)
    BY <1>17, <2>2, <2>3 DEF Rest, InMpi, Screens, Packs
  <2>6. QED
    BY <1>17, <2>4, <2>5 DEF Starts, Past, InMpi, Messages, Packs, Promise!Senders, Promise!Receivers,
       Promise!Posts, Promise!PointToPoint
<1>18. CASE c.fn = "wait" /\ ~ Unpacks(p, program[p][c.of])
  <2>1. t = <<"finish", "consume">>
    BY <1>18, Lists
  <2>2. /\ t # <<>> /\ Len(t) = 2 /\ DOMAIN t = {1, 2}
        /\ t[1] = "finish" /\ t[2] = "consume"
    BY <2>1
  <2>3. ~ u
    BY <1>18 DEF Unpacks, Promise!Posts
  <2>4. Range(t) = {"finish", "consume"}
    BY <2>2 DEF Range
  <2>5. Rest(c, u, t)
    BY <1>18, <2>2, <2>3 DEF Rest, InMpi, Screens, Packs
  <2>6. QED
    BY <1>18, <2>4, <2>5 DEF Starts, Past, InMpi, Messages, Packs, Promise!Senders, Promise!Receivers,
       Promise!Posts, Promise!PointToPoint
<1>19. CASE c.fn = "reduce" /\ Packs(c) /\ Unpacks(p, c)
  <2>1. t = <<"pack", "fence", "collective", "leave", "unpack", "consume">>
    BY <1>19, Lists
  <2>2. /\ t # <<>> /\ Len(t) = 6 /\ DOMAIN t = {1, 2, 3, 4, 5, 6}
        /\ t[1] = "pack" /\ t[2] = "fence" /\ t[3] = "collective" /\ t[4] = "leave"
           /\ t[5] = "unpack" /\ t[6] = "consume"
    BY <2>1
  <2>3. u
    BY <1>19 DEF Unpacks, Promise!Posts
  <2>4. Range(t) = {"pack", "fence", "collective", "leave", "unpack", "consume"}
    BY <2>2 DEF Range
  <2>5. Rest(c, u, t)
    BY <1>19, <2>2, <2>3 DEF Rest, InMpi, Screens, Packs
  <2>6. QED
    BY <1>19, <2>4, <2>5 DEF Starts, Past, InMpi, Messages, Packs, Promise!Senders, Promise!Receivers,
       Promise!Posts, Promise!PointToPoint
<1>20. CASE c.fn = "reduce" /\ Packs(c) /\ ~ Unpacks(p, c)
  <2>1. t = <<"pack", "fence", "collective", "leave", "consume">>
    BY <1>20, Lists
  <2>2. /\ t # <<>> /\ Len(t) = 5 /\ DOMAIN t = {1, 2, 3, 4, 5}
        /\ t[1] = "pack" /\ t[2] = "fence" /\ t[3] = "collective" /\ t[4] = "leave"
           /\ t[5] = "consume"
    BY <2>1
  <2>3. ~ u
    BY <1>20 DEF Unpacks, Promise!Posts
  <2>4. Range(t) = {"pack", "fence", "collective", "leave", "consume"}
    BY <2>2 DEF Range
  <2>5. Rest(c, u, t)
    BY <1>20, <2>2, <2>3 DEF Rest, InMpi, Screens, Packs
  <2>6. QED
    BY <1>20, <2>4, <2>5 DEF Starts, Past, InMpi, Messages, Packs, Promise!Senders, Promise!Receivers,
       Promise!Posts, Promise!PointToPoint
<1>21. CASE c.fn = "reduce" /\ ~ Packs(c) /\ Unpacks(p, c)
  <2>1. t = <<"fence", "collective", "leave", "unpack", "consume">>
    BY <1>21, Lists
  <2>2. /\ t # <<>> /\ Len(t) = 5 /\ DOMAIN t = {1, 2, 3, 4, 5}
        /\ t[1] = "fence" /\ t[2] = "collective" /\ t[3] = "leave" /\ t[4] = "unpack"
           /\ t[5] = "consume"
    BY <2>1
  <2>3. u
    BY <1>21 DEF Unpacks, Promise!Posts
  <2>4. Range(t) = {"fence", "collective", "leave", "unpack", "consume"}
    BY <2>2 DEF Range
  <2>5. Rest(c, u, t)
    BY <1>21, <2>2, <2>3 DEF Rest, InMpi, Screens, Packs
  <2>6. QED
    BY <1>21, <2>4, <2>5 DEF Starts, Past, InMpi, Messages, Packs, Promise!Senders, Promise!Receivers,
       Promise!Posts, Promise!PointToPoint
<1>22. CASE c.fn = "reduce" /\ ~ Packs(c) /\ ~ Unpacks(p, c)
  <2>1. t = <<"fence", "collective", "leave", "consume">>
    BY <1>22, Lists
  <2>2. /\ t # <<>> /\ Len(t) = 4 /\ DOMAIN t = {1, 2, 3, 4}
        /\ t[1] = "fence" /\ t[2] = "collective" /\ t[3] = "leave" /\ t[4] = "consume"
    BY <2>1
  <2>3. ~ u
    BY <1>22 DEF Unpacks, Promise!Posts
  <2>4. Range(t) = {"fence", "collective", "leave", "consume"}
    BY <2>2 DEF Range
  <2>5. Rest(c, u, t)
    BY <1>22, <2>2, <2>3 DEF Rest, InMpi, Screens, Packs
  <2>6. QED
    BY <1>22, <2>4, <2>5 DEF Starts, Past, InMpi, Messages, Packs, Promise!Senders, Promise!Receivers,
       Promise!Posts, Promise!PointToPoint
<1>23. QED
  BY <1>1, <1>2, <1>3, <1>4, <1>5, <1>6, <1>7, <1>8, <1>9, <1>10, <1>11, <1>12, <1>13, <1>14,
     <1>15, <1>16, <1>17, <1>18, <1>19, <1>20, <1>21, <1>22
  DEF CallRecords, Promise!Senders, Promise!Receivers, Promise!Gathers, Promise!Broadcasts,
      Promise!Reductions, Promise!Scans, Promise!InclusiveScans, Promise!ExclusiveScans

-----------------------------------------------------------------------------
(* What the first step of a rank leaves.                                   *)
LEMMA DoesRemain ==
  ASSUME IInv, Delivering, NEW p \in Ranks, NEW h, Does(p, h)
  PROVE  LET i == at[p]
             c == program[p][i]
             t == todo[p]
             u == todo'[p]
         IN
         /\ i \in Numbers(program, p) /\ i \in Nat /\ i > 0 /\ at' = at /\ program' = program
         /\ t # <<>> /\ h = Head(t) /\ u = Tail(t)
         /\ Range(t) = {h} \union Range(u)
         /\ Remains(program, p, i, t) /\ Remains(program, p, i, u)
         /\ h \in {"leave", "finish"} => Past(u)
         /\ h = "collective" => "collective" \notin Range(u) /\ "leave" \in Range(u)
         /\ h = "leave" => "collective" \notin Range(t)
         /\ h = "message" => "message" \notin Range(u)
         /\ h = "message" /\ c.fn \notin Promise!Posts => "finish" \in Range(u)
         /\ h \in InMpi => Range(u) \intersect Screens = {}
         /\ h = "pack" => "pack" \notin Range(u)
         /\ "pack" \in Range(t) => h = "pack" /\ Packs(c)
         /\ h = "unpack" => Past(t)
         /\ h = "unpack" => c.fn \notin Promise!Posts /\ Unpacks(p, program[p][Subj(program, p, i)])
         /\ ~ Past(t) => ("unpack" \in Range(t) <=>
                            c.fn \notin Promise!Posts /\ Unpacks(p, program[p][Subj(program, p, i)]))
         /\ h \notin InMpi => (Past(u) <=> Past(t))
<1>1. PICK i, c, t, u, g : i = at[p] /\ c = program[p][i] /\ t = todo[p] /\ u = todo'[p] /\ g = program
  OBVIOUS
<1>2. /\ t # <<>> /\ h = Head(t) /\ u = Tail(t) /\ at' = at /\ program' = program
      /\ i \in Nat /\ i > 0 /\ i \in Numbers(program, p) /\ Current(p) = c
  <2>1. /\ t # <<>> /\ h = Head(t) /\ u = Tail(t) /\ at' = at /\ program' = program
    BY <1>1, DoesFacts DEF Does
  <2>2. /\ i \in Nat /\ i > 0 /\ i \in Calls(p) /\ Current(p) = c
    BY <1>1, DoesFacts
  <2>3. Calls(p) = Numbers(program, p)
    BY Here DEF Numbers
  <2>4. QED
    BY <2>1, <2>2, <2>3
<1>3. Ordered(c, t) /\ Remains(g, p, i, t)
  BY <1>1, <1>2, Here DEF Delivering
<1>4. PICK U : U <=> g[p][i].fn \notin Promise!Posts /\ Unpacks(p, g[p][Subj(g, p, i)])
  OBVIOUS
<1>5. /\ h \in {"leave", "finish"} => Past(u)
      /\ h = "collective" => "collective" \notin Range(u) /\ "leave" \in Range(u)
      /\ h = "leave" => "collective" \notin Range(t)
      /\ h \in InMpi => Range(u) \intersect Screens = {}
      /\ h = "pack" => "pack" \notin Range(u)
      /\ "pack" \in Range(t) => h = "pack" /\ Packs(g[p][i])
      /\ h = "unpack" => Past(t) /\ U
      /\ ~ Past(t) => ("unpack" \in Range(t) <=> U)
  BY <1>2, <1>3, <1>4, FirstRemains
<1>6. Remains(g, p, i, u)
  BY <1>2, <1>3, TailRemains
<1>7. /\ Range(t) = {h} \union Range(u)
      /\ h = "message" => "message" \notin Range(u)
      /\ h = "message" /\ c.fn \notin Promise!Posts => u # <<>> /\ Head(u) = "finish"
  BY <1>2, <1>3, AfterFirst
<1>8. u # <<>> => Head(u) \in Range(u)
  <2>1. u \in Seq(Labels)
    BY <1>2, <1>3, AfterFirst DEF Ordered
  <2>2. ASSUME u # <<>> PROVE Head(u) \in Range(u)
    <3>1. 1 \in DOMAIN u /\ Head(u) = u[1]
      BY <2>1, <2>2
    <3>2. QED
      BY <3>1 DEF Range
  <2>3. QED
    BY <2>2
<1>9. h = "message" /\ c.fn \notin Promise!Posts => "finish" \in Range(u)
  BY <1>7, <1>8
<1>10. h \notin InMpi => (Past(u) <=> Past(t))
  BY <1>7 DEF Past
<1>11. QED
  BY <1>1, <1>2, <1>3, <1>4, <1>5, <1>6, <1>7, <1>9, <1>10

(* A call that gets to MPI is supported.                                   *)
LEMMA TakesInMpi ==
  ASSUME IInv, Aligning, Delivering, NEW p \in Ranks, NEW h, Does(p, h), h \in InMpi
  PROVE  Takes(program[p][at[p]])
<1>1. PICK c, t, u : c = program[p][at[p]] /\ t = todo[p] /\ u = todo'[p]
  OBVIOUS
<1>2. /\ t # <<>> /\ h = Head(t) /\ Range(t) = {h} \union Range(u)
      /\ Range(u) \intersect Screens = {}
  BY <1>1, DoesRemain
<1>3. Shape(c, t)
  BY <1>1, DoesFacts DEF Aligning, Aligned
<1>4. \A m \in DOMAIN t : t[m] \notin Screens
  <2>1. \A m \in DOMAIN t : t[m] \in {h} \union Range(u)
    BY <1>2 DEF Range
  <2>2. h \notin Screens
    BY DEF InMpi, Screens
  <2>3. QED
    BY <1>2, <2>1, <2>2
<1>5. QED
  BY <1>1, <1>2, <1>3, <1>4 DEF Shape

(* The steps of the next call.                                             *)
LEMMA CallStarts ==
  ASSUME IInv, NEW p \in Ranks, Call(p)
  PROVE  LET i == at[p] + 1
             c == program[p][i]
         IN
         /\ i \in Numbers(program, p) /\ i \in Nat /\ at[p] \in Nat /\ c \in CallRecords
         /\ todo[p] = <<>> /\ at'[p] = i /\ program' = program
         /\ Starts(c, c.fn \notin Promise!Posts /\ Unpacks(p, program[p][Subj(program, p, i)]), todo'[p])
         /\ Remains(program, p, i, todo'[p])
         /\ todo'[p] = Steps(p, c)
         /\ \A q \in Ranks \ {p} : at'[q] = at[q] /\ todo'[q] = todo[q]
<1>1. PICK i, c, t : i = at[p] + 1 /\ c = program[p][i] /\ t = Steps(p, c)
  OBVIOUS
<1>2. /\ todo[p] = <<>> /\ at[p] < Len(program[p]) /\ at' = [at EXCEPT ![p] = i]
      /\ todo' = [todo EXCEPT ![p] = t] /\ program' = program
  BY <1>1 DEF Call
<1>3. at \in [Ranks -> Nat] /\ DOMAIN todo = Ranks /\ program \in Programs
  BY DEF IInv, Domains
<1>4. /\ at'[p] = i /\ todo'[p] = t
      /\ \A q \in Ranks \ {p} : at'[q] = at[q] /\ todo'[q] = todo[q]
  BY <1>2, <1>3
<1>5. at[p] \in Nat /\ i \in Nat /\ i \in Numbers(program, p)
  BY <1>1, <1>2, <1>3, ProgramCalls DEF Numbers
<1>6. c \in CallRecords
  BY <1>1, <1>3, <1>5, ProgramCalls
<1>7. PICK d : d = IF c.fn = "wait" THEN program[p][c.of] ELSE c
  OBVIOUS
<1>8. d = program[p][Subj(program, p, i)]
  BY <1>1, <1>7 DEF Subj
<1>9. PICK u : u = (c.fn \notin Promise!Posts /\ Unpacks(p, d))
  OBVIOUS
<1>10. Starts(c, u, t)
  BY <1>1, <1>6, <1>7, <1>9, StepsStart
<1>11. u = (c.fn \notin Promise!Posts /\ Unpacks(p, program[p][Subj(program, p, i)]))
  BY <1>8, <1>9
<1>12. QED
  BY <1>1, <1>2, <1>4, <1>5, <1>6, <1>10, <1>11 DEF Starts, Remains

-----------------------------------------------------------------------------
(* Messages of a rank.                                                     *)
SameMail(P, R) ==
  /\ DOMAIN R = DOMAIN P
  /\ \A n \in DOMAIN P :
       /\ R[n].call = P[n].call /\ R[n].kind = P[n].kind /\ R[n].peer = P[n].peer
       /\ R[n].tag = P[n].tag /\ R[n].data = P[n].data

LEMMA FiledFrame ==
  ASSUME NEW g, NEW p, NEW a, NEW t, NEW u, NEW P, NEW R, Filed(g, p, a, t, P), SameMail(P, R),
         g[p][a].fn \in Messages /\ a > 0 => ("message" \in Range(t) => "message" \in Range(u))
  PROVE  Filed(g, p, a, u, R)
<1>1. ASSUME NEW i \in 1 .. a, g[p][i].fn \in Messages, Asked(i, a, u, "message")
      PROVE  \E n \in DOMAIN R : R[n].call = i
  <2>1. Asked(i, a, t, "message")
    BY <1>1 DEF Asked
  <2>2. PICK n \in DOMAIN P : P[n].call = i
    BY <1>1, <2>1 DEF Filed
  <2>3. QED
    BY <2>2 DEF SameMail
<1>2. \A m, n \in DOMAIN R : m < n => R[m].call < R[n].call
  BY DEF Filed, SameMail
<1>3. \A n \in DOMAIN R :
        /\ R[n].peer = g[p][R[n].call].peer /\ R[n].tag = g[p][R[n].call].tag
        /\ R[n].kind = "send" => R[n].data = {<<p, R[n].call>>}
  BY DEF Filed, SameMail
<1>4. QED
  BY <1>1, <1>2, <1>3 DEF Filed

LEMMA FiledNext ==
  ASSUME NEW g, NEW p, NEW a \in Nat, NEW u, NEW P, Filed(g, p, a, <<>>, P),
         g[p][a + 1].fn \in Messages => "message" \in Range(u)
  PROVE  Filed(g, p, a + 1, u, P)
<1>1. ASSUME NEW i \in 1 .. a + 1, g[p][i].fn \in Messages, Asked(i, a + 1, u, "message")
      PROVE  \E n \in DOMAIN P : P[n].call = i
  <2>1. i # a + 1
    BY <1>1 DEF Asked
  <2>2. i \in 1 .. a /\ Range(<<>>) = {}
    BY <2>1 DEF Range
  <2>3. Asked(i, a, <<>>, "message")
    BY <2>2 DEF Asked
  <2>4. QED
    BY <1>1, <2>2, <2>3 DEF Filed
<1>2. QED
  BY <1>1 DEF Filed

LEMMA FiledAppend ==
  ASSUME NEW g, NEW p, NEW a \in Nat, NEW t, NEW u, NEW P \in Seq(MessageRecords), Filed(g, p, a, t, P),
         \A n \in DOMAIN P : P[n].call < a,
         NEW m \in MessageRecords, m.call = a, m.peer = g[p][a].peer, m.tag = g[p][a].tag,
         m.kind = "send" => m.data = {<<p, a>>}
  PROVE  Filed(g, p, a, u, Append(P, m))
<1>1. PICK R, n : R = Append(P, m) /\ n = Len(P)
  OBVIOUS
<1>2. /\ n \in Nat /\ DOMAIN P = 1 .. n /\ DOMAIN R = 1 .. n + 1 /\ R[n + 1] = m
      /\ \A k \in 1 .. n : R[k] = P[k]
  BY <1>1
<1>3. ASSUME NEW i \in 1 .. a, g[p][i].fn \in Messages
      PROVE  \E k \in DOMAIN R : R[k].call = i
  <2>1. CASE i = a
    BY <1>2, <2>1
  <2>2. CASE i # a
    <3>1. Asked(i, a, t, "message")
      BY <2>2 DEF Asked
    <3>2. PICK k \in DOMAIN P : P[k].call = i
      BY <1>3, <3>1 DEF Filed
    <3>3. QED
      BY <1>2, <3>2
  <2>3. QED
    BY <2>1, <2>2
<1>4. ASSUME NEW k \in DOMAIN R, NEW l \in DOMAIN R, k < l PROVE R[k].call < R[l].call
  <2>1. CASE l = n + 1
    <3>1. k \in DOMAIN P /\ R[k] = P[k] /\ R[l].call = a
      BY <1>2, <1>4, <2>1
    <3>2. QED
      BY <3>1
  <2>2. CASE l # n + 1
    <3>1. k \in DOMAIN P /\ l \in DOMAIN P /\ R[k] = P[k] /\ R[l] = P[l]
      BY <1>2, <1>4, <2>2
    <3>2. QED
      BY <1>4, <3>1 DEF Filed
  <2>3. QED
    BY <2>1, <2>2
<1>5. ASSUME NEW k \in DOMAIN R
      PROVE  /\ R[k].peer = g[p][R[k].call].peer /\ R[k].tag = g[p][R[k].call].tag
             /\ R[k].kind = "send" => R[k].data = {<<p, R[k].call>>}
  <2>1. (k \in DOMAIN P /\ R[k] = P[k]) \/ R[k] = m
    BY <1>2
  <2>2. QED
    BY <2>1 DEF Filed
<1>6. QED
  BY <1>1, <1>3, <1>4, <1>5 DEF Filed

-----------------------------------------------------------------------------
(* Operations that are complete.                                           *)
LEMMA ClosedFrame ==
  ASSUME NEW g, NEW p, NEW a \in Nat, NEW b \in Nat, NEW t, NEW u, NEW P, NEW R, Closed(g, p, a, t, P),
         \/ a = b /\ ("finish" \in Range(u) => "finish" \in Range(t))
         \/ a < b,
         DOMAIN R = DOMAIN P, \A n \in DOMAIN P : P[n].call \in Nat,
         \A n \in DOMAIN P : R[n].call = P[n].call /\ R[n].kind = P[n].kind /\ R[n].open = P[n].open
                               /\ (P[n].matched => R[n].matched)
  PROVE  Closed(g, p, b, u, R)
<1>1. \A i : Asked(i, a, t, "finish") /\ i \in Int => Asked(i, b, u, "finish")
  BY DEF Asked
<1>2. ASSUME NEW n \in DOMAIN R
      PROVE  /\ R[n].kind = "recv" /\ ~ R[n].matched => R[n].open
             /\ ~ R[n].open =>
                  IF g[p][R[n].call].fn \in Promise!Posts
                  THEN \E w \in 1 .. b : WaitsFor(g[p], w, R[n].call) /\ Asked(w, b, u, "finish")
                  ELSE Asked(R[n].call, b, u, "finish")
  <2>1. n \in DOMAIN P /\ R[n].call = P[n].call /\ R[n].kind = P[n].kind /\ R[n].open = P[n].open
        /\ (P[n].matched => R[n].matched)
    OBVIOUS
  <2>2. R[n].kind = "recv" /\ ~ R[n].matched => R[n].open
    BY <2>1 DEF Closed
  <2>3. ASSUME ~ R[n].open, g[p][R[n].call].fn \in Promise!Posts
        PROVE  \E w \in 1 .. b : WaitsFor(g[p], w, R[n].call) /\ Asked(w, b, u, "finish")
    <3>1. PICK w \in 1 .. a : WaitsFor(g[p], w, R[n].call) /\ Asked(w, a, t, "finish")
      BY <2>1, <2>3 DEF Closed
    <3>2. w \in 1 .. b /\ Asked(w, b, u, "finish")
      BY <1>1, <3>1
    <3>3. QED
      BY <3>1, <3>2
  <2>4. ASSUME ~ R[n].open, g[p][R[n].call].fn \notin Promise!Posts
        PROVE  Asked(R[n].call, b, u, "finish")
    <3>1. Asked(P[n].call, a, t, "finish")
      BY <2>1, <2>4 DEF Closed
    <3>2. QED
      BY <1>1, <2>1, <3>1
  <2>5. QED
    BY <2>2, <2>3, <2>4
<1>3. QED
  BY <1>2 DEF Closed

LEMMA ClosedAppend ==
  ASSUME NEW g, NEW p, NEW a, NEW t, NEW P \in Seq(MessageRecords), Closed(g, p, a, t, P),
         NEW m \in MessageRecords, m.open
  PROVE  Closed(g, p, a, t, Append(P, m))
<1>1. PICK R : R = Append(P, m)
  OBVIOUS
<1>2. \A n \in DOMAIN R : (n \in DOMAIN P /\ R[n] = P[n]) \/ R[n] = m
  BY <1>1
<1>3. ASSUME NEW n \in DOMAIN R
      PROVE  /\ R[n].kind = "recv" /\ ~ R[n].matched => R[n].open
             /\ ~ R[n].open =>
                  IF g[p][R[n].call].fn \in Promise!Posts
                  THEN \E w \in 1 .. a : WaitsFor(g[p], w, R[n].call) /\ Asked(w, a, t, "finish")
                  ELSE Asked(R[n].call, a, t, "finish")
  <2>1. CASE R[n] = m
    BY <2>1
  <2>2. CASE n \in DOMAIN P /\ R[n] = P[n]
    BY <2>2 DEF Closed
  <2>3. QED
    BY <1>2, <2>1, <2>2
<1>4. QED
  BY <1>1, <1>3 DEF Closed

(* Operation m is completed, at the end of the step that finishes it.      *)
LEMMA ClosedFinish ==
  ASSUME NEW g, NEW p, NEW a \in Nat, a > 0, NEW t, NEW u, NEW P, NEW R, Closed(g, p, a, t, P),
         Range(u) \subseteq Range(t), "finish" \notin Range(u), g[p][a].fn \notin Promise!Posts,
         g[p][a].fn = "wait" => g[p][Subj(g, p, a)].fn \in Promise!Posts,
         NEW m \in DOMAIN P, P[m].call = Subj(g, p, a), P[m].kind = "recv" => P[m].matched,
         DOMAIN R = DOMAIN P, \A n \in DOMAIN P : P[n].call \in Nat,
         \A n \in DOMAIN P : /\ R[n].call = P[n].call /\ R[n].kind = P[n].kind
                             /\ R[n].matched = P[n].matched
                             /\ n # m => R[n].open = P[n].open
  PROVE  Closed(g, p, a, u, R)
<1>1. \A i : Asked(i, a, t, "finish") => Asked(i, a, u, "finish")
  BY DEF Asked
<1>2. Asked(a, a, u, "finish")
  BY DEF Asked
<1>3. ASSUME NEW n \in DOMAIN R
      PROVE  /\ R[n].kind = "recv" /\ ~ R[n].matched => R[n].open
             /\ ~ R[n].open =>
                  IF g[p][R[n].call].fn \in Promise!Posts
                  THEN \E w \in 1 .. a : WaitsFor(g[p], w, R[n].call) /\ Asked(w, a, u, "finish")
                  ELSE Asked(R[n].call, a, u, "finish")
  <2>1. CASE n = m
    <3>1. R[n].call = Subj(g, p, a) /\ ~ (R[n].kind = "recv" /\ ~ R[n].matched)
      BY <2>1
    <3>2. CASE g[p][a].fn = "wait"
      <4>1. WaitsFor(g[p], a, R[n].call)
        BY <3>1, <3>2 DEF WaitsFor, Subj
      <4>2. a \in 1 .. a
        OBVIOUS
      <4>3. g[p][R[n].call].fn \in Promise!Posts
        BY <3>1, <3>2
      <4>4. QED
        BY <1>2, <3>1, <4>1, <4>2, <4>3
    <3>3. CASE g[p][a].fn # "wait"
      <4>1. R[n].call = a
        BY <3>1, <3>3 DEF Subj
      <4>2. QED
        BY <1>2, <3>1, <4>1
    <3>4. QED
      BY <3>2, <3>3
  <2>2. CASE n # m
    <3>1. R[n].open = P[n].open /\ R[n].call = P[n].call /\ R[n].kind = P[n].kind
          /\ R[n].matched = P[n].matched
      BY <2>2
    <3>2. QED
      BY <1>1, <3>1 DEF Closed
  <2>3. QED
    BY <2>1, <2>2
<1>4. QED
  BY <1>3 DEF Closed

-----------------------------------------------------------------------------
LEMMA PlacePositive ==
  ASSUME NEW S, Counted(S), NEW i \in S
  PROVE  Place(S, i) \in Nat /\ Place(S, i) > 0
<1>1. i \in Nat /\ i > 0 /\ 0 \in Int /\ i \in Int /\ 0 <= i /\ 0 # i
  BY DEF Counted
<1>2. Place(S, 0) < Place(S, i)
  BY <1>1, PlaceGrows
<1>3. QED
  BY <1>2, UptoFinite

(* The messages P of a rank that are of one kind, for one peer and tag,    *)
(* are those of the calls S.                                               *)
Tracks(S, P, kind, peer, tag) ==
  /\ \A m \in DOMAIN P : On(P, m, kind, peer, tag) <=> P[m].call \in S
  /\ \A l, m \in DOMAIN P : l < m => P[l].call < P[m].call

LEMMA SideFrame ==
  ASSUME NEW S, NEW P, NEW R, NEW kind, NEW peer, NEW tag, NEW n, Side(S, P, kind, peer, tag, n),
         SameMail(P, R),
         \A m \in DOMAIN P : On(P, m, kind, peer, tag) => R[m].matched = P[m].matched
  PROVE  Side(S, R, kind, peer, tag, n)
<1>1. \A m \in DOMAIN P : (On(R, m, kind, peer, tag) <=> On(P, m, kind, peer, tag))
                            /\ R[m].call = P[m].call
  BY DEF SameMail, On
<1>2. \A m \in DOMAIN R : On(R, m, kind, peer, tag) => (R[m].matched <=> Place(S, R[m].call) <= n)
  BY <1>1 DEF Side, SameMail
<1>3. \A k \in 1 .. n : \E m \in DOMAIN R : On(R, m, kind, peer, tag) /\ Place(S, R[m].call) = k
  <2>1. ASSUME NEW k \in 1 .. n
        PROVE  \E m \in DOMAIN R : On(R, m, kind, peer, tag) /\ Place(S, R[m].call) = k
    <3>1. PICK m \in DOMAIN P : On(P, m, kind, peer, tag) /\ Place(S, P[m].call) = k
      BY DEF Side
    <3>2. m \in DOMAIN R /\ On(R, m, kind, peer, tag) /\ Place(S, R[m].call) = k
      BY <1>1, <3>1 DEF SameMail
    <3>3. QED
      BY <3>2
  <2>2. QED
    BY <2>1
<1>4. QED
  BY <1>2, <1>3 DEF Side

LEMMA SideAppend ==
  ASSUME NEW S, Counted(S), NEW P \in Seq(MessageRecords), NEW kind, NEW peer, NEW tag, NEW n \in Nat,
         Side(S, P, kind, peer, tag, n), Tracks(S, P, kind, peer, tag),
         NEW m \in MessageRecords, ~ m.matched, \A l \in DOMAIN P : P[l].call < m.call,
         m.kind = kind /\ m.peer = peer /\ m.tag = tag => m.call \in S
  PROVE  Side(S, Append(P, m), kind, peer, tag, n)
<1>1. PICK R, z : R = Append(P, m) /\ z = Len(P)
  OBVIOUS
<1>2. /\ z \in Nat /\ DOMAIN P = 1 .. z /\ DOMAIN R = 1 .. z + 1 /\ R[z + 1] = m
      /\ \A k \in 1 .. z : R[k] = P[k]
  BY <1>1
<1>3. \A k \in DOMAIN P : k \in DOMAIN R /\ R[k] = P[k]
                            /\ (On(R, k, kind, peer, tag) <=> On(P, k, kind, peer, tag))
  BY <1>2 DEF On
<1>4. ASSUME On(R, z + 1, kind, peer, tag) PROVE ~ (Place(S, m.call) <= n)
  <2>1. m.call \in S
    BY <1>2, <1>4 DEF On
  <2>2. ASSUME Place(S, m.call) <= n PROVE FALSE
    <3>1. Place(S, m.call) \in 1 .. n
      BY <2>1, <2>2, PlacePositive
    <3>2. PICK l \in DOMAIN P : On(P, l, kind, peer, tag) /\ Place(S, P[l].call) = Place(S, m.call)
      BY <3>1 DEF Side
    <3>3. P[l].call \in S
      BY <3>2 DEF Tracks
    <3>4. P[l].call = m.call
      BY <2>1, <3>2, <3>3, PlaceUnique
    <3>5. P[l].call < m.call /\ m.call \in Nat
      BY DEF MessageRecords
    <3>6. QED
      BY <3>4, <3>5
  <2>3. QED
    BY <2>2
<1>5. ASSUME NEW k \in DOMAIN R, On(R, k, kind, peer, tag)
      PROVE  R[k].matched <=> Place(S, R[k].call) <= n
  <2>1. CASE k = z + 1
    BY <1>2, <1>4, <1>5, <2>1
  <2>2. CASE k # z + 1
    <3>1. k \in DOMAIN P
      BY <1>2, <2>2
    <3>2. QED
      BY <1>3, <1>5, <3>1 DEF Side
  <2>3. QED
    BY <2>1, <2>2
<1>6. \A k \in 1 .. n : \E l \in DOMAIN R : On(R, l, kind, peer, tag) /\ Place(S, R[l].call) = k
  BY <1>3 DEF Side
<1>7. QED
  BY <1>1, <1>5, <1>6 DEF Side

(* The first message that is not matched is matched.                       *)
LEMMA SideMatch ==
  ASSUME NEW S, Counted(S), NEW P \in Seq(MessageRecords), NEW R, NEW kind, NEW peer, NEW tag, NEW n \in Nat,
         Side(S, P, kind, peer, tag, n), Tracks(S, P, kind, peer, tag), SameMail(P, R),
         NEW s \in DOMAIN P, On(P, s, kind, peer, tag), ~ P[s].matched,
         \A l \in DOMAIN P : On(P, l, kind, peer, tag) /\ ~ P[l].matched => s <= l,
         \A i \in S : i <= P[s].call => \E l \in DOMAIN P : P[l].call = i,
         R[s].matched, \A l \in DOMAIN P : l # s => R[l].matched = P[l].matched
  PROVE  Place(S, P[s].call) = n + 1 /\ Side(S, R, kind, peer, tag, n + 1)
<1>1. PICK c : c = P[s].call
  OBVIOUS
<1>2. c \in S /\ c \in Nat /\ Place(S, c) \in Nat /\ ~ (Place(S, c) <= n)
  <2>1. c \in S
    BY <1>1 DEF Tracks
  <2>2. ~ (Place(S, c) <= n)
    BY <1>1 DEF Side
  <2>3. c \in Nat
    BY <2>1 DEF Counted
  <2>4. QED
    BY <2>1, <2>2, <2>3, PlacePositive
<1>3. /\ \A l \in DOMAIN P : P[l].call \in Nat
      /\ s \in Nat /\ \A l \in DOMAIN P : l \in Nat
  <2>1. DOMAIN P = 1 .. Len(P) /\ Len(P) \in Nat /\ \A l \in DOMAIN P : P[l] \in MessageRecords
    OBVIOUS
  <2>2. \A l \in DOMAIN P : P[l].call \in Nat
    BY <2>1 DEF MessageRecords
  <2>3. QED
    BY <2>1, <2>2
<1>4. PICK j \in S : j <= c /\ Place(S, j) = n + 1
  <2>1. n + 1 \in 1 .. Place(S, c)
    BY <1>2
  <2>2. QED
    BY <1>2, <2>1, PlaceTaken
<1>5. PICK l \in DOMAIN P : P[l].call = j
  BY <1>1, <1>4
<1>6. On(P, l, kind, peer, tag) /\ ~ P[l].matched
  <2>1. On(P, l, kind, peer, tag)
    BY <1>4, <1>5 DEF Tracks
  <2>2. ~ (Place(S, P[l].call) <= n)
    BY <1>4, <1>5
  <2>3. QED
    BY <2>1, <2>2 DEF Side
<1>7. s = l
  <2>1. s <= l
    BY <1>6
  <2>2. s < l => P[s].call < P[l].call
    BY DEF Tracks
  <2>3. QED
    BY <1>1, <1>2, <1>3, <1>4, <1>5, <2>1, <2>2
<1>8. Place(S, c) = n + 1
  BY <1>1, <1>4, <1>5, <1>7
<1>9. \A k \in DOMAIN P : (On(R, k, kind, peer, tag) <=> On(P, k, kind, peer, tag))
                            /\ R[k].call = P[k].call
  BY DEF SameMail, On
<1>10. ASSUME NEW k \in DOMAIN P, On(P, k, kind, peer, tag), k # s
       PROVE  P[k].matched <=> Place(S, P[k].call) <= n + 1
  <2>1. P[k].call \in S /\ Place(S, P[k].call) \in Nat
    BY <1>10, PlacePositive DEF Tracks
  <2>2. Place(S, P[k].call) # n + 1
    <3>1. ASSUME Place(S, P[k].call) = n + 1 PROVE FALSE
      <4>1. P[k].call = c
        BY <1>2, <1>8, <2>1, <3>1, PlaceUnique
      <4>2. P[k].call = P[s].call /\ (k < s => P[k].call < P[s].call) /\ (s < k => P[s].call < P[k].call)
        BY <1>1, <4>1 DEF Tracks
      <4>3. QED
        BY <1>3, <1>10, <4>2
    <3>2. QED
      BY <3>1
  <2>3. P[k].matched <=> Place(S, P[k].call) <= n
    BY <1>10 DEF Side
  <2>4. QED
    BY <2>1, <2>2, <2>3
<1>11. \A k \in DOMAIN R : On(R, k, kind, peer, tag) => (R[k].matched <=> Place(S, R[k].call) <= n + 1)
  <2>1. ASSUME NEW k \in DOMAIN P, On(R, k, kind, peer, tag)
        PROVE  R[k].matched <=> Place(S, R[k].call) <= n + 1
    <3>1. CASE k = s
      BY <1>1, <1>2, <1>8, <1>9, <3>1
    <3>2. CASE k # s
      BY <1>9, <1>10, <2>1, <3>2
    <3>3. QED
      BY <3>1, <3>2
  <2>2. QED
    BY <2>1 DEF SameMail
<1>12. ASSUME NEW k \in 1 .. n + 1
       PROVE  \E m \in DOMAIN R : On(R, m, kind, peer, tag) /\ Place(S, R[m].call) = k
  <2>1. CASE k = n + 1
    <3>1. s \in DOMAIN R /\ On(R, s, kind, peer, tag) /\ Place(S, R[s].call) = k
      BY <1>1, <1>8, <1>9, <2>1 DEF SameMail
    <3>2. QED
      BY <3>1
  <2>2. CASE k # n + 1
    <3>1. k \in 1 .. n
      BY <2>2
    <3>2. PICK m \in DOMAIN P : On(P, m, kind, peer, tag) /\ Place(S, P[m].call) = k
      BY <3>1 DEF Side
    <3>3. m \in DOMAIN R /\ On(R, m, kind, peer, tag) /\ Place(S, R[m].call) = k
      BY <1>9, <3>2 DEF SameMail
    <3>4. QED
      BY <3>3
  <2>3. QED
    BY <2>1, <2>2
<1>13. QED
  BY <1>1, <1>8, <1>11, <1>12 DEF Side

-----------------------------------------------------------------------------
(* What MPI is given is the rank's own data of the call.                   *)
LEMMA OwnData ==
  ASSUME IInv, Delivering, NEW p \in Ranks, NEW h \in {"collective", "message"}, Does(p, h)
  PROVE  Contribution(p, at[p]) = Own(program, p, at[p])
<1>1. PICK i, c, B : i = at[p] /\ c = program[p][i] /\ B = buf[p]
  OBVIOUS
<1>2. /\ i \in Nat /\ i > 0 /\ todo[p] # <<>> /\ h = Head(todo[p])
      /\ Range(todo[p]) = {h} \union Range(todo'[p])
      /\ "pack" \in Range(todo[p]) => h = "pack"
  BY <1>1, DoesRemain
<1>3. "pack" \notin Range(todo[p]) /\ h \in Range(todo[p])
  BY <1>2
<1>4. ASSUME Contributes(p, c) PROVE Contribution(p, i) = {<<p, i>>}
  <2>1. Current(p) = c
    BY <1>1 DEF Current
  <2>2. c.fn \notin Unfenced
    BY <1>4 DEF Contributes, Unfenced, Promise!Senders, Promise!Gathers, Promise!Reductions,
      Promise!Scans, Promise!InclusiveScans, Promise!ExclusiveScans, Promise!Broadcasts
  <2>3. queue[p] = <<>>
    BY <1>2, <2>1, <2>2, LeavesQuietly DEF InMpi
  <2>4. Giving(program, p, i, todo[p], <<>>, B)
    BY <1>1, <1>2, <2>3 DEF Delivering, Flow
  <2>5. /\ Packs(c) => B[<<"packed sv", i>>] = {<<p, i>>}
        /\ ~ Packs(c) => B[OwnView(c)] = {<<p, i>>}
    BY <1>1, <1>3, <1>4, <2>4 DEF Giving, Ready
  <2>6. B[SendBuffer(p, i)] = {<<p, i>>}
    BY <1>1, <2>5 DEF SendBuffer
  <2>7. QED
    BY <1>1, <1>4, <2>6 DEF Contribution
<1>5. ~ Contributes(p, c) => Contribution(p, i) = {}
  BY <1>1 DEF Contribution
<1>6. QED
  BY <1>1, <1>4, <1>5 DEF Own

(* The message that p gives to MPI.                                        *)
Asks(p, r) ==
  LET c == program[p][at[p]] IN
  /\ r \in MessageRecords /\ r.call = at[p] /\ r.peer = c.peer /\ r.tag = c.tag
  /\ r.kind = (IF c.fn \in Promise!Senders THEN "send" ELSE "recv")
  /\ r.kind = "send" => r.data = {<<p, at[p]>>}
  /\ ~ r.matched /\ r.open
  /\ posted'[p] = Append(posted[p], r)
  /\ \A q \in Ranks \ {p} : posted'[q] = posted[q]
  /\ \A n \in DOMAIN posted[p] : posted[p][n].call < at[p]
  /\ c.fn \in Messages

LEMMA MessageFacts ==
  ASSUME IInv, Delivering, Fits(program), NEW p \in Ranks, Message(p)
  PROVE  Does(p, "message") /\ \E r : Asks(p, r)
<1>1. Does(p, "message")
  BY DEF Message, At, Done, Does
<1>2. PICK i, c : i = at[p] /\ c = program[p][i]
  OBVIOUS
<1>3. /\ i \in Calls(p) /\ c = Current(p) /\ c \in CallRecords /\ i \in Nat
      /\ i \in Numbers(program, p)
  <2>1. i \in Calls(p) /\ i \in Nat /\ c = Current(p)
    BY <1>1, <1>2, DoesFacts
  <2>2. c \in CallRecords
    BY <1>1, <2>1, Here DEF Does
  <2>3. i \in Numbers(program, p)
    BY <1>1, <1>2, DoesRemain
  <2>4. QED
    BY <2>1, <2>2, <2>3
<1>4. c.fn \in Messages
  <2>1. Ordered(c, todo[p]) /\ todo[p] # <<>> /\ todo[p][1] = "message"
    BY <1>1, <1>3, Here DEF Does
  <2>2. 1 \in DOMAIN todo[p]
    BY <2>1, TailOrdered DEF Ordered
  <2>3. QED
    BY <2>1, <2>2 DEF Ordered
<1>5. Tag(c) = c.tag
  <2>1. c.fn = "irecv" => c.tag = POINTTOPOINT_TAG
    <3>1. \A q \in Ranks : \A j \in Numbers(program, q) :
            program[q][j].fn = "irecv" => program[q][j].tag = POINTTOPOINT_TAG
      BY DEF Fits
    <3>2. QED
      BY <1>2, <1>3, <3>1
  <2>2. QED
    BY <2>1 DEF Tag
<1>6. PICK D : D = Contribution(p, i) /\ D \in SUBSET (Ranks \X Nat) /\ D = Own(program, p, i)
  BY <1>1, <1>2, <1>3, Contributed, OwnData
<1>7. PICK lost : /\ lost \in BOOLEAN
                  /\ posted' = [posted EXCEPT ![p] = Append(@,
                       [kind |-> IF c.fn \in Promise!Senders THEN "send" ELSE "recv",
                        peer |-> c.peer, tag |-> Tag(c),
                        call |-> i, data |-> Contribution(p, i), matched |-> FALSE,
                        lost |-> lost, open |-> TRUE])]
  BY <1>2, <1>3 DEF Message
<1>8. PICK kind : kind = (IF c.fn \in Promise!Senders THEN "send" ELSE "recv") /\ kind \in {"send", "recv"}
  OBVIOUS
<1>9. PICK r : r = [kind |-> kind, peer |-> c.peer, tag |-> c.tag,
                    call |-> i, data |-> D, matched |-> FALSE, lost |-> lost, open |-> TRUE]
  OBVIOUS
<1>10. c.peer \in Ranks /\ c.tag \in Nat
  BY <1>3 DEF CallRecords
<1>11. r \in MessageRecords
  BY <1>3, <1>6, <1>7, <1>8, <1>9, <1>10 DEF MessageRecords
<1>12. /\ r.call = i /\ r.peer = c.peer /\ r.tag = c.tag /\ r.kind = kind /\ r.data = D
       /\ ~ r.matched /\ r.open
  BY <1>9
<1>13. r.kind = "send" => r.data = {<<p, i>>}
  <2>1. ASSUME r.kind = "send" PROVE D = {<<p, i>>}
    <3>1. c.fn \in Promise!Senders
      BY <1>8, <1>12, <2>1
    <3>2. Contributes(p, c)
      BY <3>1 DEF Contributes
    <3>3. QED
      BY <1>2, <1>6, <3>2 DEF Own
  <2>2. QED
    BY <1>12, <2>1
<1>14. posted' = [posted EXCEPT ![p] = Append(@, r)]
  BY <1>5, <1>6, <1>7, <1>8, <1>9
<1>15. posted'[p] = Append(posted[p], r) /\ \A q \in Ranks \ {p} : posted'[q] = posted[q]
  BY <1>14 DEF IInv, Domains
<1>16. ASSUME NEW n \in DOMAIN posted[p] PROVE posted[p][n].call < i
  <2>1. PICK m : m = posted[p][n] /\ Sent(p, m)
    BY DEF IInv, Local, Posted
  <2>2. "message" \in Left(p)
    BY <1>1, DoesFacts
  <2>3. m.call \in 1 .. i /\ m.call # i
    BY <1>2, <2>1, <2>2 DEF Sent
  <2>4. QED
    BY <1>3, <2>1, <2>3
<1>17. QED
  BY <1>1, <1>2, <1>4, <1>8, <1>11, <1>12, <1>13, <1>15, <1>16 DEF Asks

(* What becomes of messages when one is complete or two are matched.       *)
Completes(p, m) ==
  /\ posted[p][m].call = Subj(program, p, at[p])
  /\ posted[p][m].matched \/ (posted[p][m].kind = "send"
       /\ SendFunction(program[p][posted[p][m].call]) # "MPI_Ssend")
  /\ SameMail(posted[p], posted'[p]) /\ posted'[p] \in Seq(MessageRecords)
  /\ \A n \in DOMAIN posted[p] :
       /\ posted'[p][n].matched = posted[p][n].matched
       /\ posted'[p][n].open = (posted[p][n].open /\ n # m)
  /\ \A q \in Ranks \ {p} : posted'[q] = posted[q]

LEMMA FinishFacts ==
  ASSUME IInv, NEW p \in Ranks, Finish(p)
  PROVE  Does(p, "finish") /\ \E m \in DOMAIN posted[p] : Completes(p, m)
<1>1. Does(p, "finish")
  BY DEF Finish, At, Done, Does
<1>2. PICK m \in DOMAIN posted[p] :
        /\ posted[p][m].call = Promise!Subject(p, at[p])
        /\ posted[p][m].matched \/ (posted[p][m].kind = "send"
                   /\ SendFunction(program[p][posted[p][m].call]) # "MPI_Ssend")
        /\ posted' = [posted EXCEPT ![p][m].open = FALSE]
  BY DEF Finish
<1>3. PICK s : s = posted[p] /\ s \in Seq(MessageRecords) /\ m \in DOMAIN s
  BY DEF IInv, Local, Posted
<1>4. PICK u : u = [s EXCEPT ![m].open = FALSE]
  OBVIOUS
<1>5. posted'[p] = u /\ \A q \in Ranks \ {p} : posted'[q] = posted[q]
  BY <1>2, <1>3, <1>4 DEF IInv, Domains
<1>6. /\ u \in Seq(MessageRecords) /\ DOMAIN u = DOMAIN s
      /\ \A n \in DOMAIN s : n # m => u[n] = s[n]
      /\ u[m] = [s[m] EXCEPT !.open = FALSE] /\ s[m] \in MessageRecords
  <2>1. s[m] \in MessageRecords
    BY <1>3
  <2>2. [s[m] EXCEPT !.open = FALSE] \in MessageRecords
    BY <2>1 DEF MessageRecords
  <2>3. QED
    BY <1>3, <1>4, <2>1, <2>2
<1>7. /\ u[m].call = s[m].call /\ u[m].kind = s[m].kind /\ u[m].data = s[m].data
      /\ u[m].peer = s[m].peer /\ u[m].tag = s[m].tag /\ u[m].matched = s[m].matched
      /\ u[m].open = FALSE
  BY <1>6 DEF MessageRecords
<1>8. SameMail(s, u)
  BY <1>6, <1>7 DEF SameMail
<1>9. \A n \in DOMAIN s : u[n].matched = s[n].matched
  BY <1>6, <1>7
<1>10. \A n \in DOMAIN s : u[n].open = (s[n].open /\ n # m)
  <2>1. \A n \in DOMAIN s : s[n].open \in BOOLEAN
    <3>1. \A n \in DOMAIN s : s[n] \in MessageRecords
      BY <1>3
    <3>2. QED
      BY <3>1 DEF MessageRecords
  <2>2. QED
    BY <1>6, <1>7, <2>1
<1>11. posted[p][m].call = Subj(program, p, at[p])
  BY <1>2, Bridged
<1>12. Completes(p, m)
  <2>1. posted[p][m].matched \/ (posted[p][m].kind = "send"
          /\ SendFunction(program[p][posted[p][m].call]) # "MPI_Ssend")
    BY <1>2
  <2>2. SameMail(posted[p], posted'[p]) /\ posted'[p] \in Seq(MessageRecords)
    BY <1>3, <1>5, <1>6, <1>8
  <2>3. \A n \in DOMAIN posted[p] :
           /\ posted'[p][n].matched = posted[p][n].matched
           /\ posted'[p][n].open = (posted[p][n].open /\ n # m)
    BY <1>3, <1>5, <1>9, <1>10
  <2>4. QED
    BY <1>5, <1>11, <2>1, <2>2, <2>3 DEF Completes
<1>13. QED
  BY <1>1, <1>12

(* One message is marked as matched.                                       *)
Marked(P, s, R) ==
  /\ SameMail(P, R) /\ R \in Seq(MessageRecords) /\ R[s].matched
  /\ \A n \in DOMAIN P : R[n].open = P[n].open /\ (n # s => R[n].matched = P[n].matched)

LEMMA MarkOne ==
  ASSUME NEW P \in Seq(MessageRecords), NEW s \in DOMAIN P, NEW R, R = [P EXCEPT ![s].matched = TRUE]
  PROVE  Marked(P, s, R)
<1>1. P[s] \in MessageRecords
  OBVIOUS
<1>2. [P[s] EXCEPT !.matched = TRUE] \in MessageRecords
  BY <1>1 DEF MessageRecords
<1>3. /\ R \in Seq(MessageRecords) /\ DOMAIN R = DOMAIN P
      /\ \A n \in DOMAIN P : n # s => R[n] = P[n]
      /\ R[s] = [P[s] EXCEPT !.matched = TRUE]
  BY <1>2
<1>4. /\ R[s].call = P[s].call /\ R[s].kind = P[s].kind /\ R[s].data = P[s].data
      /\ R[s].peer = P[s].peer /\ R[s].tag = P[s].tag /\ R[s].open = P[s].open
      /\ R[s].matched = TRUE
  BY <1>1, <1>3 DEF MessageRecords
<1>5. SameMail(P, R)
  BY <1>3, <1>4 DEF SameMail
<1>6. QED
  BY <1>3, <1>4, <1>5 DEF Marked

-----------------------------------------------------------------------------
(* The messages that a rank has asked for.                                 *)
LEMMA MailTyped ==
  ASSUME IInv, NEW p \in Ranks
  PROVE  /\ posted[p] \in Seq(MessageRecords)
         /\ \A n \in DOMAIN posted[p] : posted[p][n] \in MessageRecords /\ posted[p][n].call \in Nat
<1>1. posted[p] \in Seq(MessageRecords)
  BY DEF IInv, Local, Posted
<1>2. \A n \in DOMAIN posted[p] : posted[p][n] \in MessageRecords
  BY <1>1
<1>3. QED
  BY <1>1, <1>2 DEF MessageRecords

LEMMA MailStays ==
  ASSUME IInv, Delivering, NEW p \in Ranks, program' = program, at'[p] = at[p], todo'[p] = todo[p],
         posted'[p] = posted[p]
  PROVE  Mail(p)'
<1>1. Mail(p)
  BY DEF Delivering
<1>2. QED
  BY <1>1 DEF Mail

LEMMA MailDoes ==
  ASSUME IInv, Delivering, NEW p \in Ranks, NEW h, Does(p, h), h \notin {"message", "finish"},
         posted'[p] = posted[p]
  PROVE  Mail(p)'
<1>1. Mail(p)
  BY DEF Delivering
<1>2. PICK g, a, t, u, P : g = program /\ a = at[p] /\ t = todo[p] /\ u = todo'[p] /\ P = posted[p]
  OBVIOUS
<1>3. /\ a \in Nat /\ at' = at /\ program' = g /\ Range(t) = {h} \union Range(u)
  BY <1>2, DoesRemain
<1>4. /\ \A n \in DOMAIN P : P[n].call \in Nat
      /\ Filed(g, p, a, t, P) /\ Closed(g, p, a, t, P)
  BY <1>1, <1>2, MailTyped DEF Mail
<1>5. Filed(g, p, a, u, P)
  <2>1. SameMail(P, P)
    BY DEF SameMail
  <2>2. "message" \in Range(t) => "message" \in Range(u)
    BY <1>3
  <2>3. QED
    BY <1>4, <2>1, <2>2, FiledFrame
<1>6. Closed(g, p, a, u, P)
  <2>1. "finish" \in Range(u) => "finish" \in Range(t)
    BY <1>3
  <2>2. QED
    BY <1>3, <1>4, <2>1, ClosedFrame
<1>7. QED
  BY <1>2, <1>3, <1>5, <1>6 DEF Mail

LEMMA MailThrows ==
  ASSUME IInv, Delivering, NEW p \in Ranks, program' = program, at'[p] = at[p], todo'[p] = <<>>,
         posted'[p] = posted[p], program[p][at[p]].fn \in Promise!Scans
  PROVE  Mail(p)'
<1>1. Mail(p)
  BY DEF Delivering
<1>2. PICK g, a, t, P : g = program /\ a = at[p] /\ t = todo[p] /\ P = posted[p]
  OBVIOUS
<1>3. a \in Nat
  BY <1>2, Here
<1>4. /\ \A n \in DOMAIN P : P[n].call \in Nat
      /\ Filed(g, p, a, t, P) /\ Closed(g, p, a, t, P)
  BY <1>1, <1>2, MailTyped DEF Mail
<1>5. Filed(g, p, a, <<>>, P)
  <2>1. SameMail(P, P)
    BY DEF SameMail
  <2>2. g[p][a].fn \notin Messages
    BY <1>2 DEF Messages, Promise!Scans, Promise!InclusiveScans, Promise!ExclusiveScans,
      Promise!Senders, Promise!Receivers
  <2>3. QED
    BY <1>4, <2>1, <2>2, FiledFrame
<1>6. Closed(g, p, a, <<>>, P)
  <2>1. Range(<<>>) = {}
    BY DEF Range
  <2>2. "finish" \in Range(<<>>) => "finish" \in Range(t)
    BY <2>1
  <2>3. QED
    BY <1>3, <1>4, <2>2, ClosedFrame
<1>7. QED
  BY <1>2, <1>5, <1>6 DEF Mail

LEMMA MailCall ==
  ASSUME IInv, Delivering, NEW p \in Ranks, Call(p)
  PROVE  Mail(p)'
<1>1. Mail(p)
  BY DEF Delivering
<1>2. PICK g, a, u, P : g = program /\ a = at[p] /\ u = todo'[p] /\ P = posted[p]
  OBVIOUS
<1>3. /\ a \in Nat /\ a + 1 \in Nat /\ at'[p] = a + 1 /\ program' = g /\ todo[p] = <<>>
      /\ g[p][a + 1].fn \in Messages => "message" \in Range(u)
  BY <1>2, CallStarts DEF Starts
<1>4. /\ \A n \in DOMAIN P : P[n].call \in Nat
      /\ Filed(g, p, a, <<>>, P) /\ Closed(g, p, a, <<>>, P)
  BY <1>1, <1>2, <1>3, MailTyped DEF Mail
<1>5. Filed(g, p, a + 1, u, P)
  BY <1>3, <1>4, FiledNext
<1>6. Closed(g, p, a + 1, u, P)
  <2>1. a < a + 1
    BY <1>3
  <2>2. QED
    BY <1>3, <1>4, <2>1, ClosedFrame
<1>7. posted' = posted
  BY DEF Call
<1>8. QED
  BY <1>2, <1>3, <1>5, <1>6, <1>7 DEF Mail

LEMMA MailMessage ==
  ASSUME IInv, Delivering, Fits(program), NEW p \in Ranks, Message(p)
  PROVE  Mail(p)'
<1>1. Mail(p) /\ Does(p, "message")
  BY MessageFacts DEF Delivering
<1>2. PICK g, a, t, u, P : g = program /\ a = at[p] /\ t = todo[p] /\ u = todo'[p] /\ P = posted[p]
  OBVIOUS
<1>3. PICK r : Asks(p, r)
  BY MessageFacts
<1>4. /\ a \in Nat /\ at' = at /\ program' = g /\ Range(t) = {"message"} \union Range(u)
  BY <1>1, <1>2, DoesRemain
<1>5. /\ P \in Seq(MessageRecords) /\ \A n \in DOMAIN P : P[n].call \in Nat
      /\ Filed(g, p, a, t, P) /\ Closed(g, p, a, t, P)
  BY <1>1, <1>2, MailTyped DEF Mail
<1>6. PICK R : R = Append(P, r) /\ posted'[p] = R
  BY <1>2, <1>3 DEF Asks
<1>7. Filed(g, p, a, u, R)
  <2>1. /\ r \in MessageRecords /\ r.call = a /\ r.peer = g[p][a].peer /\ r.tag = g[p][a].tag
        /\ r.kind = "send" => r.data = {<<p, a>>}
        /\ \A n \in DOMAIN P : P[n].call < a
    BY <1>2, <1>3 DEF Asks
  <2>2. QED
    BY <1>4, <1>5, <1>6, <2>1, FiledAppend
<1>8. Closed(g, p, a, u, R)
  <2>1. Closed(g, p, a, u, P)
    <3>1. "finish" \in Range(u) => "finish" \in Range(t)
      BY <1>4
    <3>2. QED
      BY <1>4, <1>5, <3>1, ClosedFrame
  <2>2. r \in MessageRecords /\ r.open
    BY <1>3 DEF Asks
  <2>3. QED
    BY <1>5, <1>6, <2>1, <2>2, ClosedAppend
<1>9. QED
  BY <1>2, <1>4, <1>6, <1>7, <1>8 DEF Mail

LEMMA MailFinish ==
  ASSUME IInv, Delivering, NEW p \in Ranks, Finish(p)
  PROVE  Mail(p)'
<1>1. Mail(p) /\ Does(p, "finish")
  BY FinishFacts DEF Delivering
<1>2. PICK g, a, t, u, P, R : /\ g = program /\ a = at[p] /\ t = todo[p] /\ u = todo'[p]
                              /\ P = posted[p] /\ R = posted'[p]
  OBVIOUS
<1>3. PICK m \in DOMAIN P : Completes(p, m)
  BY <1>2, FinishFacts
<1>4. /\ a \in Nat /\ a > 0 /\ at' = at /\ program' = g /\ Range(t) = {"finish"} \union Range(u)
      /\ Past(u) /\ a \in Numbers(g, p) /\ t # <<>> /\ Head(t) = "finish"
  BY <1>1, <1>2, DoesRemain
<1>5. /\ P \in Seq(MessageRecords) /\ \A n \in DOMAIN P : P[n].call \in Nat
      /\ Filed(g, p, a, t, P) /\ Closed(g, p, a, t, P)
  BY <1>1, <1>2, MailTyped DEF Mail
<1>6. /\ P[m].call = Subj(g, p, a)
      /\ P[m].matched \/ P[m].kind = "send"
      /\ SameMail(P, R)
      /\ \A n \in DOMAIN P : R[n].matched = P[n].matched /\ R[n].open = (P[n].open /\ n # m)
  BY <1>2, <1>3 DEF Completes
<1>7. Filed(g, p, a, u, R)
  <2>1. "message" \in Range(t) => "message" \in Range(u)
    BY <1>4
  <2>2. QED
    BY <1>5, <1>6, <2>1, FiledFrame
<1>8. Closed(g, p, a, u, R)
  <2>1. "finish" \notin Range(u)
    BY <1>4 DEF Past, InMpi
  <2>2. g[p][a].fn \notin Promise!Posts
    <3>1. Ordered(Current(p), t) /\ t[1] = "finish"
      BY <1>1, <1>2, Here DEF Does
    <3>2. 1 \in DOMAIN t
      BY <1>4, <3>1, TailOrdered DEF Ordered
    <3>3. Current(p).fn \notin Promise!Posts
      BY <3>1, <3>2 DEF Ordered
    <3>4. QED
      BY <1>2, <3>3 DEF Current
  <2>3. g[p][a].fn = "wait" => g[p][Subj(g, p, a)].fn \in Promise!Posts
    BY <1>2, <1>4, BringsFacts DEF IInv, Domains
  <2>4. Range(u) \subseteq Range(t)
    BY <1>4
  <2>5. P[m].kind = "recv" => P[m].matched
    BY <1>6
  <2>6. /\ DOMAIN R = DOMAIN P
        /\ \A n \in DOMAIN P : /\ R[n].call = P[n].call /\ R[n].kind = P[n].kind
                               /\ R[n].matched = P[n].matched
                               /\ n # m => R[n].open = P[n].open
    <3>1. \A n \in DOMAIN P : P[n].open \in BOOLEAN
      BY <1>2, MailTyped DEF MessageRecords
    <3>2. QED
      BY <1>6, <3>1 DEF SameMail
  <2>7. QED
    BY <1>4, <1>5, <1>6, <2>1, <2>2, <2>3, <2>4, <2>5, <2>6, ClosedFinish
<1>9. QED
  BY <1>2, <1>4, <1>7, <1>8 DEF Mail

(* A match marks a send of p and a receive of q.                           *)
Pairs(p, q, s, r) ==
  /\ s \in DOMAIN posted[p] /\ r \in DOMAIN posted[q]
  /\ LET n == posted[p][s]
         m == posted[q][r]
     IN
     /\ n.kind = "send" /\ n.peer = q /\ ~ n.matched
     /\ m.kind = "recv" /\ m.peer = p /\ ~ m.matched /\ m.tag = n.tag
     /\ \A l \in DOMAIN posted[p] : On(posted[p], l, "send", q, n.tag) /\ ~ posted[p][l].matched => s <= l
     /\ \A l \in DOMAIN posted[q] : On(posted[q], l, "recv", p, n.tag) /\ ~ posted[q][l].matched => r <= l
     /\ buf' = [buf EXCEPT ![q][RecvBuf(program, q, m.call)] = n.data]

(* Whether message n of x is one of the two.                               *)
Chosen(p, q, s, r, x, n) == (x = p /\ n = s) \/ (x = q /\ n = r)

Marking2(p, q, s, r, x) ==
  /\ SameMail(posted[x], posted'[x]) /\ posted'[x] \in Seq(MessageRecords)
  /\ \A n \in DOMAIN posted[x] :
       /\ posted'[x][n].open = posted[x][n].open
       /\ Chosen(p, q, s, r, x, n) => posted'[x][n].matched
       /\ ~ Chosen(p, q, s, r, x, n) => posted'[x][n].matched = posted[x][n].matched

LEMMA MatchFacts ==
  ASSUME IInv, NEW p \in Ranks, NEW q \in Ranks, Match(p, q)
  PROVE  /\ UNCHANGED <<program, at, todo, queue, entered, got, aborted>>
         /\ \E s, r : Pairs(p, q, s, r) /\ \A x \in Ranks : Marking2(p, q, s, r, x)
<1>1. PICK s \in DOMAIN posted[p] :
        /\ s \in Waiting(p, "send", q, posted[p][s].tag)
        /\ \A t \in Waiting(p, "send", q, posted[p][s].tag) : s <= t
        /\ \E r \in Waiting(q, "recv", p, posted[p][s].tag) :
             /\ \A t \in Waiting(q, "recv", p, posted[p][s].tag) : r <= t
             /\ posted' = [posted EXCEPT ![p][s].matched = TRUE, ![q][r].matched = TRUE]
             /\ buf' = [buf EXCEPT ![q][RecvBuffer(q, posted[q][r].call)] = posted[p][s].data]
  BY DEF Match
<1>2. PICK g : g = posted[p][s].tag
  OBVIOUS
<1>3. PICK r \in Waiting(q, "recv", p, g) :
        /\ \A t \in Waiting(q, "recv", p, g) : r <= t
        /\ posted' = [posted EXCEPT ![p][s].matched = TRUE, ![q][r].matched = TRUE]
        /\ buf' = [buf EXCEPT ![q][RecvBuffer(q, posted[q][r].call)] = posted[p][s].data]
  BY <1>1, <1>2
<1>4. /\ posted[p][s].kind = "send" /\ posted[p][s].peer = q /\ ~ posted[p][s].matched
      /\ r \in DOMAIN posted[q] /\ posted[q][r].kind = "recv" /\ posted[q][r].peer = p
      /\ ~ posted[q][r].matched /\ posted[q][r].tag = g
  BY <1>1, <1>2, <1>3 DEF Waiting
<1>5. \A l \in DOMAIN posted[p] : On(posted[p], l, "send", q, g) /\ ~ posted[p][l].matched => s <= l
  BY <1>1, <1>2 DEF Waiting, On
<1>6. \A l \in DOMAIN posted[q] : On(posted[q], l, "recv", p, g) /\ ~ posted[q][l].matched => r <= l
  BY <1>3 DEF Waiting, On
<1>7. Pairs(p, q, s, r)
  <2>1. RecvBuffer(q, posted[q][r].call) = RecvBuf(program, q, posted[q][r].call)
    BY Bridged
  <2>2. QED
    BY <1>1, <1>2, <1>3, <1>4, <1>5, <1>6, <2>1 DEF Pairs
<1>8. ASSUME NEW x \in Ranks PROVE Marking2(p, q, s, r, x)
  <2>1. PICK S, T, U : /\ S = posted /\ T = [S EXCEPT ![p][s].matched = TRUE]
                       /\ U = [T EXCEPT ![q][r].matched = TRUE]
    OBVIOUS
  <2>2. DOMAIN S = Ranks /\ \A y \in Ranks : S[y] \in Seq(MessageRecords)
    BY <2>1 DEF IInv, Domains, Local, Posted
  <2>3. posted' = U
    BY <1>3, <2>1
  <2>4. T[p] = [S[p] EXCEPT ![s].matched = TRUE] /\ \A y \in Ranks \ {p} : T[y] = S[y]
    BY <2>1, <2>2
  <2>5. Marked(S[p], s, T[p])
    BY <1>1, <2>1, <2>2, <2>4, MarkOne
  <2>6. DOMAIN T = Ranks /\ \A y \in Ranks : T[y] \in Seq(MessageRecords) /\ DOMAIN T[y] = DOMAIN S[y]
    BY <2>1, <2>2, <2>4, <2>5 DEF Marked, SameMail
  <2>7. U[q] = [T[q] EXCEPT ![r].matched = TRUE] /\ \A y \in Ranks \ {q} : U[y] = T[y]
    BY <2>1, <2>6
  <2>8. Marked(T[q], r, U[q])
    <3>1. r \in DOMAIN T[q] /\ T[q] \in Seq(MessageRecords)
      BY <1>4, <2>1, <2>6
    <3>2. QED
      BY <2>7, <3>1, MarkOne
  <2>9. /\ SameMail(S[x], T[x])
        /\ \A n \in DOMAIN S[x] :
             /\ T[x][n].open = S[x][n].open
             /\ x = p /\ n = s => T[x][n].matched
             /\ ~ (x = p /\ n = s) => T[x][n].matched = S[x][n].matched
    <3>1. CASE x = p
      BY <2>5, <3>1 DEF Marked
    <3>2. CASE x # p
      BY <2>4, <3>2 DEF SameMail
    <3>3. QED
      BY <3>1, <3>2
  <2>10. /\ SameMail(T[x], U[x]) /\ U[x] \in Seq(MessageRecords)
         /\ \A n \in DOMAIN T[x] :
              /\ U[x][n].open = T[x][n].open
              /\ x = q /\ n = r => U[x][n].matched
              /\ ~ (x = q /\ n = r) => U[x][n].matched = T[x][n].matched
    <3>1. CASE x = q
      BY <2>8, <3>1 DEF Marked
    <3>2. CASE x # q
      BY <2>6, <2>7, <3>2 DEF SameMail
    <3>3. QED
      BY <3>1, <3>2
  <2>11. SameMail(S[x], U[x]) /\ DOMAIN T[x] = DOMAIN S[x]
    BY <2>9, <2>10 DEF SameMail
  <2>12. ASSUME NEW n \in DOMAIN S[x]
         PROVE  /\ U[x][n].open = S[x][n].open
                /\ Chosen(p, q, s, r, x, n) => U[x][n].matched
                /\ ~ Chosen(p, q, s, r, x, n) => U[x][n].matched = S[x][n].matched
    BY <2>9, <2>10, <2>11, <2>12 DEF Chosen
  <2>13. QED
    BY <2>1, <2>3, <2>10, <2>11, <2>12 DEF Marking2
<1>9. UNCHANGED <<program, at, todo, queue, entered, got, aborted>>
  BY DEF Match
<1>10. QED
  BY <1>7, <1>8, <1>9

LEMMA MailMatch ==
  ASSUME IInv, Delivering, NEW p \in Ranks, NEW q \in Ranks, Match(p, q), NEW x \in Ranks
  PROVE  Mail(x)'
<1>1. PICK s, r : Pairs(p, q, s, r) /\ Marking2(p, q, s, r, x)
  BY MatchFacts
<1>2. PICK g, a, t, P, R : g = program /\ a = at[x] /\ t = todo[x] /\ P = posted[x] /\ R = posted'[x]
  OBVIOUS
<1>3. Mail(x) /\ a \in Nat
  BY <1>2, Here DEF Delivering
<1>4. /\ \A n \in DOMAIN P : P[n].call \in Nat
      /\ Filed(g, x, a, t, P) /\ Closed(g, x, a, t, P)
  BY <1>2, <1>3, MailTyped DEF Mail
<1>5. /\ SameMail(P, R)
      /\ \A n \in DOMAIN P : /\ R[n].open = P[n].open
                             /\ P[n].matched => R[n].matched
  BY <1>1, <1>2 DEF Marking2
<1>6. Filed(g, x, a, t, R)
  BY <1>4, <1>5, FiledFrame
<1>7. Closed(g, x, a, t, R)
  <2>1. /\ DOMAIN R = DOMAIN P
        /\ \A n \in DOMAIN P : R[n].call = P[n].call /\ R[n].kind = P[n].kind /\ R[n].open = P[n].open
                               /\ (P[n].matched => R[n].matched)
    BY <1>5 DEF SameMail
  <2>2. QED
    BY <1>3, <1>4, <2>1, ClosedFrame
<1>8. program' = g /\ at'[x] = a /\ todo'[x] = t
  BY <1>2 DEF Match
<1>9. QED
  BY <1>2, <1>6, <1>7, <1>8 DEF Mail

-----------------------------------------------------------------------------
(* Sends and receives between two ranks.                                   *)
LEMMA Tracked ==
  ASSUME IInv, Delivering, NEW p \in Ranks, NEW q, NEW tag
  PROVE  /\ Tracks(SendsTo(program, p, q, tag), posted[p], "send", q, tag)
         /\ Tracks(RecvsFrom(program, p, q, tag), posted[p], "recv", q, tag)
<1>1. PICK P, g : P = posted[p] /\ g = program
  OBVIOUS
<1>2. Filed(g, p, at[p], todo[p], P)
  BY <1>1 DEF Delivering, Mail
<1>3. \A l, m \in DOMAIN P : l < m => P[l].call < P[m].call
  BY <1>2 DEF Filed
<1>4. ASSUME NEW m \in DOMAIN P
      PROVE  /\ P[m].call \in Numbers(g, p)
             /\ P[m].peer = g[p][P[m].call].peer /\ P[m].tag = g[p][P[m].call].tag
             /\ P[m].kind = "send" <=> g[p][P[m].call].fn \in Promise!Senders
             /\ P[m].kind = "recv" <=> g[p][P[m].call].fn \in Promise!Receivers
  <2>1. PICK n, c : n = P[m] /\ c = g[p][n.call]
    OBVIOUS
  <2>2. Sent(p, n) /\ n \in MessageRecords
    BY <1>1, <2>1, MailTyped DEF IInv, Local, Posted
  <2>3. n.call \in Numbers(g, p)
    BY <1>1, <2>2, Here DEF Sent, Numbers
  <2>4. n.peer = c.peer /\ n.tag = c.tag
    BY <1>2, <2>1 DEF Filed
  <2>5. n.kind \in {"send", "recv"} /\ (n.kind = "send" <=> c.fn \in Promise!Senders)
        /\ c.fn \in Messages
    BY <1>1, <2>1, <2>2 DEF Sent, MessageRecords
  <2>6. n.kind = "recv" <=> c.fn \in Promise!Receivers
    BY <2>5 DEF Messages, Promise!Senders, Promise!Receivers
  <2>7. QED
    BY <2>1, <2>3, <2>4, <2>5, <2>6
<1>5. \A m \in DOMAIN P : On(P, m, "send", q, tag) <=> P[m].call \in SendsTo(g, p, q, tag)
  BY <1>4 DEF On, SendsTo, Along
<1>6. \A m \in DOMAIN P : On(P, m, "recv", q, tag) <=> P[m].call \in RecvsFrom(g, p, q, tag)
  BY <1>4 DEF On, RecvsFrom, Along
<1>7. QED
  BY <1>1, <1>3, <1>5, <1>6 DEF Tracks

LEMMA PostedBefore ==
  ASSUME IInv, Delivering, NEW p \in Ranks, NEW S,
         \A i \in S : i \in Numbers(program, p) /\ program[p][i].fn \in Messages,
         NEW s \in DOMAIN posted[p], NEW i \in S, i <= posted[p][s].call
  PROVE  \E l \in DOMAIN posted[p] : posted[p][l].call = i
<1>1. PICK P, a, t, c : P = posted[p] /\ a = at[p] /\ t = todo[p] /\ c = P[s].call
  OBVIOUS
<1>2. Filed(program, p, a, t, P)
  BY <1>1 DEF Delivering, Mail
<1>3. PICK n : n = P[s] /\ Sent(p, n)
  BY <1>1 DEF IInv, Local, Posted
<1>4. c \in 1 .. a /\ (c = a => "message" \notin Range(t)) /\ a \in Nat
  BY <1>1, <1>3, Here DEF Sent, Left
<1>5. i \in 1 .. a /\ (i = a => c = a)
  BY <1>1, <1>4 DEF Numbers
<1>6. Asked(i, a, t, "message")
  BY <1>4, <1>5 DEF Asked
<1>7. program[p][i].fn \in Messages
  OBVIOUS
<1>8. QED
  BY <1>1, <1>2, <1>5, <1>6, <1>7 DEF Filed

Kept(x) ==
  \/ /\ SameMail(posted[x], posted'[x])
     /\ \A n \in DOMAIN posted[x] : posted'[x][n].matched = posted[x][n].matched
  \/ at[x] \in Numbers(program, x) /\ \E r : Asks(x, r)

LEMMA SideKept ==
  ASSUME IInv, Delivering, NEW x \in Ranks, Kept(x), NEW y \in Ranks, NEW tag, NEW n \in Nat
  PROVE  /\ Side(SendsTo(program, x, y, tag), posted[x], "send", y, tag, n) =>
              Side(SendsTo(program, x, y, tag), posted'[x], "send", y, tag, n)
         /\ Side(RecvsFrom(program, x, y, tag), posted[x], "recv", y, tag, n) =>
              Side(RecvsFrom(program, x, y, tag), posted'[x], "recv", y, tag, n)
<1>1. PICK P, R, g : P = posted[x] /\ R = posted'[x] /\ g = program
  OBVIOUS
<1>2. g \in Programs
  BY <1>1 DEF IInv, Domains
<1>3. ASSUME NEW kind, NEW S, Side(S, P, kind, y, tag, n), Tracks(S, P, kind, y, tag), Counted(S),
             \A i \in Numbers(g, x) :
               g[x][i].peer = y /\ g[x][i].tag = tag
               /\ kind = (IF g[x][i].fn \in Promise!Senders THEN "send" ELSE "recv")
               /\ g[x][i].fn \in Messages => i \in S
      PROVE  Side(S, R, kind, y, tag, n)
  <2>1. CASE SameMail(P, R) /\ \A m \in DOMAIN P : R[m].matched = P[m].matched
    BY <1>3, <2>1, SideFrame
  <2>2. ASSUME NEW r, Asks(x, r), at[x] \in Numbers(g, x) PROVE Side(S, R, kind, y, tag, n)
    <3>1. /\ r \in MessageRecords /\ ~ r.matched /\ \A l \in DOMAIN P : P[l].call < r.call
          /\ R = Append(P, r)
      BY <1>1, <2>2 DEF Asks
    <3>2. r.kind = kind /\ r.peer = y /\ r.tag = tag => r.call \in S
      <4>1. PICK i : i = at[x]
        OBVIOUS
      <4>2. /\ r.call = i /\ r.peer = g[x][i].peer /\ r.tag = g[x][i].tag
            /\ r.kind = (IF g[x][i].fn \in Promise!Senders THEN "send" ELSE "recv")
            /\ g[x][i].fn \in Messages
        BY <1>1, <2>2, <4>1 DEF Asks
      <4>3. QED
        BY <1>3, <2>2, <4>1, <4>2
    <3>3. P \in Seq(MessageRecords)
      BY <1>1, MailTyped
    <3>4. QED
      BY <1>3, <3>1, <3>2, <3>3, SideAppend
  <2>3. QED
    BY <1>1, <2>1, <2>2 DEF Kept
<1>4. /\ Counted(SendsTo(g, x, y, tag)) /\ Counted(RecvsFrom(g, x, y, tag))
      /\ Tracks(SendsTo(g, x, y, tag), P, "send", y, tag)
      /\ Tracks(RecvsFrom(g, x, y, tag), P, "recv", y, tag)
  BY <1>1, <1>2, CountedCalls, Tracked DEF SendsTo, RecvsFrom
<1>5. \A i \in Numbers(g, x) :
        g[x][i].peer = y /\ g[x][i].tag = tag
        /\ "send" = (IF g[x][i].fn \in Promise!Senders THEN "send" ELSE "recv")
        /\ g[x][i].fn \in Messages => i \in SendsTo(g, x, y, tag)
  BY DEF SendsTo, Along
<1>6. \A i \in Numbers(g, x) :
        g[x][i].peer = y /\ g[x][i].tag = tag
        /\ "recv" = (IF g[x][i].fn \in Promise!Senders THEN "send" ELSE "recv")
        /\ g[x][i].fn \in Messages => i \in RecvsFrom(g, x, y, tag)
  BY DEF RecvsFrom, Along, Messages
<1>7. Side(SendsTo(g, x, y, tag), P, "send", y, tag, n) =>
        Side(SendsTo(g, x, y, tag), R, "send", y, tag, n)
  BY <1>3, <1>4, <1>5
<1>8. Side(RecvsFrom(g, x, y, tag), P, "recv", y, tag, n) =>
        Side(RecvsFrom(g, x, y, tag), R, "recv", y, tag, n)
  BY <1>3, <1>4, <1>6
<1>9. QED
  BY <1>1, <1>7, <1>8

LEMMA PairedKept ==
  ASSUME IInv, Delivering, NEW p \in Ranks, NEW q \in Ranks, Kept(p), Kept(q), NEW tag \in Nat,
         program' = program
  PROVE  Paired(program, p, q, tag, posted[p], posted[q])'
<1>1. PICK n \in Nat :
        /\ Side(SendsTo(program, p, q, tag), posted[p], "send", q, tag, n)
        /\ Side(RecvsFrom(program, q, p, tag), posted[q], "recv", p, tag, n)
  BY DEF Delivering, Paired
<1>2. /\ Side(SendsTo(program, p, q, tag), posted'[p], "send", q, tag, n)
      /\ Side(RecvsFrom(program, q, p, tag), posted'[q], "recv", p, tag, n)
  BY <1>1, SideKept
<1>3. Paired(program, p, q, tag, posted'[p], posted'[q])
  BY <1>2 DEF Paired
<1>4. QED
  BY <1>3

LEMMA PairedMatch ==
  ASSUME IInv, Delivering, NEW x \in Ranks, NEW y \in Ranks, Match(x, y),
         NEW p \in Ranks, NEW q \in Ranks, NEW tag \in Nat
  PROVE  Paired(program, p, q, tag, posted[p], posted[q])'
<1>1. PICK s, r : Pairs(x, y, s, r) /\ \A z \in Ranks : Marking2(x, y, s, r, z)
  BY MatchFacts
<1>2. PICK P, R, P2, R2, g, S, T :
        /\ P = posted[p] /\ R = posted[q] /\ P2 = posted'[p] /\ R2 = posted'[q] /\ g = program
        /\ S = SendsTo(g, p, q, tag) /\ T = RecvsFrom(g, q, p, tag)
  OBVIOUS
<1>3. PICK n \in Nat : Side(S, P, "send", q, tag, n) /\ Side(T, R, "recv", p, tag, n)
  BY <1>2 DEF Delivering, Paired
<1>4. /\ Tracks(S, P, "send", q, tag) /\ Tracks(T, R, "recv", p, tag)
      /\ Counted(S) /\ Counted(T) /\ P \in Seq(MessageRecords) /\ R \in Seq(MessageRecords)
  <2>1. g \in Programs
    BY <1>2 DEF IInv, Domains
  <2>2. QED
    BY <1>2, <2>1, Tracked, CountedCalls, MailTyped DEF SendsTo, RecvsFrom
<1>5. /\ Marking2(x, y, s, r, p) /\ Marking2(x, y, s, r, q)
      /\ SameMail(P, P2) /\ SameMail(R, R2)
  BY <1>1, <1>2 DEF Marking2
<1>6. CASE p = x /\ q = y /\ posted[x][s].tag = tag
  <2>1. /\ s \in DOMAIN P /\ On(P, s, "send", q, tag) /\ ~ P[s].matched
        /\ \A l \in DOMAIN P : On(P, l, "send", q, tag) /\ ~ P[l].matched => s <= l
        /\ r \in DOMAIN R /\ On(R, r, "recv", p, tag) /\ ~ R[r].matched
        /\ \A l \in DOMAIN R : On(R, l, "recv", p, tag) /\ ~ R[l].matched => r <= l
    BY <1>1, <1>2, <1>6 DEF Pairs, On
  <2>2. PICK P1, R1 : P1 = [P EXCEPT ![s].matched = TRUE] /\ R1 = [R EXCEPT ![r].matched = TRUE]
    OBVIOUS
  <2>3. Marked(P, s, P1) /\ Marked(R, r, R1)
    BY <1>4, <2>1, <2>2, MarkOne
  <2>4. Side(S, P1, "send", q, tag, n + 1)
    <3>1. \A i \in S : i <= P[s].call => \E l \in DOMAIN P : P[l].call = i
      <4>1. \A i \in S : i \in Numbers(program, p) /\ program[p][i].fn \in Messages
        BY <1>2 DEF SendsTo, Along, Messages
      <4>2. QED
        BY <1>2, <2>1, <4>1, PostedBefore
    <3>2. SameMail(P, P1) /\ P1[s].matched /\ \A l \in DOMAIN P : l # s => P1[l].matched = P[l].matched
      BY <2>3 DEF Marked
    <3>3. QED
      BY <1>3, <1>4, <2>1, <3>1, <3>2, SideMatch
  <2>5. Side(T, R1, "recv", p, tag, n + 1)
    <3>1. \A i \in T : i <= R[r].call => \E l \in DOMAIN R : R[l].call = i
      <4>1. \A i \in T : i \in Numbers(program, q) /\ program[q][i].fn \in Messages
        BY <1>2 DEF RecvsFrom, Along, Messages
      <4>2. QED
        BY <1>2, <2>1, <4>1, PostedBefore
    <3>2. SameMail(R, R1) /\ R1[r].matched /\ \A l \in DOMAIN R : l # r => R1[l].matched = R[l].matched
      BY <2>3 DEF Marked
    <3>3. QED
      BY <1>3, <1>4, <2>1, <3>1, <3>2, SideMatch
  <2>6. Side(S, P2, "send", q, tag, n + 1)
    <3>1. SameMail(P1, P2)
      BY <1>5, <2>3 DEF Marked, SameMail
    <3>2. ASSUME NEW m \in DOMAIN P1, On(P1, m, "send", q, tag) PROVE P2[m].matched = P1[m].matched
      <4>1. m \in DOMAIN P /\ P[m].kind = "send" /\ P[m] \in MessageRecords
        BY <1>4, <2>3, <3>2 DEF Marked, SameMail, On
      <4>2. m # s => P1[m].matched = P[m].matched /\ ~ Chosen(x, y, s, r, p, m)
        BY <1>1, <1>2, <1>6, <2>3, <4>1 DEF Marked, Chosen, Pairs
      <4>3. m # s => P2[m].matched = P[m].matched
        BY <1>2, <1>5, <4>1, <4>2 DEF Marking2
      <4>4. m = s => P2[m].matched /\ P1[m].matched /\ P2[m] \in MessageRecords /\ P1[m] \in MessageRecords
        <5>1. ASSUME m = s PROVE P2[m].matched /\ P1[m].matched
          BY <1>2, <1>5, <1>6, <2>3, <4>1, <5>1 DEF Marking2, Marked, Chosen
        <5>2. P2 \in Seq(MessageRecords) /\ P1 \in Seq(MessageRecords) /\ m \in DOMAIN P1 /\ m \in DOMAIN P2
          BY <1>2, <1>5, <2>3, <4>1 DEF Marking2, Marked, SameMail
        <5>3. QED
          BY <5>1, <5>2
      <4>5. QED
        BY <4>2, <4>3, <4>4 DEF MessageRecords
    <3>3. QED
      BY <2>4, <3>1, <3>2, SideFrame
  <2>7. Side(T, R2, "recv", p, tag, n + 1)
    <3>1. SameMail(R1, R2)
      BY <1>5, <2>3 DEF Marked, SameMail
    <3>2. ASSUME NEW m \in DOMAIN R1, On(R1, m, "recv", p, tag) PROVE R2[m].matched = R1[m].matched
      <4>1. m \in DOMAIN R /\ R[m].kind = "recv" /\ R[m] \in MessageRecords
        BY <1>4, <2>3, <3>2 DEF Marked, SameMail, On
      <4>2. m # r => R1[m].matched = R[m].matched /\ ~ Chosen(x, y, s, r, q, m)
        BY <1>1, <1>2, <1>6, <2>3, <4>1 DEF Marked, Chosen, Pairs
      <4>3. m # r => R2[m].matched = R[m].matched
        BY <1>2, <1>5, <4>1, <4>2 DEF Marking2
      <4>4. m = r => R2[m].matched /\ R1[m].matched /\ R2[m] \in MessageRecords /\ R1[m] \in MessageRecords
        <5>1. ASSUME m = r PROVE R2[m].matched /\ R1[m].matched
          BY <1>2, <1>5, <1>6, <2>3, <4>1, <5>1 DEF Marking2, Marked, Chosen
        <5>2. R2 \in Seq(MessageRecords) /\ R1 \in Seq(MessageRecords) /\ m \in DOMAIN R1 /\ m \in DOMAIN R2
          BY <1>2, <1>5, <2>3, <4>1 DEF Marking2, Marked, SameMail
        <5>3. QED
          BY <5>1, <5>2
      <4>5. QED
        BY <4>2, <4>3, <4>4 DEF MessageRecords
    <3>3. QED
      BY <2>5, <3>1, <3>2, SideFrame
  <2>8. n + 1 \in Nat
    OBVIOUS
  <2>9. Paired(g, p, q, tag, P2, R2)
    BY <1>2, <2>6, <2>7, <2>8 DEF Paired
  <2>10. QED
    BY <1>2, <2>9 DEF Match
<1>7. CASE ~ (p = x /\ q = y /\ posted[x][s].tag = tag)
  <2>1. ASSUME NEW m \in DOMAIN P, On(P, m, "send", q, tag) PROVE P2[m].matched = P[m].matched
    <3>1. P[m].kind = "send" /\ P[m].peer = q /\ P[m].tag = tag
      BY <2>1 DEF On
    <3>2. ~ Chosen(x, y, s, r, p, m)
      BY <1>1, <1>2, <1>7, <3>1 DEF Chosen, Pairs
    <3>3. QED
      BY <1>2, <1>5, <3>2 DEF Marking2
  <2>2. ASSUME NEW m \in DOMAIN R, On(R, m, "recv", p, tag) PROVE R2[m].matched = R[m].matched
    <3>1. R[m].kind = "recv" /\ R[m].peer = p /\ R[m].tag = tag
      BY <2>2 DEF On
    <3>2. ~ Chosen(x, y, s, r, q, m)
      BY <1>1, <1>2, <1>7, <3>1 DEF Chosen, Pairs
    <3>3. QED
      BY <1>2, <1>5, <3>2 DEF Marking2
  <2>3. Side(S, P2, "send", q, tag, n) /\ Side(T, R2, "recv", p, tag, n)
    BY <1>3, <1>5, <2>1, <2>2, SideFrame
  <2>4. Paired(g, p, q, tag, P2, R2)
    BY <1>2, <2>3 DEF Paired
  <2>5. QED
    BY <1>2, <2>4 DEF Match
<1>8. QED
  BY <1>6, <1>7

-----------------------------------------------------------------------------
(* Collectives.                                                            *)
LEMMA Appended ==
  ASSUME NEW V, NEW E \in Seq(V), NEW x \in V
  PROVE  /\ Len(Append(E, x)) = Len(E) + 1 /\ Append(E, x)[Len(E) + 1] = x
         /\ \A k \in 1 .. Len(E) : Append(E, x)[k] = E[k]
  OBVIOUS

LEMMA EntriesDoes ==
  ASSUME IInv, Delivering, NEW p \in Ranks, NEW h, Does(p, h), h # "collective",
         entered'[p] = entered[p]
  PROVE  Entries(program, p, at[p], todo[p], entered[p])'
<1>1. PICK g, a, t, u, E : /\ g = program /\ a = at[p] /\ t = todo[p] /\ u = todo'[p]
                           /\ E = entered[p]
  OBVIOUS
<1>2. at' = at /\ program' = g /\ Range(t) = {h} \union Range(u)
  BY <1>1, DoesRemain
<1>3. Entries(g, p, a, t, E)
  BY <1>1 DEF Delivering
<1>4. "collective" \in Range(t) <=> "collective" \in Range(u)
  BY <1>2
<1>5. \A i : Asked(i, a, u, "collective") <=> Asked(i, a, t, "collective")
  BY <1>4 DEF Asked
<1>6. Entries(g, p, a, u, E)
  BY <1>3, <1>4, <1>5 DEF Entries
<1>7. QED
  BY <1>1, <1>2, <1>6

LEMMA EntriesCall ==
  ASSUME IInv, Delivering, NEW p \in Ranks, Call(p)
  PROVE  Entries(program, p, at[p], todo[p], entered[p])'
<1>1. PICK g, a, u, E : g = program /\ a = at[p] /\ u = todo'[p] /\ E = entered[p]
  OBVIOUS
<1>2. /\ a \in Nat /\ a + 1 \in Nat /\ at'[p] = a + 1 /\ program' = g /\ todo[p] = <<>>
      /\ "collective" \in Range(u) <=> g[p][a + 1].fn \notin Promise!PointToPoint
      /\ a + 1 \in Numbers(g, p)
  BY <1>1, CallStarts DEF Starts
<1>3. Entries(g, p, a, <<>>, E)
  BY <1>1, <1>2 DEF Delivering
<1>4. Range(<<>>) = {}
  BY DEF Range
<1>5. "collective" \in Range(u) <=> a + 1 \in Colls(g, p)
  BY <1>2 DEF Colls
<1>6. /\ Counted(Taken(g, p)) /\ Taken(g, p) \subseteq Colls(g, p)
      /\ \A i \in Colls(g, p) : i \in Nat
  <2>1. g \in Programs
    BY <1>1 DEF IInv, Domains
  <2>2. Counted(Taken(g, p)) /\ Taken(g, p) \subseteq Colls(g, p) /\ Counted(Colls(g, p))
    BY <2>1, CountedCalls
  <2>3. \A i \in Colls(g, p) : i \in Nat
    BY <2>2 DEF Counted
  <2>4. QED
    BY <2>2, <2>3
<1>7. ASSUME NEW i \in Colls(g, p), Asked(i, a + 1, u, "collective")
      PROVE  Asked(i, a, <<>>, "collective")
  <2>1. i # a + 1
    BY <1>5, <1>7 DEF Asked
  <2>2. i <= a
    BY <1>2, <1>6, <1>7, <2>1 DEF Asked
  <2>3. QED
    BY <1>4, <2>2 DEF Asked
<1>8. Len(E) = Place(Taken(g, p), IF "collective" \in Range(u) THEN a + 1 - 1 ELSE a + 1)
  <2>1. Len(E) = Place(Taken(g, p), a)
    BY <1>3, <1>4 DEF Entries
  <2>2. CASE "collective" \in Range(u)
    <3>1. a + 1 - 1 = a
      BY <1>2
    <3>2. QED
      BY <2>1, <2>2, <3>1
  <2>3. CASE "collective" \notin Range(u)
    <3>1. a + 1 \notin Taken(g, p)
      BY <1>5, <1>6, <2>3
    <3>2. Place(Taken(g, p), a + 1) = Place(Taken(g, p), a)
      BY <1>2, <1>6, <3>1, PlaceNext
    <3>3. QED
      BY <2>1, <2>3, <3>2
  <2>4. QED
    BY <2>2, <2>3
<1>9. Entries(g, p, a + 1, u, E)
  <2>1. \A i \in Taken(g, p) :
          Asked(i, a + 1, u, "collective") => E[Place(Taken(g, p), i)] = Own(g, p, i)
    BY <1>3, <1>6, <1>7 DEF Entries
  <2>2. \A i \in Colls(g, p) :
          Asked(i, a + 1, u, "collective") => i \in Taken(g, p) \/ g[p][i].fn \in Promise!Scans
    BY <1>3, <1>7 DEF Entries
  <2>3. PICK n : n = a + 1
    OBVIOUS
  <2>4. Len(E) = Place(Taken(g, p), IF "collective" \in Range(u) THEN n - 1 ELSE n)
    <3>1. CASE "collective" \in Range(u)
      <4>1. Len(E) = Place(Taken(g, p), a + 1 - 1)
        BY <1>8, <3>1, Zenon
      <4>2. (IF "collective" \in Range(u) THEN n - 1 ELSE n) = a + 1 - 1
        BY <1>2, <2>3, <3>1
      <4>3. QED
        BY <4>1, <4>2, Zenon
    <3>2. CASE "collective" \notin Range(u)
      <4>1. Len(E) = Place(Taken(g, p), a + 1)
        BY <1>8, <3>2, Zenon
      <4>2. (IF "collective" \in Range(u) THEN n - 1 ELSE n) = a + 1
        BY <1>2, <2>3, <3>2
      <4>3. QED
        BY <4>1, <4>2, Zenon
    <3>3. QED
      BY <3>1, <3>2
  <2>5. Entries(g, p, n, u, E)
    BY <2>1, <2>2, <2>3, <2>4, Zenon DEF Entries
  <2>6. QED
    BY <2>3, <2>5
<1>10. entered' = entered
  BY DEF Call
<1>11. QED
  BY <1>1, <1>2, <1>9, <1>10

LEMMA EntriesThrows ==
  ASSUME IInv, Delivering, NEW p \in Ranks, program' = program, at'[p] = at[p], todo'[p] = <<>>,
         entered'[p] = entered[p], program[p][at[p]].fn \in Promise!Scans,
         ~ Takes(program[p][at[p]]), at[p] > 0
  PROVE  Entries(program, p, at[p], todo[p], entered[p])'
<1>1. PICK g, a, t, E : g = program /\ a = at[p] /\ t = todo[p] /\ E = entered[p]
  OBVIOUS
<1>2. a \in Nat /\ a > 0 /\ Entries(g, p, a, t, E)
  BY <1>1, Here DEF Delivering
<1>3. Range(<<>>) = {}
  BY DEF Range
<1>4. a \notin Taken(g, p)
  BY <1>1 DEF Taken
<1>5. Counted(Taken(g, p))
  <2>1. g \in Programs
    BY <1>1 DEF IInv, Domains
  <2>2. QED
    BY <2>1, CountedCalls
<1>6. Place(Taken(g, p), a) = Place(Taken(g, p), a - 1)
  <2>1. a - 1 \in Nat /\ (a - 1) + 1 = a
    BY <1>2
  <2>2. PICK b : b = a - 1
    OBVIOUS
  <2>3. QED
    BY <1>4, <1>5, <2>1, <2>2, PlaceNext
<1>7. Len(E) = Place(Taken(g, p), a)
  BY <1>2, <1>6 DEF Entries
<1>8. \A i : Asked(i, a, <<>>, "collective") => i = a \/ Asked(i, a, t, "collective")
  BY DEF Asked
<1>9. Entries(g, p, a, <<>>, E)
  <2>1. Len(E) = Place(Taken(g, p), IF "collective" \in Range(<<>>) THEN a - 1 ELSE a)
    BY <1>3, <1>7
  <2>2. \A i \in Taken(g, p) :
          Asked(i, a, <<>>, "collective") => E[Place(Taken(g, p), i)] = Own(g, p, i)
    BY <1>2, <1>4, <1>8 DEF Entries
  <2>3. \A i \in Colls(g, p) :
          Asked(i, a, <<>>, "collective") => i \in Taken(g, p) \/ g[p][i].fn \in Promise!Scans
    BY <1>1, <1>2, <1>8 DEF Entries
  <2>4. QED
    BY <2>1, <2>2, <2>3 DEF Entries
<1>10. QED
  BY <1>1, <1>9

(* The number of the collective that p is in.                              *)
LEMMA InCollective ==
  ASSUME IInv, Aligning, Delivering, NEW p \in Ranks, NEW h \in {"collective", "leave"}, Does(p, h)
  PROVE  at[p] \in Taken(program, p) /\ program[p][at[p]].fn \notin Promise!PointToPoint
<1>1. at[p] \in Numbers(program, p) /\ Takes(program[p][at[p]])
  BY DoesRemain, TakesInMpi DEF InMpi
<1>2. Current(p).fn \notin Promise!PointToPoint
  <2>1. Ordered(Current(p), todo[p]) /\ todo[p] # <<>> /\ todo[p][1] = h
    BY Here DEF Does
  <2>2. 1 \in DOMAIN todo[p]
    BY <2>1, TailOrdered DEF Ordered
  <2>3. QED
    BY <2>1, <2>2 DEF Ordered
<1>3. QED
  BY <1>1, <1>2 DEF Current, Taken, Colls

LEMMA EntriesEnter ==
  ASSUME IInv, Aligning, Delivering, NEW p \in Ranks, Enter(p)
  PROVE  Entries(program, p, at[p], todo[p], entered[p])'
<1>1. Does(p, "collective")
  BY DEF Enter, At, Done, Does
<1>2. PICK g, a, t, u, E : /\ g = program /\ a = at[p] /\ t = todo[p] /\ u = todo'[p]
                           /\ E = entered[p]
  OBVIOUS
<1>3. /\ at' = at /\ program' = g /\ a \in Nat /\ a > 0
      /\ Range(t) = {"collective"} \union Range(u) /\ "collective" \notin Range(u)
  BY <1>1, <1>2, DoesRemain
<1>4. Entries(g, p, a, t, E) /\ E \in Seq(SUBSET (Ranks \X Nat))
  BY <1>2 DEF Delivering, IInv, Memory
<1>5. PICK T : T = Taken(g, p)
  OBVIOUS
<1>6. a \in T /\ Counted(T) /\ \A i \in T : i \in Nat /\ i > 0
  <2>1. g \in Programs
    BY <1>2 DEF IInv, Domains
  <2>2. Counted(T)
    BY <1>5, <2>1, CountedCalls
  <2>3. QED
    BY <1>1, <1>2, <1>5, <2>2, InCollective DEF Counted
<1>7. PICK F, x : F = Append(E, x) /\ x = Own(g, p, a) /\ entered'[p] = F /\ x \in SUBSET (Ranks \X Nat)
  <2>1. entered'[p] = Append(E, Contribution(p, a))
    BY <1>2 DEF Enter, IInv, Domains
  <2>2. Contribution(p, a) = Own(g, p, a)
    BY <1>1, <1>2, OwnData
  <2>3. Contribution(p, a) \in SUBSET (Ranks \X Nat)
    BY <1>1, <1>2, DoesFacts, Contributed
  <2>4. QED
    BY <2>1, <2>2, <2>3
<1>8. PICK n : n = Len(E) /\ n \in Nat /\ n = Place(T, a - 1)
  BY <1>3, <1>4, <1>5 DEF Entries
<1>9. Place(T, a) = n + 1
  <2>1. PICK b : b = a - 1 /\ b \in Nat /\ b + 1 = a
    BY <1>3
  <2>2. QED
    BY <1>6, <1>8, <2>1, PlaceNext
<1>10. Len(F) = n + 1 /\ F[n + 1] = x /\ \A k \in 1 .. n : F[k] = E[k]
  <2>1. PICK V : V = SUBSET (Ranks \X Nat)
    OBVIOUS
  <2>2. E \in Seq(V) /\ x \in V
    BY <1>4, <1>7, <2>1, Zenon
  <2>3. F = Append(E, x) /\ n = Len(E)
    BY <1>7, <1>8, Zenon
  <2>4. /\ Len(Append(E, x)) = Len(E) + 1 /\ Append(E, x)[Len(E) + 1] = x
        /\ \A k \in 1 .. Len(E) : Append(E, x)[k] = E[k]
    BY <2>2, Appended, Zenon
  <2>5. QED
    BY <2>3, <2>4, Zenon
<1>11. ASSUME NEW i \in T, i <= a PROVE F[Place(T, i)] = Own(g, p, i)
  <2>1. CASE i = a
    BY <1>7, <1>9, <1>10, <2>1
  <2>2. CASE i # a
    <3>1. Asked(i, a, t, "collective")
      BY <1>11, <2>2 DEF Asked
    <3>2. E[Place(T, i)] = Own(g, p, i)
      BY <1>4, <1>5, <3>1 DEF Entries
    <3>3. Place(T, i) \in 1 .. n
      <4>1. i \in Int /\ a \in Int /\ a \in T /\ i # a
        BY <1>3, <1>6, <2>2
      <4>2. Place(T, i) < Place(T, a) /\ Place(T, i) \in Nat /\ Place(T, i) > 0
        BY <1>6, <1>11, <4>1, PlaceGrows, PlacePositive
      <4>3. QED
        BY <1>8, <1>9, <4>2
    <3>4. QED
      BY <1>10, <3>2, <3>3
  <2>3. QED
    BY <2>1, <2>2
<1>12. Entries(g, p, a, u, F)
  <2>1. Len(F) = Place(T, IF "collective" \in Range(u) THEN a - 1 ELSE a)
    BY <1>3, <1>9, <1>10
  <2>2. \A i \in T : Asked(i, a, u, "collective") => F[Place(T, i)] = Own(g, p, i)
    BY <1>11 DEF Asked
  <2>3. \A i \in Colls(g, p) :
          Asked(i, a, u, "collective") => i \in T \/ g[p][i].fn \in Promise!Scans
    <3>1. \A i : Asked(i, a, u, "collective") => i = a \/ Asked(i, a, t, "collective")
      BY DEF Asked
    <3>2. QED
      BY <1>4, <1>5, <1>6, <3>1 DEF Entries
  <2>4. QED
    BY <1>5, <2>1, <2>2, <2>3 DEF Entries
<1>13. QED
  BY <1>2, <1>3, <1>7, <1>12

(* A rank that has entered as many collectives as p has entered the one    *)
(* that p is leaving.                                                      *)
LEMMA EnteredMeets ==
  ASSUME IInv, Aligning, Delivering, Fits(program), NEW p \in Ranks, Does(p, "leave"),
         NEW q \in Ranks, Len(entered[q]) >= Len(entered[p])
  PROVE  \E j \in 1 .. at[q] :
           /\ Meets(program, p, at[p], q, j) /\ SamePlace(Colls(program, p), at[p], Colls(program, q), j)
           /\ entered[q][Len(entered[p])] = Own(program, q, j)
<1>1. PICK g, a, b, t, u, E, F : /\ g = program /\ a = at[p] /\ b = at[q] /\ t = todo[p] /\ u = todo[q]
                                 /\ E = entered[p] /\ F = entered[q]
  OBVIOUS
<1>2. PICK A, B, S, T : A = Taken(g, p) /\ B = Taken(g, q) /\ S = Colls(g, p) /\ T = Colls(g, q)
  OBVIOUS
<1>3. /\ Counted(A) /\ Counted(B) /\ Counted(S) /\ Counted(T) /\ A \subseteq S /\ B \subseteq T
      /\ g \in Programs
  <2>1. g \in Programs
    BY <1>1 DEF IInv, Domains
  <2>2. QED
    BY <1>2, <2>1, CountedCalls
<1>4. /\ a \in A /\ g[p][a].fn \notin Promise!PointToPoint /\ "collective" \notin Range(t) /\ a \in Nat
      /\ b \in Nat
  BY <1>1, <1>2, InCollective, DoesRemain, Here
<1>5. Entries(g, p, a, t, E) /\ Entries(g, q, b, u, F)
  BY <1>1 DEF Delivering
<1>6. Len(E) = Place(A, a) /\ Place(A, a) \in Nat /\ Place(A, a) > 0
  BY <1>2, <1>3, <1>4, <1>5, PlacePositive DEF Entries
<1>7. PICK n : n = Len(E)
  OBVIOUS
<1>8. PICK m : m \in Nat /\ m <= b /\ Len(F) = Place(B, m) /\ (m = b => "collective" \notin Range(u))
  <2>1. CASE "collective" \in Range(u)
    <3>1. b > 0
      <4>1. u # <<>>
        BY <2>1 DEF Range
      <4>2. QED
        BY <1>1, <4>1, Here
    <3>2. b - 1 \in Nat /\ b - 1 <= b /\ b - 1 # b
      BY <1>4, <3>1
    <3>3. Len(F) = Place(B, b - 1)
      BY <1>2, <1>5, <2>1 DEF Entries
    <3>4. QED
      BY <3>2, <3>3
  <2>2. CASE "collective" \notin Range(u)
    BY <1>2, <1>4, <1>5, <2>2 DEF Entries
  <2>3. QED
    BY <2>1, <2>2
<1>9. PICK j \in B : j <= m /\ Place(B, j) = n
  <2>1. Place(B, m) \in Nat
    BY <1>3, UptoFinite
  <2>2. Len(F) >= Len(E)
    BY <1>1
  <2>3. n \in 1 .. Place(B, m)
    BY <1>6, <1>7, <1>8, <2>1, <2>2
  <2>4. QED
    BY <1>3, <1>8, <2>3, PlaceTaken
<1>10. j \in 1 .. b /\ j \in Nat
  BY <1>3, <1>4, <1>8, <1>9 DEF Counted
<1>11. ASSUME NEW x \in S, NEW y \in T, x <= a, y <= j, Place(S, x) = Place(T, y)
       PROVE  x \in A <=> y \in B
  <2>1. /\ \A K \in Kinds : g[p][x].fn \in K <=> g[q][y].fn \in K
        /\ g[p][x].fn \in Promise!Scans => (Takes(g[p][x]) <=> Takes(g[q][y]))
    BY <1>1, <1>2, <1>11 DEF Fits
  <2>2. g[p][x].fn \in Promise!Scans <=> g[q][y].fn \in Promise!Scans
    BY <2>1 DEF Kinds, Promise!Scans
  <2>3. CASE g[p][x].fn \in Promise!Scans
    BY <1>2, <2>1, <2>3 DEF Taken
  <2>4. CASE g[p][x].fn \notin Promise!Scans
    <3>1. Asked(x, a, t, "collective")
      BY <1>4, <1>11 DEF Asked
    <3>2. x \in A
      BY <1>2, <1>5, <2>4, <3>1 DEF Entries
    <3>3. y \in Nat
      BY <1>3, <1>11 DEF Counted
    <3>4. y <= b /\ (y = b => m = b)
      BY <1>4, <1>8, <1>9, <1>10, <1>11, <3>3
    <3>5. Asked(y, b, u, "collective")
      BY <1>8, <3>4 DEF Asked
    <3>6. y \in B
      BY <1>2, <1>5, <2>2, <2>4, <3>5 DEF Entries
    <3>7. QED
      BY <3>2, <3>6
  <2>5. QED
    BY <2>3, <2>4
<1>12. Place(S, a) = Place(T, j)
  BY <1>3, <1>4, <1>6, <1>7, <1>9, <1>11, PlacesAgree
<1>13. SamePlace(S, a, T, j)
  BY <1>3, <1>4, <1>12 DEF SamePlace
<1>14. Meets(g, p, a, q, j)
  <2>1. g[p][a].fn \notin Promise!Senders /\ g[p][a].fn \notin Promise!Receivers
    BY <1>4 DEF Promise!PointToPoint
  <2>2. QED
    BY <1>2, <1>13, <2>1 DEF Meets
<1>15. F[n] = Own(g, q, j)
  <2>1. j = b => m = b
    BY <1>4, <1>8, <1>9, <1>10
  <2>2. Asked(j, b, u, "collective")
    BY <1>8, <1>10, <2>1 DEF Asked
  <2>3. QED
    BY <1>2, <1>5, <1>9, <2>2 DEF Entries
<1>16. QED
  BY <1>1, <1>2, <1>7, <1>10, <1>13, <1>14, <1>15

-----------------------------------------------------------------------------
(* A message that is matched meets its peer's.                             *)
LEMMA MatchedMeets ==
  ASSUME IInv, Delivering, NEW p \in Ranks, NEW m \in DOMAIN posted[p], posted[p][m].matched,
         NEW i, i = posted[p][m].call
  PROVE  \E q \in Ranks : /\ q = program[p][i].peer
                          /\ \E j \in 1 .. at[q] : Meets(program, p, i, q, j)
<1>1. PICK n : n = posted[p][m] /\ n \in MessageRecords /\ Sent(p, n)
  BY MailTyped DEF IInv, Local, Posted
<1>2. PICK g, q, tag : g = program /\ q = n.peer /\ tag = n.tag
  OBVIOUS
<1>3. q \in Ranks /\ tag \in Nat /\ n.kind \in {"send", "recv"} /\ n.call = i /\ n.matched
  BY <1>1, <1>2 DEF MessageRecords
<1>4. q = g[p][i].peer /\ tag = g[p][i].tag
  BY <1>1, <1>2, <1>3 DEF Delivering, Mail, Filed
<1>5. g \in Programs
  BY <1>2 DEF IInv, Domains
<1>6. PICK S, T, S2, T2 :
        /\ S = SendsTo(g, p, q, tag) /\ T = RecvsFrom(g, q, p, tag)
        /\ S2 = SendsTo(g, q, p, tag) /\ T2 = RecvsFrom(g, p, q, tag)
  OBVIOUS
<1>7. /\ Counted(S) /\ Counted(T) /\ Counted(S2) /\ Counted(T2)
      /\ Tracks(S, posted[p], "send", q, tag) /\ Tracks(T, posted[q], "recv", p, tag)
      /\ Tracks(S2, posted[q], "send", p, tag) /\ Tracks(T2, posted[p], "recv", q, tag)
  BY <1>2, <1>3, <1>5, <1>6, CountedCalls, Tracked DEF SendsTo, RecvsFrom
<1>8. \A l \in DOMAIN posted[q] : posted[q][l].call \in 1 .. at[q]
  BY <1>3 DEF IInv, Local, Posted, Sent
<1>9. CASE n.kind = "send"
  <2>1. PICK k \in Nat : Side(S, posted[p], "send", q, tag, k) /\ Side(T, posted[q], "recv", p, tag, k)
    BY <1>2, <1>3, <1>6 DEF Delivering, Paired
  <2>2. On(posted[p], m, "send", q, tag)
    BY <1>1, <1>2, <1>9 DEF On
  <2>3. i \in S /\ Place(S, i) <= k
    BY <1>1, <1>3, <1>7, <2>1, <2>2 DEF Tracks, Side
  <2>4. Place(S, i) \in 1 .. k
    BY <1>7, <2>1, <2>3, PlacePositive
  <2>5. PICK r \in DOMAIN posted[q] :
          On(posted[q], r, "recv", p, tag) /\ Place(T, posted[q][r].call) = Place(S, i)
    BY <2>1, <2>4 DEF Side
  <2>6. posted[q][r].call \in T
    BY <1>7, <2>5 DEF Tracks
  <2>7. g[p][i].fn \in Promise!Senders
    BY <1>6, <2>3 DEF SendsTo, Along
  <2>8. Meets(g, p, i, q, posted[q][r].call)
    BY <1>4, <1>6, <2>3, <2>5, <2>6, <2>7 DEF Meets, SamePlace
  <2>9. QED
    BY <1>2, <1>3, <1>4, <1>8, <2>8
<1>10. CASE n.kind = "recv"
  <2>1. PICK k \in Nat : Side(S2, posted[q], "send", p, tag, k) /\ Side(T2, posted[p], "recv", q, tag, k)
    BY <1>2, <1>3, <1>6 DEF Delivering, Paired
  <2>2. On(posted[p], m, "recv", q, tag)
    BY <1>1, <1>2, <1>10 DEF On
  <2>3. i \in T2 /\ Place(T2, i) <= k
    BY <1>1, <1>3, <1>7, <2>1, <2>2 DEF Tracks, Side
  <2>4. Place(T2, i) \in 1 .. k
    BY <1>7, <2>1, <2>3, PlacePositive
  <2>5. PICK r \in DOMAIN posted[q] :
          On(posted[q], r, "send", p, tag) /\ Place(S2, posted[q][r].call) = Place(T2, i)
    BY <2>1, <2>4 DEF Side
  <2>6. posted[q][r].call \in S2
    BY <1>7, <2>5 DEF Tracks
  <2>7. g[p][i].fn \in Promise!Receivers /\ g[p][i].fn \notin Promise!Senders
    BY <1>6, <2>3 DEF RecvsFrom, Along, Promise!Receivers, Promise!Senders
  <2>8. Meets(g, p, i, q, posted[q][r].call)
    BY <1>4, <1>6, <2>3, <2>5, <2>6, <2>7 DEF Meets, SamePlace
  <2>9. QED
    BY <1>2, <1>3, <1>4, <1>8, <2>8
<1>11. QED
  BY <1>3, <1>9, <1>10

(* The receive that is matched meets the send.                             *)
LEMMA MatchMeets ==
  ASSUME IInv, Delivering, NEW x \in Ranks, NEW y \in Ranks, NEW s, NEW r, Pairs(x, y, s, r)
  PROVE  Meets(program, y, posted[y][r].call, x, posted[x][s].call)
<1>1. PICK P, R, g, tag, S, T :
        /\ P = posted[x] /\ R = posted[y] /\ g = program /\ tag = P[s].tag
        /\ S = SendsTo(g, x, y, tag) /\ T = RecvsFrom(g, y, x, tag)
  OBVIOUS
<1>2. s \in DOMAIN P /\ r \in DOMAIN R /\ tag \in Nat
  BY <1>1, MailTyped DEF Pairs, MessageRecords
<1>3. PICK n \in Nat : Side(S, P, "send", y, tag, n) /\ Side(T, R, "recv", x, tag, n)
  BY <1>1, <1>2 DEF Delivering, Paired
<1>4. /\ Tracks(S, P, "send", y, tag) /\ Tracks(T, R, "recv", x, tag)
      /\ Counted(S) /\ Counted(T) /\ P \in Seq(MessageRecords) /\ R \in Seq(MessageRecords)
  <2>1. g \in Programs
    BY <1>1 DEF IInv, Domains
  <2>2. QED
    BY <1>1, <2>1, Tracked, CountedCalls, MailTyped DEF SendsTo, RecvsFrom
<1>5. /\ On(P, s, "send", y, tag) /\ ~ P[s].matched
      /\ \A l \in DOMAIN P : On(P, l, "send", y, tag) /\ ~ P[l].matched => s <= l
      /\ On(R, r, "recv", x, tag) /\ ~ R[r].matched
      /\ \A l \in DOMAIN R : On(R, l, "recv", x, tag) /\ ~ R[l].matched => r <= l
  BY <1>1, <1>2 DEF Pairs, On
<1>6. PICK P1, R1 : P1 = [P EXCEPT ![s].matched = TRUE] /\ R1 = [R EXCEPT ![r].matched = TRUE]
  OBVIOUS
<1>7. Marked(P, s, P1) /\ Marked(R, r, R1)
  BY <1>2, <1>4, <1>6, MarkOne
<1>8. Place(S, P[s].call) = n + 1
  <2>1. \A i \in S : i <= P[s].call => \E l \in DOMAIN P : P[l].call = i
    <3>1. \A i \in S : i \in Numbers(program, x) /\ program[x][i].fn \in Messages
      BY <1>1 DEF SendsTo, Along, Messages
    <3>2. QED
      BY <1>1, <1>2, <3>1, PostedBefore
  <2>2. SameMail(P, P1) /\ P1[s].matched /\ \A l \in DOMAIN P : l # s => P1[l].matched = P[l].matched
    BY <1>7 DEF Marked
  <2>3. QED
    <3>1. /\ s \in DOMAIN P /\ Counted(S) /\ P \in Seq(MessageRecords) /\ n \in Nat
          /\ Side(S, P, "send", y, tag, n) /\ Tracks(S, P, "send", y, tag) /\ SameMail(P, P1)
          /\ On(P, s, "send", y, tag) /\ ~ P[s].matched /\ P1[s].matched
      BY <1>2, <1>3, <1>4, <1>5, <2>2
    <3>2. \A l \in DOMAIN P : On(P, l, "send", y, tag) /\ ~ P[l].matched => s <= l
      BY <1>5
    <3>3. QED
      BY <2>1, <2>2, <3>1, <3>2, SideMatch
<1>9. Place(T, R[r].call) = n + 1
  <2>1. \A i \in T : i <= R[r].call => \E l \in DOMAIN R : R[l].call = i
    <3>1. \A i \in T : i \in Numbers(program, y) /\ program[y][i].fn \in Messages
      BY <1>1 DEF RecvsFrom, Along, Messages
    <3>2. QED
      BY <1>1, <1>2, <3>1, PostedBefore
  <2>2. SameMail(R, R1) /\ R1[r].matched /\ \A l \in DOMAIN R : l # r => R1[l].matched = R[l].matched
    BY <1>7 DEF Marked
  <2>3. QED
    BY <1>2, <1>3, <1>4, <1>5, <2>1, <2>2, SideMatch
<1>10. P[s].call \in S /\ R[r].call \in T
  BY <1>2, <1>4, <1>5 DEF Tracks
<1>11. tag = g[y][R[r].call].tag /\ g[y][R[r].call].fn \in Promise!Receivers
  BY <1>1, <1>10 DEF RecvsFrom, Along
<1>12. g[y][R[r].call].fn \notin Promise!Senders
  BY <1>11 DEF Promise!Receivers, Promise!Senders
<1>13. Meets(g, y, R[r].call, x, P[s].call)
  BY <1>1, <1>8, <1>9, <1>10, <1>11, <1>12 DEF Meets, SamePlace
<1>14. QED
  BY <1>1, <1>13

-----------------------------------------------------------------------------
(* What is over.                                                           *)
LEMMA MetGrows ==
  ASSUME NEW g, NEW p, NEW a, NEW t, NEW u, NEW R \in [Ranks -> Nat], NEW Q \in [Ranks -> Nat],
         Met(g, p, a, t, R), \A q \in Ranks : R[q] <= Q[q],
         \A i \in 1 .. a : Wants(g, p, i) \subseteq Ranks,
         \/ Past(u) => Past(t)
         \/ ~ Takes(g[p][a])
         \/ \A q \in Wants(g, p, a) : \E j \in 1 .. R[q] : Meets(g, p, Subj(g, p, a), q, j)
  PROVE  Met(g, p, a, u, Q)
<1>1. ASSUME NEW i \in 1 .. a, Takes(g[p][i]), i = a => Past(u), NEW q \in Wants(g, p, i)
      PROVE  \E j \in 1 .. Q[q] : Meets(g, p, Subj(g, p, i), q, j)
  <2>1. q \in Ranks
    BY <1>1
  <2>2. \E j \in 1 .. R[q] : Meets(g, p, Subj(g, p, i), q, j)
    <3>1. CASE i = a /\ \A y \in Wants(g, p, a) : \E j \in 1 .. R[y] : Meets(g, p, Subj(g, p, a), y, j)
      BY <1>1, <3>1
    <3>2. CASE i # a \/ Past(t)
      BY <1>1, <3>2 DEF Met
    <3>3. QED
      BY <1>1, <3>1, <3>2
  <2>3. R[q] \in Nat /\ Q[q] \in Nat /\ R[q] <= Q[q]
    BY <2>1
  <2>4. 1 .. R[q] \subseteq 1 .. Q[q]
    BY <2>3
  <2>5. QED
    BY <2>2, <2>4
<1>2. QED
  BY <1>1 DEF Met

LEMMA WantsRanks ==
  ASSUME IInv, NEW p \in Ranks
  PROVE  /\ \A i \in Numbers(program, p) : Wants(program, p, i) \subseteq Ranks
         /\ \A i \in 1 .. at[p] : Wants(program, p, i) \subseteq Ranks
<1>1. program \in Programs
  BY DEF IInv, Domains
<1>2. \A i \in Numbers(program, p) : Wants(program, p, i) \subseteq Ranks
  BY <1>1, BringsFacts
<1>3. 1 .. at[p] \subseteq Numbers(program, p)
  BY Here DEF Numbers
<1>4. QED
  BY <1>2, <1>3

(* For the rank that takes a step, and for one that takes none.            *)
LEMMA MetStep ==
  ASSUME IInv, Delivering, at' \in [Ranks -> Nat], \A x \in Ranks : at[x] <= at'[x],
         NEW p \in Ranks, program' = program, at'[p] = at[p],
         \/ todo'[p] = todo[p]
         \/ Past(todo'[p]) => Past(todo[p])
         \/ ~ Takes(program[p][at[p]])
         \/ \A q \in Wants(program, p, at[p]) :
              \E j \in 1 .. at[q] : Meets(program, p, Subj(program, p, at[p]), q, j)
  PROVE  Met(program, p, at[p], todo[p], at)'
<1>1. PICK g, a, t, u, R, Q : /\ g = program /\ a = at[p] /\ t = todo[p] /\ u = todo'[p]
                              /\ R = at /\ Q = at'
  OBVIOUS
<1>2. Met(g, p, a, t, R) /\ R \in [Ranks -> Nat] /\ Q \in [Ranks -> Nat]
  BY <1>1 DEF Delivering, IInv, Domains
<1>3. \A i \in 1 .. a : Wants(g, p, i) \subseteq Ranks
  BY <1>1, WantsRanks
<1>4. \/ Past(u) => Past(t)
      \/ ~ Takes(g[p][a])
      \/ \A q \in Wants(g, p, a) : \E j \in 1 .. R[q] : Meets(g, p, Subj(g, p, a), q, j)
  BY <1>1
<1>5. \A q \in Ranks : R[q] <= Q[q]
  BY <1>1
<1>6. Met(g, p, a, u, Q)
  BY <1>2, <1>3, <1>4, <1>5, MetGrows
<1>7. QED
  BY <1>1, <1>6

LEMMA MetCall ==
  ASSUME IInv, Delivering, at' \in [Ranks -> Nat], \A x \in Ranks : at[x] <= at'[x],
         NEW p \in Ranks, Call(p)
  PROVE  Met(program, p, at[p], todo[p], at)'
<1>1. PICK g, a, u, R, Q : /\ g = program /\ a = at[p] /\ u = todo'[p] /\ R = at /\ Q = at'
  OBVIOUS
<1>2. /\ a \in Nat /\ at'[p] = a + 1 /\ program' = g /\ todo[p] = <<>> /\ ~ Past(u)
  BY <1>1, CallStarts DEF Starts
<1>3. Met(g, p, a, <<>>, R) /\ R \in [Ranks -> Nat] /\ Q \in [Ranks -> Nat]
  BY <1>1, <1>2 DEF Delivering, IInv, Domains
<1>4. Past(<<>>)
  BY DEF Past, Range
<1>5. ASSUME NEW i \in 1 .. a + 1, Takes(g[p][i]), i = a + 1 => Past(u), NEW q \in Wants(g, p, i)
      PROVE  \E j \in 1 .. Q[q] : Meets(g, p, Subj(g, p, i), q, j)
  <2>1. i \in 1 .. a
    BY <1>2, <1>5
  <2>2. q \in Ranks
    BY <1>1, <1>5, <2>1, WantsRanks
  <2>3. \E j \in 1 .. R[q] : Meets(g, p, Subj(g, p, i), q, j)
    BY <1>3, <1>4, <1>5, <2>1 DEF Met
  <2>4. 1 .. R[q] \subseteq 1 .. Q[q]
    <3>1. R[q] \in Nat /\ Q[q] \in Nat /\ R[q] <= Q[q]
      BY <1>1, <1>3, <2>2
    <3>2. QED
      BY <3>1
  <2>5. QED
    BY <2>3, <2>4
<1>6. PICK n : n = a + 1
  OBVIOUS
<1>7. Met(g, p, n, u, Q)
  BY <1>5, <1>6 DEF Met
<1>8. QED
  BY <1>1, <1>2, <1>6, <1>7

(* A call in MPI is over when its peers are in the matching ones.          *)
LEMMA MetInMpi ==
  ASSUME IInv, Aligning, Delivering, Fits(program), NEW p \in Ranks,
         Enter(p) \/ Leave(p) \/ Message(p) \/ Finish(p)
  PROVE  \/ Past(todo'[p]) => Past(todo[p])
         \/ \A q \in Wants(program, p, at[p]) :
              \E j \in 1 .. at[q] : Meets(program, p, Subj(program, p, at[p]), q, j)
<1>1. PICK g, a, c, s : g = program /\ a = at[p] /\ c = g[p][a] /\ s = Subj(g, p, a)
  OBVIOUS
<1>2. CASE Enter(p)
  <2>1. Does(p, "collective")
    BY <1>2 DEF Enter, At, Done, Does
  <2>2. "leave" \in Range(todo'[p])
    BY <2>1, DoesRemain
  <2>3. QED
    BY <2>2 DEF Past, InMpi
<1>3. CASE Message(p)
  <2>1. Does(p, "message") /\ c.fn \in Messages
    BY <1>1, <1>3, MessageFacts DEF Asks
  <2>2. CASE c.fn \in Promise!Posts
    <3>1. Wants(g, p, a) = {}
      <4>1. c.fn \notin Unfenced \union Promise!Gathers \union Promise!Broadcasts \union Promise!Reductions
              \union Promise!InclusiveScans \union Promise!ExclusiveScans \union {"send"}
        BY <2>2 DEF Promise!Posts, Unfenced, Promise!Gathers, Promise!Reductions,
          Promise!InclusiveScans, Promise!ExclusiveScans, Promise!Broadcasts
      <4>2. Brings(g, p, a) = {}
        BY <1>1, <2>2, <4>1 DEF Brings, Unfenced
      <4>3. QED
        BY <1>1, <4>1, <4>2 DEF Wants, Unfenced
    <3>2. QED
      BY <1>1, <3>1
  <2>3. CASE c.fn \notin Promise!Posts
    <3>1. "finish" \in Range(todo'[p])
      BY <1>1, <2>1, <2>3, DoesRemain
    <3>2. QED
      BY <3>1 DEF Past, InMpi
  <2>4. QED
    BY <2>2, <2>3
<1>4. CASE Leave(p)
  <2>1. Does(p, "leave")
    BY <1>4 DEF Leave, At, Done, Does
  <2>2. c.fn \notin Promise!PointToPoint /\ a \in Numbers(g, p)
    BY <1>1, <2>1, InCollective DEF Taken, Colls
  <2>3. s = a
    BY <1>1, <2>2 DEF Subj, Promise!PointToPoint
  <2>4. ASSUME NEW q \in Wants(g, p, a) PROVE \E j \in 1 .. at[q] : Meets(g, p, s, q, j)
    <3>1. q \in Ranks /\ q \in Promise!Needed(p, a)
      BY <1>1, <2>2, <2>4, WantsRanks, Bridged
    <3>2. Len(entered[q]) >= Len(entered[p])
      BY <1>1, <1>4, <3>1 DEF Leave
    <3>3. \E j \in 1 .. at[q] : Meets(g, p, a, q, j)
      BY <1>1, <2>1, <3>1, <3>2, EnteredMeets
    <3>4. QED
      BY <2>3, <3>3
  <2>5. QED
    BY <1>1, <2>4
<1>5. CASE Finish(p)
  <2>1. Does(p, "finish")
    BY <1>5, FinishFacts
  <2>2. PICK m \in DOMAIN posted[p] : Completes(p, m)
    BY <1>5, FinishFacts
  <2>3. PICK d : d = g[p][s]
    OBVIOUS
  <2>4. PICK n : n = posted[p][m] /\ Sent(p, n) /\ n \in MessageRecords
    BY MailTyped DEF IInv, Local, Posted
  <2>5. /\ n.call = s
        /\ n.matched \/ (n.kind = "send" /\ SendFunction(d) # "MPI_Ssend")
    BY <1>1, <2>2, <2>3, <2>4 DEF Completes
  <2>6. n.kind = "send" <=> d.fn \in Promise!Senders
    BY <1>1, <2>3, <2>4, <2>5 DEF Sent
  <2>7. c.fn \in Promise!PointToPoint \ Promise!Posts
    <3>1. Ordered(Current(p), todo[p]) /\ todo[p] # <<>> /\ todo[p][1] = "finish"
      BY <2>1, Here DEF Does
    <3>2. 1 \in DOMAIN todo[p]
      BY <3>1, TailOrdered DEF Ordered
    <3>3. QED
      BY <1>1, <3>1, <3>2 DEF Ordered, Current
  <2>8. ASSUME NEW q \in Wants(g, p, a) PROVE q = d.peer /\ n.matched
    <3>1. c.fn \in {"send", "recv", "recv_low", "wait"}
      BY <2>7 DEF Promise!PointToPoint, Promise!Senders, Promise!Receivers, Promise!Posts
    <3>2. c.fn # "wait" => d = c
      BY <1>1, <2>3 DEF Subj
    <3>3. c.fn = "wait" => d = g[p][c.of]
      BY <1>1, <2>3 DEF Subj
    <3>4. CASE q \in Brings(g, p, a)
      <4>1. d.fn \in Promise!Receivers /\ q = d.peer
        <5>1. CASE c.fn = "wait"
          BY <1>1, <3>3, <3>4, <5>1 DEF Brings, Promise!Gathers, Promise!Broadcasts, Promise!Reductions,
            Promise!InclusiveScans, Promise!ExclusiveScans, Promise!Receivers, Promise!Posts
        <5>2. CASE c.fn \in {"recv", "recv_low"}
          BY <1>1, <3>2, <3>4, <5>2 DEF Brings, Promise!Gathers, Promise!Broadcasts, Promise!Reductions,
            Promise!InclusiveScans, Promise!ExclusiveScans, Promise!Receivers, Promise!Posts
        <5>3. CASE c.fn = "send"
          BY <1>1, <3>4, <5>3 DEF Brings, Promise!Gathers, Promise!Broadcasts, Promise!Reductions,
            Promise!InclusiveScans, Promise!ExclusiveScans, Promise!Receivers, Promise!Posts
        <5>4. QED
          BY <3>1, <5>1, <5>2, <5>3
      <4>2. d.fn \notin Promise!Senders
        BY <4>1 DEF Promise!Senders, Promise!Receivers
      <4>3. QED
        BY <2>5, <2>6, <4>1, <4>2
    <3>5. CASE q \notin Brings(g, p, a)
      <4>1. c.fn # "barrier"
        BY <3>1
      <4>2. d.fn \in Promise!Senders /\ d.mode = "synchronous" /\ q = d.peer
        BY <1>1, <2>3, <2>8, <3>5, <4>1 DEF Wants
      <4>3. SendFunction(d) = "MPI_Ssend"
        BY <4>2 DEF SendFunction
      <4>4. QED
        BY <2>5, <4>2, <4>3
    <3>6. QED
      BY <3>4, <3>5
  <2>9. ASSUME NEW q \in Wants(g, p, a) PROVE \E j \in 1 .. at[q] : Meets(g, p, s, q, j)
    <3>1. q = d.peer /\ posted[p][m].matched /\ s = posted[p][m].call
      BY <2>4, <2>5, <2>8, <2>9
    <3>2. QED
      BY <1>1, <2>3, <3>1, MatchedMeets
  <2>10. QED
    BY <1>1, <2>9
<1>6. QED
  BY <1>2, <1>3, <1>4, <1>5

-----------------------------------------------------------------------------
(* The kernels of a rank and what they read.                               *)
Inputs(g, p, k) ==
  CASE k.op = "pack" -> {OwnView(g[p][k.call])}
    [] k.op = "unpack" -> {<<"packed rv", Subj(g, p, k.call)>>}
    [] k.op = "consume" /\ Brings(g, p, k.call) # {} -> {RecvView(g[p][Subj(g, p, k.call)])}
    [] OTHER -> {}

LEMMA ReadsBridged ==
  ASSUME NEW p, NEW k
  PROVE  Reads(p, k) = Inputs(program, p, k)
<1>1. PICK i : i = k.call
  OBVIOUS
<1>2. /\ Promise!Subject(p, i) = Subj(program, p, i)
      /\ Promise!From(p, i) = Brings(program, p, i)
  BY Bridged
<1>3. CASE k.op \in {"pack", "unpack"}
  BY <1>1, <1>2, <1>3 DEF Reads, Inputs
<1>4. CASE k.op = "consume" /\ Brings(program, p, i) # {}
  BY <1>1, <1>2, <1>4 DEF Reads, Inputs
<1>5. CASE k.op \notin {"pack", "unpack"} /\ ~ (k.op = "consume" /\ Brings(program, p, i) # {})
  BY <1>1, <1>2, <1>5 DEF Reads, Inputs
<1>6. QED
  BY <1>3, <1>4, <1>5

LEMMA KernelsTyped ==
  ASSUME IInv, NEW p \in Ranks
  PROVE  /\ queue[p] \in Seq(KernelRecords)
         /\ \A n \in DOMAIN queue[p] :
              /\ queue[p][n] \in KernelRecords /\ Kernel(p, queue[p][n])
              /\ queue[p][n].call \in 1 .. at[p]
              /\ queue[p][n].call \in Numbers(program, p)
<1>1. queue[p] \in Seq(KernelRecords)
  BY DEF IInv, Domains, KernelRecords
<1>2. \A n \in DOMAIN queue[p] : queue[p][n] \in KernelRecords /\ Kernel(p, queue[p][n])
  BY <1>1 DEF IInv, Local, Kernels
<1>3. 1 .. at[p] \subseteq Numbers(program, p)
  BY Here DEF Numbers
<1>4. QED
  BY <1>1, <1>2, <1>3 DEF Kernel

LEMMA FedKept ==
  ASSUME NEW g, NEW p, NEW Q, NEW R, NEW B, NEW D, NEW n \in Nat, n > 0,
         \A m \in 1 .. n : R[m] = Q[m], Fed(g, p, Q, B, n),
         \A b \in Inputs(g, p, Q[n]) : D[b] = B[b]
  PROVE  Fed(g, p, R, D, n)
<1>1. PICK k, i, s : k = Q[n] /\ i = k.call /\ s = Subj(g, p, i)
  OBVIOUS
<1>2. R[n] = k /\ (n > 1 => R[n - 1] = Q[n - 1]) /\ \A m \in 1 .. n - 1 : R[m] = Q[m]
  BY <1>1
<1>3. k.op = "pack" =>
        /\ Contributes(p, g[p][i])
        /\ \/ n = 1 /\ B[OwnView(g[p][i])] = {<<p, i>>}
           \/ n > 1 /\ Q[n - 1] = [op |-> "produce", call |-> i]
  BY <1>1 DEF Fed
<1>4. k.op = "unpack" => B[<<"packed rv", s>>] = Due(g, p, i)
  BY <1>1 DEF Fed
<1>5. k.op = "consume" /\ Brings(g, p, i) # {} =>
        \/ n > 1 /\ Q[n - 1] = [op |-> "unpack", call |-> i]
        \/ /\ B[RecvView(g[p][s])] = Due(g, p, i)
           /\ \A m \in 1 .. n - 1 : RecvView(g[p][s]) \notin WritesOf(g, p, Q[m])
  BY <1>1 DEF Fed
<1>6. /\ k.op = "pack" => D[OwnView(g[p][i])] = B[OwnView(g[p][i])]
      /\ k.op = "unpack" => D[<<"packed rv", s>>] = B[<<"packed rv", s>>]
      /\ k.op = "consume" /\ Brings(g, p, i) # {} =>
           D[RecvView(g[p][s])] = B[RecvView(g[p][s])]
  BY <1>1 DEF Inputs
<1>7. k.op = "pack" =>
        /\ Contributes(p, g[p][i])
        /\ \/ n = 1 /\ D[OwnView(g[p][i])] = {<<p, i>>}
           \/ n > 1 /\ R[n - 1] = [op |-> "produce", call |-> i]
  BY <1>2, <1>3, <1>6
<1>8. k.op = "unpack" => D[<<"packed rv", s>>] = Due(g, p, i)
  BY <1>4, <1>6
<1>9. k.op = "consume" /\ Brings(g, p, i) # {} =>
        \/ n > 1 /\ R[n - 1] = [op |-> "unpack", call |-> i]
        \/ /\ D[RecvView(g[p][s])] = Due(g, p, i)
           /\ \A m \in 1 .. n - 1 : RecvView(g[p][s]) \notin WritesOf(g, p, R[m])
  BY <1>2, <1>5, <1>6
<1>10. QED
  BY <1>1, <1>2, <1>7, <1>8, <1>9 DEF Fed

LEMMA LandedKept ==
  ASSUME NEW g, NEW p, NEW P, NEW R, NEW B, Landed(g, p, P, B),
         \A n \in DOMAIN R : R[n].kind = "recv" /\ R[n].matched /\ R[n].open =>
           n \in DOMAIN P /\ P[n].kind = "recv" /\ P[n].matched /\ P[n].open /\ P[n].call = R[n].call
  PROVE  Landed(g, p, R, B)
<1>1. ASSUME NEW n \in DOMAIN R, R[n].kind = "recv", R[n].matched, R[n].open
      PROVE  B[RecvBuf(g, p, R[n].call)] = DueOf(g, p, R[n].call, {g[p][R[n].call].peer})
  <2>1. n \in DOMAIN P /\ P[n].kind = "recv" /\ P[n].matched /\ P[n].open /\ P[n].call = R[n].call
    BY <1>1
  <2>2. B[RecvBuf(g, p, P[n].call)] = DueOf(g, p, P[n].call, {g[p][P[n].call].peer})
    BY <2>1 DEF Landed
  <2>3. QED
    BY <2>1, <2>2
<1>2. QED
  BY <1>1 DEF Landed

(* A rank whose memory and kernels stay as they are.                       *)
LEMMA FlowFrame ==
  ASSUME IInv, Delivering, NEW p \in Ranks, at[p] > 0, program' = program, at'[p] = at[p],
         queue'[p] = queue[p], buf'[p] = buf[p],
         \A n \in DOMAIN posted'[p] :
           posted'[p][n].kind = "recv" /\ posted'[p][n].matched /\ posted'[p][n].open =>
             /\ n \in DOMAIN posted[p] /\ posted[p][n].kind = "recv" /\ posted[p][n].matched
             /\ posted[p][n].open /\ posted[p][n].call = posted'[p][n].call,
         Giving(program, p, at[p], todo'[p], queue[p], buf[p]),
         Bringing(program, p, at[p], todo'[p], queue[p], buf[p])
  PROVE  Flow(p)'
<1>1. PICK g, a, u, Q, B, P, R : /\ g = program /\ a = at[p] /\ u = todo'[p] /\ Q = queue[p]
                                 /\ B = buf[p] /\ P = posted[p] /\ R = posted'[p]
  OBVIOUS
<1>2. (\A n \in DOMAIN Q : Fed(g, p, Q, B, n)) /\ Landed(g, p, P, B)
  BY <1>1 DEF Delivering, Flow
<1>3. Landed(g, p, R, B)
  BY <1>1, <1>2, LandedKept
<1>4. Giving(g, p, a, u, Q, B) /\ Bringing(g, p, a, u, Q, B)
  BY <1>1
<1>5. QED
  BY <1>1, <1>2, <1>3, <1>4 DEF Flow

LEMMA FlowStays ==
  ASSUME IInv, Delivering, NEW p \in Ranks, at[p] > 0, program' = program, at'[p] = at[p],
         todo'[p] = todo[p], queue'[p] = queue[p], buf'[p] = buf[p],
         \A n \in DOMAIN posted'[p] :
           posted'[p][n].kind = "recv" /\ posted'[p][n].matched /\ posted'[p][n].open =>
             /\ n \in DOMAIN posted[p] /\ posted[p][n].kind = "recv" /\ posted[p][n].matched
             /\ posted[p][n].open /\ posted[p][n].call = posted'[p][n].call
  PROVE  Flow(p)'
<1>1. /\ Giving(program, p, at[p], todo'[p], queue[p], buf[p])
      /\ Bringing(program, p, at[p], todo'[p], queue[p], buf[p])
  BY DEF Delivering, Flow
<1>2. QED
  BY <1>1, FlowFrame

(* A step that is neither in MPI nor for the execution space.              *)
LEMMA FlowIdle ==
  ASSUME IInv, Delivering, NEW p \in Ranks, NEW h, Does(p, h), h \notin InMpi \union Enqueued,
         queue'[p] = queue[p], buf'[p] = buf[p], posted'[p] = posted[p]
  PROVE  Flow(p)'
<1>1. PICK g, a, t, u, Q, B : /\ g = program /\ a = at[p] /\ t = todo[p] /\ u = todo'[p]
                              /\ Q = queue[p] /\ B = buf[p]
  OBVIOUS
<1>2. /\ at' = at /\ program' = g /\ a > 0 /\ t # <<>>
      /\ Range(t) = {h} \union Range(u) /\ (Past(u) <=> Past(t))
  BY <1>1, DoesRemain
<1>3. Giving(g, p, a, t, Q, B) /\ Bringing(g, p, a, t, Q, B)
  BY <1>1, <1>2 DEF Delivering, Flow
<1>4. h \notin {"collective", "message", "pack", "unpack"}
  BY DEF InMpi, Enqueued
<1>5. /\ "pack" \in Range(t) <=> "pack" \in Range(u)
      /\ "unpack" \in Range(t) <=> "unpack" \in Range(u)
      /\ Range(u) \intersect {"collective", "message"} # {} =>
           Range(t) \intersect {"collective", "message"} # {}
  BY <1>2, <1>4
<1>6. Giving(g, p, a, u, Q, B)
  BY <1>3, <1>5 DEF Giving
<1>7. Bringing(g, p, a, u, Q, B)
  BY <1>2, <1>3, <1>5 DEF Bringing
<1>8. QED
  BY <1>1, <1>2, <1>6, <1>7, FlowFrame

LEMMA FlowThrows ==
  ASSUME IInv, Delivering, NEW p \in Ranks, at[p] > 0, program' = program, at'[p] = at[p],
         todo'[p] = <<>>, queue'[p] = queue[p], buf'[p] = buf[p], posted'[p] = posted[p]
  PROVE  Flow(p)'
<1>1. Range(<<>>) = {}
  BY DEF Range
<1>2. /\ Giving(program, p, at[p], <<>>, queue[p], buf[p])
      /\ Bringing(program, p, at[p], <<>>, queue[p], buf[p])
  BY <1>1 DEF Giving, Bringing
<1>3. QED
  BY <1>2, FlowFrame

LEMMA FlowCall ==
  ASSUME IInv, Delivering, NEW p \in Ranks, Call(p)
  PROVE  Flow(p)'
<1>1. PICK g, a, i, c, u, Q, B, P :
        /\ g = program /\ a = at[p] /\ i = a + 1 /\ c = g[p][i] /\ u = todo'[p] /\ Q = queue[p]
        /\ B = buf[p] /\ P = posted[p]
  OBVIOUS
<1>2. /\ a \in Nat /\ i \in Nat /\ at'[p] = i /\ program' = g /\ ~ Past(u)
      /\ Packs(c) => "pack" \in Range(u)
  BY <1>1, CallStarts DEF Starts
<1>3. UNCHANGED <<program, buf, posted>>
  BY DEF Call
<1>4. PICK k, R : /\ k = [op |-> "produce", call |-> i] /\ k \in KernelRecords
                  /\ R = IF c.fn \in Unfenced THEN Q ELSE Append(Q, k)
                  /\ queue'[p] = R
  <2>0. PICK k : k = [op |-> "produce", call |-> i]
    OBVIOUS
  <2>1. k = [op |-> "produce", call |-> i] /\ k \in KernelRecords
    BY <1>2, <2>0 DEF KernelRecords
  <2>2. queue \in [Ranks -> Seq(KernelRecords)]
    BY DEF IInv, Domains, KernelRecords
  <2>3. CASE c.fn \in Unfenced
    BY <1>1, <2>1, <2>3 DEF Call, Unfenced
  <2>4. CASE c.fn \notin Unfenced
    <3>1. queue' = [queue EXCEPT ![p] = Append(@, [op |-> "produce", call |-> at'[p]])]
      BY <1>1, <2>4 DEF Call, Unfenced
    <3>2. queue'[p] = Append(Q, k)
      BY <1>1, <1>2, <2>1, <2>2, <3>1
    <3>3. QED
      BY <2>1, <2>4, <3>2
  <2>5. QED
    BY <2>3, <2>4
<1>5. Q \in Seq(KernelRecords)
  BY <1>1, KernelsTyped
<1>6. \A n \in DOMAIN Q : Fed(g, p, Q, B, n)
  <2>1. CASE a = 0
    <3>1. \A n \in DOMAIN Q : Q[n].call \in 1 .. a
      BY <1>1, KernelsTyped
    <3>2. \A n : n \notin 1 .. a
      BY <2>1
    <3>3. QED
      BY <3>1, <3>2
  <2>2. CASE a # 0
    BY <1>1, <1>2, <2>2 DEF Delivering, Flow
  <2>3. QED
    BY <2>1, <2>2
<1>7. Landed(g, p, P, B)
  <2>1. CASE a = 0
    <3>1. \A n \in DOMAIN P : P[n].call \in 1 .. a
      BY <1>1 DEF IInv, Local, Posted, Sent
    <3>2. \A n : n \notin 1 .. a
      BY <2>1
    <3>3. QED
      BY <3>1, <3>2, Zenon DEF Landed
  <2>2. CASE a # 0
    BY <1>1, <1>2, <2>2 DEF Delivering, Flow
  <2>3. QED
    BY <2>1, <2>2
<1>8. /\ Len(Q) \in Nat /\ DOMAIN Q = 1 .. Len(Q) /\ \A n \in DOMAIN Q : R[n] = Q[n]
      /\ c.fn \notin Unfenced =>
           R # <<>> /\ Len(R) = Len(Q) + 1 /\ R[Len(Q) + 1] = k /\ DOMAIN R = 1 .. Len(Q) + 1
      /\ c.fn \in Unfenced => R = Q
  BY <1>4, <1>5
<1>9. ASSUME NEW n \in DOMAIN R PROVE Fed(g, p, R, B, n)
  <2>1. CASE n \in DOMAIN Q
    <3>1. n \in Nat /\ n > 0 /\ \A m \in 1 .. n : R[m] = Q[m]
      BY <1>8, <2>1
    <3>2. QED
      BY <1>6, <2>1, <3>1, FedKept
  <2>2. CASE n \notin DOMAIN Q
    <3>1. R[n] = k
      BY <1>8, <1>9, <2>2
    <3>2. R[n].op = "produce"
      BY <1>4, <3>1
    <3>3. QED
      BY <3>2 DEF Fed
  <2>3. QED
    BY <2>1, <2>2
<1>10. Giving(g, p, i, u, R, B)
  <2>1. ASSUME Contributes(p, c) PROVE Ready(R, B, OwnView(c), {<<p, i>>}, k)
    <3>1. c.fn \notin Unfenced
      BY <2>1 DEF Contributes, Unfenced, Promise!Senders, Promise!Gathers, Promise!Reductions,
        Promise!Scans, Promise!InclusiveScans, Promise!ExclusiveScans, Promise!Broadcasts
    <3>2. QED
      BY <1>8, <3>1 DEF Ready
  <2>2. QED
    BY <1>1, <1>2, <1>4, <2>1 DEF Giving
<1>11. Bringing(g, p, i, u, R, B)
  BY <1>2 DEF Bringing
<1>12. QED
  BY <1>1, <1>2, <1>3, <1>4, <1>7, <1>9, <1>10, <1>11 DEF Flow

-----------------------------------------------------------------------------
(* Which ranks a call brings data from, when the call unpacks.             *)
LEMMA UnpackBrings ==
  ASSUME NEW g \in Programs, NEW p \in Ranks, NEW i \in Numbers(g, p), g[p][i].fn \notin Promise!Posts,
         Unpacks(p, g[p][Subj(g, p, i)])
  PROVE  Brings(g, p, i) # {}
<1>1. PICK c, d : c = g[p][i] /\ d = g[p][Subj(g, p, i)]
  OBVIOUS
<1>2. d.fn \in {"recv", "irecv", "reduce"} /\ (d.fn = "reduce" => p = d.root)
  BY <1>1 DEF Unpacks
<1>3. CASE c.fn = "wait"
  <2>1. d = g[p][c.of]
    BY <1>1, <1>3 DEF Subj
  <2>2. CASE d.fn \in Promise!Receivers
    <3>1. Brings(g, p, i) = {d.peer}
      BY <1>1, <1>3, <2>1, <2>2 DEF Brings, Promise!Gathers, Promise!Broadcasts, Promise!Reductions,
        Promise!InclusiveScans, Promise!ExclusiveScans, Promise!Receivers, Promise!Posts
    <3>2. QED
      BY <3>1
  <2>3. CASE d.fn \notin Promise!Receivers
    <3>1. d.fn = "reduce"
      BY <1>2, <2>3 DEF Promise!Receivers
    <3>2. d.fn \in Promise!Posts
      BY <1>1, <1>3, BringsFacts
    <3>3. QED
      BY <3>1, <3>2 DEF Promise!Posts
  <2>4. QED
    BY <2>2, <2>3
<1>4. CASE c.fn # "wait"
  <2>1. d = c /\ c.fn \in {"recv", "reduce"}
    BY <1>1, <1>2, <1>4 DEF Subj, Promise!Posts
  <2>2. CASE c.fn = "recv"
    <3>1. Brings(g, p, i) = {c.peer}
      BY <1>1, <2>2 DEF Brings, Promise!Gathers, Promise!Broadcasts, Promise!Reductions,
        Promise!InclusiveScans, Promise!ExclusiveScans, Promise!Receivers, Promise!Posts
    <3>2. QED
      BY <3>1
  <2>3. CASE c.fn = "reduce"
    <3>1. p = c.root
      BY <1>2, <2>1, <2>3
    <3>2. Brings(g, p, i) = Ranks
      BY <1>1, <2>3, <3>1 DEF Brings, Promise!Gathers, Promise!Broadcasts, Promise!Reductions,
        Promise!InclusiveScans, Promise!ExclusiveScans, Promise!Receivers, Promise!Posts
    <3>3. QED
      BY <3>2
  <2>4. QED
    BY <2>1, <2>2, <2>3
<1>5. QED
  BY <1>3, <1>4

LEMMA FlowEnqueue ==
  ASSUME IInv, Aligning, Delivering, NEW p \in Ranks, Enqueue(p)
  PROVE  Flow(p)'
<1>1. PICK h \in Enqueued : At(p, h) /\ Launch(p, h) /\ Done(p)
  BY DEF Enqueue, Enqueued
<1>2. UNCHANGED <<program, at, buf, posted>> /\ Does(p, h)
  BY <1>1 DEF Enqueue, At, Done, Does
<1>3. PICK g, a, c, s, t, u, Q, B :
        /\ g = program /\ a = at[p] /\ c = g[p][a] /\ s = Subj(g, p, a) /\ t = todo[p]
        /\ u = todo'[p] /\ Q = queue[p] /\ B = buf[p]
  OBVIOUS
<1>4. /\ a \in Nat /\ a > 0 /\ a \in Numbers(g, p) /\ t # <<>> /\ h = Head(t) /\ u = Tail(t)
      /\ Range(t) = {h} \union Range(u) /\ (Past(u) <=> Past(t))
      /\ "pack" \in Range(t) => h = "pack" /\ Packs(c)
      /\ h = "pack" => "pack" \notin Range(u)
      /\ h = "unpack" => Past(t)
      /\ h = "unpack" => c.fn \notin Promise!Posts /\ Unpacks(p, g[p][s])
  <2>1. h \notin InMpi
    BY DEF InMpi, Enqueued
  <2>2. QED
    BY <1>2, <1>3, <2>1, DoesRemain
<1>5. PICK k : k = [op |-> h, call |-> a]
  OBVIOUS
<1>6. k \in KernelRecords /\ k.op = h /\ k.call = a
  BY <1>4, <1>5 DEF KernelRecords
<1>7. PICK R : R = Append(Q, k) /\ queue'[p] = R
  BY <1>1, <1>3, <1>5 DEF Launch, IInv, Domains
<1>8. Q \in Seq(KernelRecords)
  BY <1>3, KernelsTyped
<1>9. PICK n : /\ n = Len(Q) /\ n \in Nat /\ DOMAIN Q = 1 .. n /\ DOMAIN R = 1 .. n + 1 /\ R # <<>>
               /\ Len(R) = n + 1 /\ R[n + 1] = k /\ \A m \in 1 .. n : R[m] = Q[m]
  <2>1. PICK n : n = Len(Q)
    OBVIOUS
  <2>2. /\ n \in Nat /\ DOMAIN Q = 1 .. n /\ DOMAIN R = 1 .. n + 1 /\ R # <<>>
        /\ Len(R) = n + 1 /\ R[n + 1] = k /\ \A m \in 1 .. n : R[m] = Q[m]
    BY <1>6, <1>7, <1>8, <2>1
  <2>3. QED
    BY <2>1, <2>2
<1>10. /\ \A m \in DOMAIN Q : Fed(g, p, Q, B, m)
       /\ Giving(g, p, a, t, Q, B) /\ Bringing(g, p, a, t, Q, B)
       /\ Landed(g, p, posted[p], B) /\ Leads(t)
  BY <1>3, <1>4 DEF Delivering, Flow
<1>11. h = "consume" => u = <<>> /\ Range(u) = {} /\ Past(t)
  <2>1. ASSUME h = "consume" PROVE u = <<>>
    <3>1. Shape(Current(p), t) /\ Ordered(Current(p), t)
      BY <1>3, <1>4, Here DEF Aligning, Aligned
    <3>2. QED
      BY <1>4, <2>1, <3>1, FirstShape
  <2>2. u = <<>> => Range(u) = {}
    BY DEF Range
  <2>3. h = "consume" => Past(t)
    BY <1>4, <2>1, <2>2 DEF Past, InMpi
  <2>4. QED
    BY <2>1, <2>2, <2>3
<1>12. h = "pack" => Contributes(p, c) /\ ~ Past(t) /\ Range(t) \intersect {"collective", "message"} # {}
  <2>1. ASSUME h = "pack" PROVE Contributes(p, c)
    <3>1. c.fn \in {"send", "isend", "reduce"}
      BY <1>4, <2>1 DEF Packs
    <3>2. QED
      BY <3>1 DEF Contributes, Promise!Senders, Promise!Reductions
  <2>2. h = "pack" => Range(t) \intersect {"collective", "message"} # {}
    BY <1>4, <1>10 DEF Leads
  <2>3. h = "pack" => ~ Past(t)
    BY <2>2 DEF Past, InMpi
  <2>4. QED
    BY <2>1, <2>2, <2>3
<1>13. h = "unpack" => Brings(g, p, a) # {} /\ B[<<"packed rv", s>>] = Due(g, p, a)
  <2>1. ASSUME h = "unpack" PROVE Brings(g, p, a) # {}
    <3>1. g \in Programs
      BY <1>3 DEF IInv, Domains
    <3>2. QED
      BY <1>3, <1>4, <2>1, <3>1, UnpackBrings
  <2>2. ASSUME h = "unpack" PROVE B[<<"packed rv", s>>] = Due(g, p, a)
    BY <1>3, <1>4, <1>10, <2>1, <2>2 DEF Bringing
  <2>3. QED
    BY <2>1, <2>2
<1>14. ASSUME NEW m \in DOMAIN R PROVE Fed(g, p, R, B, m)
  <2>1. CASE m \in DOMAIN Q
    <3>1. m \in Nat /\ m > 0 /\ \A l \in 1 .. m : R[l] = Q[l]
      BY <1>9, <2>1
    <3>2. QED
      BY <1>10, <2>1, <3>1, FedKept
  <2>2. CASE m \notin DOMAIN Q
    <3>1. m = n + 1 /\ R[m] = k /\ m - 1 = n
      BY <1>9, <1>14, <2>2
    <3>2. CASE h = "pack"
      <4>1. "pack" \in Range(t)
        BY <1>4, <3>2
      <4>2. Ready(Q, B, OwnView(c), {<<p, a>>}, [op |-> "produce", call |-> a])
        BY <1>3, <1>10, <1>12, <3>2, <4>1 DEF Giving
      <4>3. \/ m = 1 /\ B[OwnView(g[p][a])] = {<<p, a>>}
            \/ m > 1 /\ R[m - 1] = [op |-> "produce", call |-> a]
        <5>1. CASE Q = <<>>
          <6>1. n = 0
            BY <1>9, <5>1
          <6>2. QED
            BY <1>3, <3>1, <4>2, <5>1, <6>1 DEF Ready
        <5>2. CASE Q # <<>>
          <6>1. n > 0 /\ n \in 1 .. n
            BY <1>8, <1>9, <5>2
          <6>2. Q[n] = [op |-> "produce", call |-> a]
            BY <1>9, <4>2, <5>2 DEF Ready
          <6>3. QED
            BY <1>9, <3>1, <6>1, <6>2
        <5>3. QED
          BY <5>1, <5>2
      <4>4. QED
        BY <1>3, <1>6, <1>12, <3>1, <3>2, <4>3 DEF Fed
    <3>3. CASE h = "unpack"
      BY <1>3, <1>6, <1>13, <3>1, <3>3 DEF Fed
    <3>4. CASE h = "consume"
      <4>1. "unpack" \notin Range(t)
        BY <1>4, <1>11, <3>4
      <4>2. ASSUME Brings(g, p, a) # {}
            PROVE  \/ m > 1 /\ R[m - 1] = [op |-> "unpack", call |-> a]
                   \/ /\ B[RecvView(g[p][s])] = Due(g, p, a)
                      /\ \A l \in 1 .. m - 1 : RecvView(g[p][s]) \notin WritesOf(g, p, R[l])
        <5>1. \/ Q # <<>> /\ Q[Len(Q)] = [op |-> "unpack", call |-> a]
              \/ /\ B[RecvView(g[p][s])] = Due(g, p, a)
                 /\ \A l \in DOMAIN Q : RecvView(g[p][s]) \notin WritesOf(g, p, Q[l])
          BY <1>3, <1>4, <1>10, <1>11, <3>4, <4>1, <4>2 DEF Bringing
        <5>2. CASE Q # <<>> /\ Q[Len(Q)] = [op |-> "unpack", call |-> a]
          <6>1. n > 0 /\ n \in 1 .. n /\ Q[n] = [op |-> "unpack", call |-> a]
            BY <1>8, <1>9, <5>2
          <6>2. QED
            BY <1>9, <3>1, <6>1
        <5>3. CASE /\ B[RecvView(g[p][s])] = Due(g, p, a)
                   /\ \A l \in DOMAIN Q : RecvView(g[p][s]) \notin WritesOf(g, p, Q[l])
          BY <1>9, <3>1, <5>3
        <5>4. QED
          BY <5>1, <5>2, <5>3
      <4>3. QED
        BY <1>3, <1>6, <3>1, <3>4, <4>2 DEF Fed
    <3>5. QED
      BY <3>2, <3>3, <3>4 DEF Enqueued
  <2>3. QED
    BY <2>1, <2>2
<1>15. Giving(g, p, a, u, R, B)
  <2>1. CASE h = "pack"
    <3>1. "pack" \notin Range(u) /\ Packs(c)
      BY <1>4, <2>1
    <3>2. Ready(R, B, <<"packed sv", a>>, {<<p, a>>}, [op |-> "pack", call |-> a])
      BY <1>5, <1>9, <2>1 DEF Ready
    <3>3. QED
      BY <1>3, <3>1, <3>2 DEF Giving
  <2>2. CASE h # "pack"
    <3>1. Range(u) \intersect {"collective", "message"} = {}
      <4>1. Past(t)
        BY <1>4, <1>11, <2>2 DEF Enqueued
      <4>2. QED
        BY <1>4, <4>1 DEF Past, InMpi
    <3>2. QED
      BY <3>1 DEF Giving
  <2>3. QED
    BY <2>1, <2>2
<1>16. Bringing(g, p, a, u, R, B)
  <2>1. CASE h = "pack"
    BY <1>4, <1>12, <2>1 DEF Bringing
  <2>2. CASE h = "unpack"
    <3>1. R[Len(R)] = [op |-> "unpack", call |-> a]
      BY <1>5, <1>9, <2>2
    <3>2. QED
      BY <1>3, <1>9, <1>13, <2>2, <3>1 DEF Bringing
  <2>3. CASE h = "consume"
    BY <1>11, <2>3 DEF Bringing
  <2>4. QED
    BY <2>1, <2>2, <2>3 DEF Enqueued
<1>17. QED
  BY <1>2, <1>3, <1>7, <1>10, <1>14, <1>15, <1>16 DEF Flow

-----------------------------------------------------------------------------
LEMMA FlowEnter ==
  ASSUME IInv, Delivering, NEW p \in Ranks, Enter(p)
  PROVE  Flow(p)'
<1>1. Does(p, "collective")
  BY DEF Enter, At, Done, Does
<1>2. PICK g, a, t, u : g = program /\ a = at[p] /\ t = todo[p] /\ u = todo'[p]
  OBVIOUS
<1>3. /\ a > 0 /\ Range(t) = {"collective"} \union Range(u) /\ "collective" \notin Range(u)
      /\ "leave" \in Range(u) /\ t # <<>> /\ Head(t) = "collective"
  BY <1>1, <1>2, DoesRemain
<1>4. "message" \notin Range(u)
  <2>1. Ordered(Current(p), t) /\ t[1] = "collective" /\ 1 \in DOMAIN t
    <3>1. Ordered(Current(p), t) /\ t[1] = "collective"
      BY <1>2, <1>3, Here
    <3>2. QED
      BY <1>3, <3>1, TailOrdered DEF Ordered
  <2>2. Current(p).fn \notin Promise!PointToPoint
    BY <2>1 DEF Ordered
  <2>3. Current(p).fn \notin Messages
    BY <2>2 DEF Promise!PointToPoint, Messages
  <2>4. "message" \notin Range(t)
    BY <2>1, <2>3 DEF Ordered, Range
  <2>5. QED
    BY <1>3, <2>4
<1>5. ~ Past(u)
  BY <1>3 DEF Past, InMpi
<1>6. /\ Giving(g, p, a, u, queue[p], buf[p])
      /\ Bringing(g, p, a, u, queue[p], buf[p])
  BY <1>3, <1>4, <1>5 DEF Giving, Bringing
<1>7. UNCHANGED <<program, at, queue, buf, posted>>
  BY DEF Enter
<1>8. QED
  BY <1>2, <1>3, <1>6, <1>7, FlowFrame

LEMMA FlowMessage ==
  ASSUME IInv, Delivering, Fits(program), NEW p \in Ranks, Message(p)
  PROVE  Flow(p)'
<1>1. Does(p, "message")
  BY MessageFacts
<1>2. PICK r : Asks(p, r)
  BY MessageFacts
<1>3. PICK g, a, c, t, u, P, R :
        /\ g = program /\ a = at[p] /\ c = g[p][a] /\ t = todo[p] /\ u = todo'[p]
        /\ P = posted[p] /\ R = posted'[p]
  OBVIOUS
<1>4. /\ a > 0 /\ Range(t) = {"message"} \union Range(u) /\ "message" \notin Range(u)
      /\ c.fn \notin Promise!Posts => "finish" \in Range(u)
      /\ t # <<>>
  BY <1>1, <1>3, DoesRemain
<1>5. "collective" \notin Range(u)
  <2>1. Ordered(Current(p), t) /\ Current(p) = c
    BY <1>3, <1>4, Here
  <2>2. c.fn \in Promise!PointToPoint
    BY <1>2, <1>3 DEF Asks, Promise!PointToPoint, Messages
  <2>3. "collective" \notin Range(t)
    BY <2>1, <2>2 DEF Ordered, Range
  <2>4. QED
    BY <1>4, <2>3
<1>6. Giving(g, p, a, u, queue[p], buf[p])
  BY <1>4, <1>5 DEF Giving
<1>7. Bringing(g, p, a, u, queue[p], buf[p])
  <2>1. CASE c.fn \in Promise!Posts
    <3>1. Brings(g, p, a) = {}
      BY <1>3, <2>1 DEF Brings, Promise!Posts, Promise!Gathers, Promise!Reductions,
          Promise!InclusiveScans, Promise!ExclusiveScans, Promise!Broadcasts
    <3>2. QED
      BY <3>1 DEF Bringing
  <2>2. CASE c.fn \notin Promise!Posts
    <3>1. ~ Past(u)
      BY <1>4, <2>2 DEF Past, InMpi
    <3>2. QED
      BY <3>1 DEF Bringing
  <2>3. QED
    BY <2>1, <2>2
<1>8. UNCHANGED <<program, at, queue, buf>>
  BY DEF Message
<1>9. \A n \in DOMAIN R : R[n].kind = "recv" /\ R[n].matched /\ R[n].open =>
        n \in DOMAIN P /\ P[n].kind = "recv" /\ P[n].matched /\ P[n].open /\ P[n].call = R[n].call
  <2>1. P \in Seq(MessageRecords) /\ R = Append(P, r) /\ r \in MessageRecords /\ ~ r.matched
    BY <1>2, <1>3, MailTyped DEF Asks
  <2>2. \A n \in DOMAIN R : (n \in DOMAIN P /\ R[n] = P[n]) \/ R[n] = r
    BY <2>1
  <2>3. QED
    BY <2>1, <2>2
<1>10. QED
  BY <1>3, <1>4, <1>6, <1>7, <1>8, <1>9, FlowFrame

-----------------------------------------------------------------------------
(* Views of different calls.                                               *)
LEMMA InTouched ==
  ASSUME NEW g, NEW p, NEW i
  PROVE  /\ SendBuf(g, p, i) \in Touched(i, g[p][i].v) /\ RecvBuf(g, p, i) \in Touched(i, g[p][i].v)
         /\ OwnView(g[p][i]) \in Touched(i, g[p][i].v) /\ RecvView(g[p][i]) \in Touched(i, g[p][i].v)
BY DEF SendBuf, RecvBuf, OwnView, RecvView, Touched

LEMMA OpenTouched ==
  ASSUME IInv, NEW p \in Ranks, NEW n \in DOMAIN posted[p], posted[p][n].open,
         NEW j, j = posted[p][n].call, program[p][j].fn \in Promise!Posts,
         NEW i \in 1 .. at[p], j < i, program[p][i].fn \notin Unfenced
  PROVE  Touched(i, program[p][i].v) \intersect Touched(j, program[p][j].v) = {}
<1>1. Open(p, j) /\ j \in 1 .. at[p] /\ j \in Calls(p)
  <2>1. Open(p, j) /\ j \in 1 .. at[p]
    BY DEF IInv, Local, Posted, Sent
  <2>2. QED
    BY <2>1, Here
<1>2. program[p][i].v # program[p][j].v
  BY <1>1, OtherViews
<1>3. i # j
  BY <1>1
<1>4. QED
  BY <1>2, <1>3, Distinct

(* What a collective brings is what is due.                                *)
LEMMA Contributing ==
  ASSUME IInv, Aligning, Delivering, Fits(program), NEW p \in Ranks, Does(p, "leave"),
         NEW q \in Brings(program, p, at[p]), NEW j \in 1 .. at[q],
         SamePlace(Colls(program, p), at[p], Colls(program, q), j)
  PROVE  Own(program, q, j) = {<<q, j>>}
<1>1. PICK g, a, c, d : g = program /\ a = at[p] /\ c = g[p][a] /\ d = g[q][j]
  OBVIOUS
<1>2. a \in Numbers(g, p) /\ c.fn \notin Promise!PointToPoint /\ c \in CallRecords
  <2>1. a \in Numbers(g, p) /\ c.fn \notin Promise!PointToPoint
    BY <1>1, InCollective, DoesRemain
  <2>2. g \in Programs
    BY <1>1 DEF IInv, Domains
  <2>3. QED
    BY <1>1, <2>1, <2>2, ProgramCalls
<1>3. q \in Ranks
  <2>1. g \in Programs
    BY <1>1 DEF IInv, Domains
  <2>2. QED
    BY <1>1, <1>2, <2>1, BringsFacts
<1>4. /\ \A K \in Kinds : c.fn \in K <=> d.fn \in K
      /\ c.fn \in Promise!Broadcasts => c.root = d.root
  BY <1>1, <1>3 DEF Fits, SamePlace
<1>5. c.fn \in Promise!Gathers \union Promise!Broadcasts \union Promise!Reductions
             \union Promise!InclusiveScans \union Promise!ExclusiveScans
  <2>1. c.fn # "barrier"
    BY <1>1 DEF Brings, Promise!Gathers, Promise!Broadcasts, Promise!Reductions,
      Promise!InclusiveScans, Promise!ExclusiveScans, Promise!Receivers, Promise!Posts
  <2>2. QED
    BY <1>2, <2>1 DEF CallRecords, Promise!PointToPoint, Promise!Scans
<1>6. Contributes(q, d)
  <2>1. CASE c.fn \in Promise!Broadcasts
    <3>1. q = c.root
      BY <1>1, <2>1 DEF Brings, Promise!Gathers, Promise!Broadcasts, Promise!Reductions,
        Promise!InclusiveScans, Promise!ExclusiveScans, Promise!Receivers, Promise!Posts
    <3>2. d.fn \in Promise!Broadcasts
      BY <1>4, <2>1 DEF Kinds
    <3>3. QED
      BY <1>4, <2>1, <3>1, <3>2 DEF Contributes
  <2>2. CASE c.fn \notin Promise!Broadcasts
    <3>1. d.fn \in Promise!Gathers \union Promise!Reductions \union Promise!InclusiveScans
             \union Promise!ExclusiveScans
      BY <1>4, <1>5, <2>2 DEF Kinds
    <3>2. QED
      BY <3>1 DEF Contributes, Promise!Scans
  <2>3. QED
    BY <2>1, <2>2
<1>7. QED
  BY <1>1, <1>6 DEF Own

LEMMA LeaveData ==
  ASSUME IInv, Aligning, Delivering, Fits(program), NEW p \in Ranks, Leave(p)
  PROVE  UNION {entered[q][Len(entered[p])] : q \in Brings(program, p, at[p])}
           = Due(program, p, at[p])
<1>1. PICK g, a, E, n : g = program /\ a = at[p] /\ E = entered /\ n = Len(entered[p])
  OBVIOUS
<1>2. Does(p, "leave")
  BY DEF Leave, At, Done, Does
<1>3. a \in Numbers(g, p) /\ g[p][a].fn \notin Promise!PointToPoint /\ g \in Programs
  BY <1>1, <1>2, InCollective, DoesRemain DEF IInv, Domains
<1>4. PICK R : R = Brings(g, p, a) /\ R \subseteq Ranks /\ R \subseteq Promise!Needed(p, a)
  BY <1>1, <1>3, BringsFacts, Bridged
<1>5. ASSUME NEW q \in R
      PROVE  \E j : Meets(g, p, a, q, j) /\ E[q][n] = {<<q, j>>}
  <2>1. Len(entered[q]) >= Len(entered[p])
    BY <1>1, <1>4 DEF Leave
  <2>2. PICK j \in 1 .. at[q] :
          /\ Meets(program, p, at[p], q, j) /\ SamePlace(Colls(program, p), at[p], Colls(program, q), j)
          /\ entered[q][Len(entered[p])] = Own(program, q, j)
    BY <1>2, <1>4, <2>1, EnteredMeets
  <2>3. Own(program, q, j) = {<<q, j>>}
    BY <1>1, <1>2, <1>4, <2>2, Contributing
  <2>4. QED
    BY <1>1, <2>2, <2>3
<1>6. PICK f : f = [q \in R |-> CHOOSE j : Meets(g, p, a, q, j) /\ E[q][n] = {<<q, j>>}]
  OBVIOUS
<1>7. \A q \in R : Meets(g, p, a, q, f[q]) /\ E[q][n] = {<<q, f[q]>>}
  BY <1>5, <1>6
<1>8. DueOf(g, p, a, R) = {<<q, f[q]>> : q \in R}
  BY <1>3, <1>4, <1>7, DueShared
<1>9. UNION {E[q][n] : q \in R} = {<<q, f[q]>> : q \in R}
  BY <1>7
<1>10. Due(g, p, a) = DueOf(g, p, a, R)
  BY <1>3, <1>4 DEF Due, Subj, Promise!PointToPoint
<1>11. QED
  BY <1>1, <1>4, <1>8, <1>9, <1>10

LEMMA FlowLeave ==
  ASSUME IInv, Aligning, Delivering, Fits(program), NEW p \in Ranks, Leave(p)
  PROVE  Flow(p)'
<1>1. Does(p, "leave") /\ UNCHANGED <<program, at, queue, posted>>
  BY DEF Leave, At, Done, Does
<1>2. PICK g, a, c, t, u, Q, B, P :
        /\ g = program /\ a = at[p] /\ c = g[p][a] /\ t = todo[p] /\ u = todo'[p]
        /\ Q = queue[p] /\ B = buf[p] /\ P = posted[p]
  OBVIOUS
<1>3. /\ a \in Nat /\ a > 0 /\ a \in Numbers(g, p) /\ t # <<>> /\ Head(t) = "leave"
      /\ Past(u) /\ Range(t) = {"leave"} \union Range(u) /\ "collective" \notin Range(t)
      /\ "unpack" \in Range(t) <=> c.fn \notin Promise!Posts /\ Unpacks(p, g[p][Subj(g, p, a)])
      /\ g \in Programs
  <2>1. /\ a \in Nat /\ a > 0 /\ a \in Numbers(g, p) /\ t # <<>> /\ Head(t) = "leave"
        /\ Past(u) /\ Range(t) = {"leave"} \union Range(u) /\ "collective" \notin Range(t)
        /\ ~ Past(t) => ("unpack" \in Range(t) <=>
                           c.fn \notin Promise!Posts /\ Unpacks(p, g[p][Subj(g, p, a)]))
    BY <1>1, <1>2, DoesRemain
  <2>2. ~ Past(t)
    BY <2>1 DEF Past, InMpi
  <2>3. QED
    BY <1>2, <2>1, <2>2 DEF IInv, Domains
<1>4. c.fn \notin Promise!PointToPoint /\ Subj(g, p, a) = a /\ c.fn \notin Promise!Posts
  <2>1. c.fn \notin Promise!PointToPoint
    BY <1>1, <1>2, InCollective
  <2>2. QED
    BY <1>2, <2>1 DEF Subj, Promise!PointToPoint, Promise!Posts, Promise!Senders, Promise!Receivers
<1>5. /\ \A n \in DOMAIN Q : Fed(g, p, Q, B, n)
      /\ Landed(g, p, P, B)
  BY <1>2, <1>3 DEF Delivering, Flow
<1>6. \A D : Giving(g, p, a, u, Q, D)
  BY <1>3 DEF Giving, Past, InMpi
<1>7. CASE Brings(g, p, a) = {}
  <2>1. buf' = buf
    BY <1>2, <1>7, Bridged DEF Leave
  <2>2. Bringing(g, p, a, u, Q, B)
    BY <1>7 DEF Bringing
  <2>3. QED
    BY <1>1, <1>2, <1>5, <1>6, <2>1, <2>2 DEF Flow
<1>8. CASE Brings(g, p, a) # {}
  <2>1. PICK b, D : b = RecvBuf(g, p, a) /\ D = buf'[p]
    OBVIOUS
  <2>2. b \in DOMAIN B
    <3>1. RecvBuffer(p, a) \in Buffers(p)
      BY <1>2, <1>3, Contributed, Here
    <3>2. QED
      BY <1>2, <2>1, <3>1, Bridged DEF IInv, Memory
  <2>3. D = [B EXCEPT ![b] = Due(g, p, a)]
    <3>1. Promise!From(p, a) = Brings(g, p, a) /\ RecvBuffer(p, a) = b
      BY <1>2, <2>1, Bridged
    <3>2. buf' = [buf EXCEPT ![p][b] = UNION {entered[q][Len(entered[p])] : q \in Brings(g, p, a)}]
      BY <1>2, <1>8, <3>1 DEF Leave
    <3>3. UNION {entered[q][Len(entered[p])] : q \in Brings(g, p, a)} = Due(g, p, a)
      BY <1>2, LeaveData
    <3>4. QED
      BY <1>2, <2>1, <3>2, <3>3 DEF IInv, Domains
  <2>4. D[b] = Due(g, p, a) /\ \A x \in DOMAIN B : x # b => D[x] = B[x]
    BY <2>2, <2>3
  <2>5. Q = <<>>
    <3>1. c.fn # "barrier" /\ c.fn # "wait"
      <4>1. c.fn # "barrier"
        BY <1>2, <1>8 DEF Brings, Promise!Gathers, Promise!Broadcasts, Promise!Reductions,
          Promise!InclusiveScans, Promise!ExclusiveScans, Promise!Receivers, Promise!Posts
      <4>2. QED
        BY <1>4, <4>1 DEF Promise!PointToPoint
    <3>2. Current(p) = c
      BY <1>2 DEF Current
    <3>3. Head(t) \in InMpi
      BY <1>3 DEF InMpi
    <3>4. QED
      BY <1>2, <1>3, <3>1, <3>2, <3>3, LeavesQuietly DEF Unfenced
  <2>6. Bringing(g, p, a, u, Q, D)
    <3>1. CASE "unpack" \in Range(u)
      <4>1. b = <<"packed rv", a>>
        BY <1>2, <1>3, <1>4, <2>1, <3>1 DEF RecvBuf
      <4>2. QED
        BY <1>4, <2>4, <3>1, <4>1 DEF Bringing
    <3>2. CASE "unpack" \notin Range(u)
      <4>1. b = RecvView(g[p][a])
        BY <1>2, <1>3, <1>4, <2>1, <3>2 DEF RecvBuf
      <4>2. \A m \in DOMAIN Q : FALSE
        BY <2>5
      <4>3. QED
        BY <1>4, <2>4, <3>2, <4>1, <4>2 DEF Bringing
    <3>3. QED
      BY <3>1, <3>2
  <2>7. Landed(g, p, P, D)
    <3>1. ASSUME NEW n \in DOMAIN P, P[n].kind = "recv" /\ P[n].matched /\ P[n].open,
                 NEW j, j = P[n].call
          PROVE  D[RecvBuf(g, p, j)] = DueOf(g, p, j, {g[p][j].peer})
      <4>1. B[RecvBuf(g, p, j)] = DueOf(g, p, j, {g[p][j].peer})
        BY <1>5, <3>1 DEF Landed
      <4>2. Sent(p, P[n])
        BY <1>2 DEF IInv, Local, Posted
      <4>3. j \in 1 .. a /\ g[p][j].fn \in Messages /\ Open(p, j)
        BY <1>2, <3>1, <4>2 DEF Sent
      <4>4. g[p][j].fn \in Promise!Posts
        BY <1>2, <1>3, <4>3 DEF Open
      <4>5. j < a
        BY <1>2, <1>3, <1>4, <4>3, <4>4
      <4>6. c.fn \notin Unfenced
        <5>1. c.fn # "barrier"
          BY <1>2, <1>8 DEF Brings, Promise!Gathers, Promise!Broadcasts, Promise!Reductions,
            Promise!InclusiveScans, Promise!ExclusiveScans, Promise!Receivers, Promise!Posts
        <5>2. QED
          BY <1>4, <5>1 DEF Promise!PointToPoint, Unfenced
      <4>7. Touched(a, g[p][a].v) \intersect Touched(j, g[p][j].v) = {}
        <5>1. a \in 1 .. at[p]
          BY <1>2, <1>3
        <5>2. QED
          BY <1>2, <3>1, <4>4, <4>5, <4>6, <5>1, OpenTouched
      <4>8. RecvBuf(g, p, j) # b
        BY <2>1, <4>7, InTouched
      <4>9. RecvBuf(g, p, j) \in DOMAIN B
        <5>1. RecvBuffer(p, j) \in Buffers(p) /\ RecvBuffer(p, j) = RecvBuf(g, p, j)
          BY <1>2, <4>3, Contributed, Here, Bridged
        <5>2. QED
          BY <1>2, <5>1 DEF IInv, Memory
      <4>10. QED
        BY <2>4, <4>1, <4>8, <4>9
    <3>2. QED
      BY <3>1 DEF Landed
  <2>8. \A n \in DOMAIN Q : Fed(g, p, Q, D, n)
    BY <2>5
  <2>9. QED
    BY <1>1, <1>2, <1>6, <2>1, <2>6, <2>7, <2>8 DEF Flow
<1>9. QED
  BY <1>7, <1>8

-----------------------------------------------------------------------------
(* What a receive, or a wait for one, has brought when it returns.         *)
LEMMA FinishData ==
  ASSUME IInv, Delivering, NEW p \in Ranks, Does(p, "finish"), NEW m \in DOMAIN posted[p],
         Completes(p, m), Brings(program, p, at[p]) # {}
  PROVE  /\ posted[p][m].kind = "recv" /\ posted[p][m].matched /\ posted[p][m].open
         /\ posted[p][m].call = Subj(program, p, at[p])
         /\ Brings(program, p, at[p]) = {program[p][Subj(program, p, at[p])].peer}
<1>1. PICK g, a, c, s, d, t, P, n :
        /\ g = program /\ a = at[p] /\ c = g[p][a] /\ s = Subj(g, p, a) /\ d = g[p][s] /\ t = todo[p]
        /\ P = posted[p] /\ n = P[m]
  OBVIOUS
<1>2. /\ a \in Nat /\ a > 0 /\ a \in Numbers(g, p) /\ t # <<>> /\ Head(t) = "finish"
      /\ "finish" \in Range(t) /\ g \in Programs
  BY <1>1, DoesRemain DEF IInv, Domains
<1>3. Sent(p, n) /\ n.call = s /\ n \in MessageRecords
      /\ (n.matched \/ (n.kind = "send" /\ SendFunction(d) # "MPI_Ssend"))
  <2>1. Sent(p, n) /\ n \in MessageRecords
    BY <1>1, MailTyped DEF IInv, Local, Posted
  <2>2. QED
    BY <1>1, <2>1 DEF Completes
<1>4. n.kind = "send" <=> d.fn \in Promise!Senders
  BY <1>1, <1>3 DEF Sent
<1>5. c.fn \in Promise!PointToPoint \ Promise!Posts
  <2>1. Ordered(Current(p), t) /\ t[1] = "finish"
    BY <1>1, <1>2, Here
  <2>2. 1 \in DOMAIN t
    BY <1>2, <2>1, TailOrdered DEF Ordered
  <2>3. QED
    BY <1>1, <2>1, <2>2 DEF Ordered, Current
<1>6. c.fn \in {"send", "recv", "recv_low", "wait"}
  BY <1>5 DEF Promise!PointToPoint, Promise!Senders, Promise!Receivers, Promise!Posts
<1>7. /\ c.fn # "wait" => s = a /\ d = c
      /\ c.fn = "wait" => s = c.of /\ d = g[p][c.of] /\ d.fn \in Promise!Posts
      /\ s <= a /\ s \in Numbers(g, p)
  BY <1>1, <1>2, BringsFacts DEF Subj
<1>8. d.fn \in Promise!Receivers /\ Brings(g, p, a) = {d.peer}
  <2>1. CASE c.fn = "wait"
    BY <1>1, <1>7, <2>1 DEF Brings, Promise!Gathers, Promise!Broadcasts, Promise!Reductions,
      Promise!InclusiveScans, Promise!ExclusiveScans, Promise!Receivers, Promise!Posts
  <2>2. CASE c.fn \in {"recv", "recv_low"}
    BY <1>1, <1>7, <2>2 DEF Brings, Promise!Gathers, Promise!Broadcasts, Promise!Reductions,
      Promise!InclusiveScans, Promise!ExclusiveScans, Promise!Receivers, Promise!Posts
  <2>3. CASE c.fn = "send"
    BY <1>1, <2>3 DEF Brings, Promise!Gathers, Promise!Broadcasts, Promise!Reductions,
      Promise!InclusiveScans, Promise!ExclusiveScans, Promise!Receivers, Promise!Posts
  <2>4. QED
    BY <1>6, <2>1, <2>2, <2>3
<1>9. n.kind = "recv" /\ n.matched
  <2>1. d.fn \notin Promise!Senders
    BY <1>8 DEF Promise!Senders, Promise!Receivers
  <2>2. n.kind # "send" /\ n.kind \in {"send", "recv"}
    BY <1>3, <1>4, <2>1 DEF MessageRecords
  <2>3. QED
    BY <1>3, <2>2
<1>10. n.open
  <2>1. SUFFICES ASSUME ~ n.open PROVE FALSE
    OBVIOUS
  <2>2. Closed(g, p, a, t, P)
    BY <1>1 DEF Delivering, Mail
  <2>3. ~ Asked(a, a, t, "finish")
    BY <1>2 DEF Asked
  <2>4. CASE d.fn \in Promise!Posts
    <3>1. PICK w \in 1 .. a : WaitsFor(g[p], w, s) /\ Asked(w, a, t, "finish")
      BY <1>1, <1>3, <2>1, <2>2, <2>4 DEF Closed
    <3>2. c.fn = "wait"
      <4>1. c.fn # "wait" => FALSE
        BY <1>5, <1>7, <2>4
      <4>2. QED
        BY <4>1
    <3>3. WaitsFor(g[p], a, s)
      BY <1>1, <1>7, <3>2 DEF WaitsFor
    <3>4. w \in Calls(p) /\ a \in Calls(p)
      BY <1>1, <1>2, <3>1, Here
    <3>5. w = a
      BY <1>1, <1>2, <3>1, <3>3, <3>4, OneWait
    <3>6. QED
      BY <2>3, <3>1, <3>5
  <2>5. CASE d.fn \notin Promise!Posts
    <3>1. Asked(s, a, t, "finish")
      BY <1>1, <1>3, <2>1, <2>2, <2>5 DEF Closed
    <3>2. s = a
      BY <1>7, <2>5
    <3>3. QED
      BY <2>3, <3>1, <3>2
  <2>6. QED
    BY <2>4, <2>5
<1>11. QED
  BY <1>1, <1>3, <1>8, <1>9, <1>10

LEMMA FlowFinish ==
  ASSUME IInv, Delivering, NEW p \in Ranks, Finish(p)
  PROVE  Flow(p)'
<1>1. Does(p, "finish") /\ UNCHANGED <<program, at, queue, buf>>
  BY FinishFacts DEF Finish
<1>2. PICK m \in DOMAIN posted[p] : Completes(p, m)
  BY FinishFacts
<1>3. PICK g, a, c, s, t, u, Q, B, P, R :
        /\ g = program /\ a = at[p] /\ c = g[p][a] /\ s = Subj(g, p, a) /\ t = todo[p]
        /\ u = todo'[p] /\ Q = queue[p] /\ B = buf[p] /\ P = posted[p] /\ R = posted'[p]
  OBVIOUS
<1>4. /\ a \in Nat /\ a > 0 /\ a \in Numbers(g, p)
      /\ Past(u) /\ Range(t) = {"finish"} \union Range(u)
      /\ "unpack" \in Range(t) <=> c.fn \notin Promise!Posts /\ Unpacks(p, g[p][s])
  <2>1. /\ a \in Nat /\ a > 0 /\ a \in Numbers(g, p)
        /\ Past(u) /\ Range(t) = {"finish"} \union Range(u)
        /\ ~ Past(t) => ("unpack" \in Range(t) <=> c.fn \notin Promise!Posts /\ Unpacks(p, g[p][s]))
    BY <1>1, <1>3, DoesRemain
  <2>2. ~ Past(t)
    BY <2>1 DEF Past, InMpi
  <2>3. QED
    BY <2>1, <2>2
<1>5. c.fn \notin Promise!Posts
  <2>1. Ordered(Current(p), t) /\ t[1] = "finish" /\ t # <<>>
    BY <1>1, <1>3, Here DEF Does
  <2>2. 1 \in DOMAIN t
    BY <2>1, TailOrdered DEF Ordered
  <2>3. QED
    BY <1>3, <2>1, <2>2 DEF Ordered, Current
<1>6. Giving(g, p, a, u, Q, B)
  BY <1>4 DEF Giving, Past, InMpi
<1>7. Bringing(g, p, a, u, Q, B)
  <2>1. CASE Brings(g, p, a) = {}
    BY <2>1 DEF Bringing
  <2>2. CASE Brings(g, p, a) # {}
    <3>1. /\ P[m].kind = "recv" /\ P[m].matched /\ P[m].open /\ P[m].call = s
          /\ Brings(g, p, a) = {g[p][s].peer}
      BY <1>1, <1>2, <1>3, <2>2, FinishData
    <3>2. Landed(g, p, P, B)
      BY <1>3, <1>4 DEF Delivering, Flow
    <3>3. B[RecvBuf(g, p, s)] = Due(g, p, a)
      BY <1>2, <1>3, <3>1, <3>2 DEF Landed, Due
    <3>4. CASE "unpack" \in Range(u)
      <4>1. RecvBuf(g, p, s) = <<"packed rv", s>>
        BY <1>4, <3>4 DEF RecvBuf
      <4>2. QED
        BY <1>3, <3>3, <3>4, <4>1 DEF Bringing
    <3>5. CASE "unpack" \notin Range(u)
      <4>1. RecvBuf(g, p, s) = RecvView(g[p][s])
        BY <1>4, <1>5, <3>5 DEF RecvBuf
      <4>2. ASSUME NEW z \in DOMAIN Q PROVE RecvView(g[p][s]) \notin WritesOf(g, p, Q[z])
        <5>1. RecvBuffer(p, s) \notin Writes(p, Q[z])
          BY <1>2, <1>3, <3>1, <4>2, Apart
        <5>2. QED
          BY <1>3, <4>1, <5>1, Bridged, WritesBridged
      <4>3. QED
        BY <1>3, <3>3, <3>5, <4>1, <4>2 DEF Bringing
    <3>6. QED
      BY <3>4, <3>5
  <2>3. QED
    BY <2>1, <2>2
<1>8. \A n \in DOMAIN R : R[n].kind = "recv" /\ R[n].matched /\ R[n].open =>
        n \in DOMAIN P /\ P[n].kind = "recv" /\ P[n].matched /\ P[n].open /\ P[n].call = R[n].call
  BY <1>2, <1>3 DEF Completes, SameMail
<1>9. QED
  BY <1>1, <1>3, <1>4, <1>6, <1>7, <1>8, FlowFrame

-----------------------------------------------------------------------------
(* What MPI may write for an open message is no view of another one.       *)
LEMMA OpenBefore ==
  ASSUME IInv, NEW p \in Ranks, NEW n \in DOMAIN posted[p], posted[p][n].open,
         NEW j, j = posted[p][n].call
  PROVE  /\ j \in 1 .. at[p] /\ j \in Calls(p) /\ program[p][j].fn \in Messages /\ Open(p, j)
         /\ program[p][j].fn \notin Unfenced
         /\ j < at[p] => program[p][j].fn \in Promise!Posts
         /\ j = at[p] => "message" \notin Range(todo[p])
<1>1. Sent(p, posted[p][n])
  BY DEF IInv, Local, Posted
<1>2. j \in 1 .. at[p] /\ program[p][j].fn \in Messages /\ Open(p, j)
      /\ (j = at[p] => "message" \notin Range(todo[p]))
  BY <1>1 DEF Sent, Left
<1>3. j \in Calls(p)
  BY <1>2, Here
<1>4. program[p][j].fn \notin Unfenced
  BY <1>2 DEF Messages, Unfenced, Promise!Senders, Promise!Receivers
<1>5. j < at[p] => program[p][j].fn \in Promise!Posts
  BY <1>2 DEF Open
<1>6. QED
  BY <1>2, <1>3, <1>4, <1>5

LEMMA OpenDistinct ==
  ASSUME IInv, NEW p \in Ranks, NEW m \in DOMAIN posted[p], NEW n \in DOMAIN posted[p], m # n,
         posted[p][m].open, posted[p][n].open, NEW i, i = posted[p][m].call,
         NEW j, j = posted[p][n].call
  PROVE  Touched(i, program[p][i].v) \intersect Touched(j, program[p][j].v) = {}
<1>1. i # j
  BY DEF IInv, Local, Posted
<1>2. i \in 1 .. at[p] /\ j \in 1 .. at[p] /\ at[p] \in Nat
  BY OpenBefore, Here
<1>3. CASE i < j
  <2>1. i < at[p]
    BY <1>2, <1>3
  <2>2. program[p][i].fn \in Promise!Posts /\ program[p][j].fn \notin Unfenced
    BY <2>1, OpenBefore
  <2>3. Touched(j, program[p][j].v) \intersect Touched(i, program[p][i].v) = {}
    BY <1>2, <1>3, <2>2, OpenTouched
  <2>4. QED
    BY <2>3
<1>4. CASE j < i
  <2>1. j < at[p]
    BY <1>2, <1>4
  <2>2. program[p][j].fn \in Promise!Posts /\ program[p][i].fn \notin Unfenced
    BY <2>1, OpenBefore
  <2>3. QED
    BY <1>2, <1>4, <2>2, OpenTouched
<1>5. QED
  BY <1>1, <1>2, <1>3, <1>4

(* Neither what the current call contributes nor what it brought is.       *)
LEMMA GivenApart ==
  ASSUME IInv, NEW p \in Ranks, NEW n \in DOMAIN posted[p], posted[p][n].open,
         NEW j, j = posted[p][n].call, NEW a, a = at[p], NEW c, c = program[p][a],
         Contributes(p, c), Range(todo[p]) \intersect {"collective", "message"} # {}
  PROVE  Touched(a, c.v) \intersect Touched(j, program[p][j].v) = {}
<1>1. todo[p] # <<>>
  BY DEF Range
<1>2. a \in Nat /\ a > 0 /\ Current(p) = c /\ Ordered(Current(p), todo[p])
  BY <1>1, Here
<1>3. j \in 1 .. a /\ program[p][j].fn \in Messages
  BY OpenBefore
<1>4. j < a
  <2>1. SUFFICES ASSUME j = a PROVE FALSE
    BY <1>2, <1>3
  <2>2. "message" \notin Range(todo[p])
    BY <2>1, OpenBefore
  <2>3. "collective" \in Range(todo[p])
    BY <2>2
  <2>4. c.fn \notin Promise!PointToPoint
    BY <1>2, <2>3 DEF Ordered, Range
  <2>5. QED
    BY <1>3, <2>1, <2>4 DEF Promise!PointToPoint, Messages
<1>5. c.fn \notin Unfenced
  BY DEF Contributes, Unfenced, Promise!Senders, Promise!Gathers, Promise!Reductions, Promise!Scans,
    Promise!InclusiveScans, Promise!ExclusiveScans, Promise!Broadcasts
<1>6. program[p][j].fn \in Promise!Posts
  BY <1>4, OpenBefore
<1>7. QED
  BY <1>2, <1>4, <1>5, <1>6, OpenTouched

LEMMA BroughtApart ==
  ASSUME IInv, NEW p \in Ranks, NEW n \in DOMAIN posted[p], posted[p][n].open,
         NEW j, j = posted[p][n].call, NEW a, a = at[p], a > 0, todo[p] # <<>>, Past(todo[p]),
         Brings(program, p, a) # {}, NEW s, s = Subj(program, p, a)
  PROVE  Touched(s, program[p][s].v) \intersect Touched(j, program[p][j].v) = {}
<1>1. PICK g, c : g = program /\ c = g[p][a]
  OBVIOUS
<1>2. a \in Nat /\ a \in Calls(p)
  BY Here
<1>3. j \in 1 .. a /\ g[p][j].fn \in Messages /\ Open(p, j) /\ j \in Calls(p)
  BY <1>1, OpenBefore
<1>4. c.fn \notin Promise!Posts /\ c.fn # "barrier"
  BY <1>1 DEF Brings, Promise!Gathers, Promise!Broadcasts, Promise!Reductions,
    Promise!InclusiveScans, Promise!ExclusiveScans, Promise!Receivers, Promise!Posts
<1>5. j < a
  <2>1. SUFFICES ASSUME j = a PROVE FALSE
    BY <1>2, <1>3
  <2>2. Head(todo[p]) = "finish"
    BY <1>1, <1>3, <1>4, <2>1 DEF Open
  <2>3. Head(todo[p]) \in Range(todo[p])
    BY Here DEF Left
  <2>4. QED
    BY <2>2, <2>3 DEF Past, InMpi
<1>6. g[p][j].fn \in Promise!Posts
  BY <1>1, <1>5, OpenBefore
<1>7. CASE c.fn # "wait"
  <2>1. s = a
    BY <1>1, <1>7 DEF Subj
  <2>2. program[p][a].fn \notin Unfenced /\ a \in 1 .. at[p] /\ program[p][j].fn \in Promise!Posts
    BY <1>1, <1>2, <1>4, <1>6, <1>7 DEF Unfenced
  <2>3. Touched(a, program[p][a].v) \intersect Touched(j, program[p][j].v) = {}
    BY <1>5, <2>2, OpenTouched
  <2>4. QED
    BY <2>1, <2>3
<1>8. CASE c.fn = "wait"
  <2>1. s = c.of
    BY <1>1, <1>8 DEF Subj
  <2>2. Over(p, a)
    BY <1>2 DEF Over, Left, Past, InMpi
  <2>3. s # j /\ g[p][s].v # g[p][j].v
    BY <1>1, <1>2, <1>3, <1>5, <1>6, <1>8, <2>1, <2>2, OtherWait
  <2>4. QED
    BY <1>1, <2>3, Distinct
<1>9. QED
  BY <1>7, <1>8

LEMMA FlowMatch ==
  ASSUME IInv, Delivering, NEW x \in Ranks, NEW y \in Ranks, Match(x, y),
         NEW p \in Ranks, at[p] > 0
  PROVE  Flow(p)'
<1>1. UNCHANGED <<program, at, todo, queue>>
  BY MatchFacts
<1>2. PICK s, r : Pairs(x, y, s, r) /\ \A z \in Ranks : Marking2(x, y, s, r, z)
  BY MatchFacts
<1>3. PICK g, a, c, t, Q, B, D, P, R :
        /\ g = program /\ a = at[p] /\ c = g[p][a] /\ t = todo[p] /\ Q = queue[p]
        /\ B = buf[p] /\ D = buf'[p] /\ P = posted[p] /\ R = posted'[p]
  OBVIOUS
<1>4. CASE p # y
  <2>1. buf'[p] = buf[p]
    BY <1>2, <1>4 DEF Pairs
  <2>2. \A n \in DOMAIN R : R[n].kind = "recv" /\ R[n].matched /\ R[n].open =>
          n \in DOMAIN P /\ P[n].kind = "recv" /\ P[n].matched /\ P[n].open /\ P[n].call = R[n].call
    <3>1. x = p => P[s].kind = "send"
      BY <1>2, <1>3 DEF Pairs
    <3>2. \A n \in DOMAIN P : Chosen(x, y, s, r, p, n) => P[n].kind = "send"
      BY <1>4, <3>1 DEF Chosen
    <3>3. SameMail(P, R) /\ \A n \in DOMAIN P : R[n].open = P[n].open
            /\ (~ Chosen(x, y, s, r, p, n) => R[n].matched = P[n].matched)
      BY <1>2, <1>3 DEF Marking2
    <3>4. QED
      BY <3>2, <3>3 DEF SameMail
  <2>3. QED
    BY <1>1, <1>3, <2>1, <2>2, FlowStays
<1>5. CASE p = y
  <2>1. PICK j, i, b, d : j = P[r].call /\ i = posted[x][s].call /\ b = RecvBuf(g, p, j)
                          /\ d = posted[x][s].data
    OBVIOUS
  <2>2. /\ r \in DOMAIN P /\ P[r].kind = "recv" /\ P[r].peer = x /\ ~ P[r].matched
        /\ s \in DOMAIN posted[x] /\ posted[x][s].kind = "send"
        /\ buf' = [buf EXCEPT ![p][b] = d]
    BY <1>2, <1>3, <1>5, <2>1 DEF Pairs
  <2>3. /\ Mail(p) /\ Mail(x) /\ \A n \in DOMAIN Q : Fed(g, p, Q, B, n)
        /\ Giving(g, p, a, t, Q, B) /\ Bringing(g, p, a, t, Q, B) /\ Landed(g, p, P, B)
    BY <1>3 DEF Delivering, Flow
  <2>4. P[r].open
    BY <1>3, <2>2, <2>3 DEF Mail, Closed
  <2>5. g[p][j].peer = x /\ d = {<<x, i>>}
    BY <1>3, <2>1, <2>2, <2>3 DEF Mail, Filed
  <2>6. d = DueOf(g, p, j, {g[p][j].peer})
    <3>1. Meets(g, p, j, x, i)
      BY <1>2, <1>3, <1>5, <2>1, MatchMeets
    <3>2. g \in Programs
      BY <1>3 DEF IInv, Domains
    <3>3. QED
      BY <2>5, <3>1, <3>2, DueSingle
  <2>7. DOMAIN B = Buffers(p) /\ a \in Nat /\ a \in Calls(p) /\ j \in Calls(p)
        /\ \A k \in Calls(p) :
             /\ OwnView(g[p][k]) \in Buffers(p) /\ RecvView(g[p][k]) \in Buffers(p)
             /\ SendBuf(g, p, k) \in Buffers(p) /\ RecvBuf(g, p, k) \in Buffers(p)
             /\ <<"packed rv", k>> \in Buffers(p) /\ <<"packed sv", k>> \in Buffers(p)
    <3>1. DOMAIN B = Buffers(p)
      BY <1>3 DEF IInv, Memory
    <3>2. a \in Nat /\ a \in Calls(p) /\ j \in Calls(p)
      BY <1>3, <2>1, <2>2, <2>4, Here, OpenBefore
    <3>3. ASSUME NEW k \in Calls(p)
          PROVE  /\ OwnView(g[p][k]) \in Buffers(p) /\ RecvView(g[p][k]) \in Buffers(p)
                 /\ SendBuf(g, p, k) \in Buffers(p) /\ RecvBuf(g, p, k) \in Buffers(p)
                 /\ <<"packed rv", k>> \in Buffers(p) /\ <<"packed sv", k>> \in Buffers(p)
      <4>1. /\ OwnView(g[p][k]) \in Buffers(p) /\ RecvView(g[p][k]) \in Buffers(p)
            /\ SendBuf(g, p, k) \in Buffers(p) /\ RecvBuf(g, p, k) \in Buffers(p)
        BY <1>3, Contributed, Bridged
      <4>2. <<"packed rv", k>> \in Buffers(p) /\ <<"packed sv", k>> \in Buffers(p)
        BY DEF Buffers
      <4>3. QED
        BY <4>1, <4>2
    <3>4. QED
      BY <3>1, <3>2, <3>3
  <2>8. D[b] = d /\ \A z \in Buffers(p) : z # b => D[z] = B[z]
    <3>1. D = [B EXCEPT ![b] = d]
      BY <1>3, <2>2 DEF IInv, Domains
    <3>2. b \in DOMAIN B
      BY <2>1, <2>7
    <3>3. QED
      BY <2>7, <3>1, <3>2
  <2>9. ASSUME NEW n \in DOMAIN Q PROVE Fed(g, p, Q, D, n)
    <3>1. Kernel(p, Q[n]) /\ n \in Nat /\ n > 0
      BY <1>3, KernelsTyped
    <3>2. Inputs(g, p, Q[n]) \subseteq Buffers(p)
      BY <1>3, <3>1, KernelMemory, ReadsBridged
    <3>3. b \notin Inputs(g, p, Q[n])
      <4>1. RecvBuffer(p, j) \notin Reads(p, Q[n])
        BY <1>3, <2>1, <2>2, <2>4, Apart
      <4>2. QED
        BY <1>3, <2>1, <4>1, Bridged, ReadsBridged
    <3>4. \A z \in Inputs(g, p, Q[n]) : D[z] = B[z]
      BY <2>8, <3>2, <3>3
    <3>5. Fed(g, p, Q, B, n) /\ \A m \in 1 .. n : Q[m] = Q[m]
      BY <2>3
    <3>6. QED
      BY <3>1, <3>4, <3>5, FedKept
  <2>10. b \in Touched(j, g[p][j].v)
    BY <2>1, InTouched
  <2>11. Giving(g, p, a, t, Q, D)
    <3>1. SUFFICES ASSUME Contributes(p, c), Range(t) \intersect {"collective", "message"} # {}
                   PROVE  Giving(g, p, a, t, Q, D)
      BY <1>3 DEF Giving
    <3>2. Touched(a, c.v) \intersect Touched(j, g[p][j].v) = {}
      BY <1>3, <2>1, <2>2, <2>4, <3>1, GivenApart
    <3>3. OwnView(c) # b /\ <<"packed sv", a>> # b
      BY <1>3, <2>10, <3>2 DEF Touched, OwnView
    <3>4. D[OwnView(c)] = B[OwnView(c)] /\ D[<<"packed sv", a>>] = B[<<"packed sv", a>>]
      BY <1>3, <2>7, <2>8, <3>3
    <3>5. \A k : Ready(Q, B, OwnView(c), {<<p, a>>}, k) => Ready(Q, D, OwnView(c), {<<p, a>>}, k)
      BY <3>4 DEF Ready
    <3>6. \A k : Ready(Q, B, <<"packed sv", a>>, {<<p, a>>}, k)
                   => Ready(Q, D, <<"packed sv", a>>, {<<p, a>>}, k)
      BY <3>4 DEF Ready
    <3>7. QED
      BY <1>3, <2>3, <3>5, <3>6 DEF Giving
  <2>12. Bringing(g, p, a, t, Q, D)
    <3>1. PICK l : l = Subj(g, p, a)
      OBVIOUS
    <3>2. SUFFICES ASSUME t # <<>>, Past(t), Brings(g, p, a) # {}
                   PROVE  Bringing(g, p, a, t, Q, D)
      BY DEF Bringing
    <3>3. Touched(l, g[p][l].v) \intersect Touched(j, g[p][j].v) = {}
      BY <1>3, <2>1, <2>2, <2>4, <3>1, <3>2, BroughtApart
    <3>4. RecvView(g[p][l]) # b /\ <<"packed rv", l>> # b
      BY <2>10, <3>3 DEF Touched, RecvView
    <3>5. l \in Calls(p)
      <4>1. Promise!Subject(p, a) \in Calls(p) /\ Promise!Subject(p, a) = Subj(program, p, a)
        BY <2>7, FromRanks, Bridged DEF IInv, Domains
      <4>2. QED
        BY <1>3, <3>1, <4>1
    <3>6. /\ D[RecvView(g[p][l])] = B[RecvView(g[p][l])]
          /\ D[<<"packed rv", l>>] = B[<<"packed rv", l>>]
      BY <2>7, <2>8, <3>4, <3>5
    <3>7. QED
      BY <2>3, <3>1, <3>6 DEF Bringing
  <2>13. Landed(g, p, R, D)
    <3>1. SameMail(P, R) /\ \A n \in DOMAIN P : R[n].open = P[n].open
            /\ (~ Chosen(x, y, s, r, p, n) => R[n].matched = P[n].matched)
      BY <1>2, <1>3 DEF Marking2
    <3>2. ASSUME NEW n \in DOMAIN R, R[n].kind = "recv" /\ R[n].matched /\ R[n].open
          PROVE  D[RecvBuf(g, p, R[n].call)] = DueOf(g, p, R[n].call, {g[p][R[n].call].peer})
      <4>1. n \in DOMAIN P /\ P[n].kind = "recv" /\ P[n].open /\ R[n].call = P[n].call
        BY <3>1, <3>2 DEF SameMail
      <4>2. CASE n = r
        BY <2>1, <2>6, <2>8, <4>1, <4>2
      <4>3. CASE n # r
        <5>1. ~ Chosen(x, y, s, r, p, n)
          BY <1>3, <1>5, <2>2, <4>1, <4>3 DEF Chosen
        <5>2. P[n].matched
          BY <3>1, <3>2, <4>1, <5>1
        <5>3. PICK k : k = P[n].call
          OBVIOUS
        <5>4. B[RecvBuf(g, p, k)] = DueOf(g, p, k, {g[p][k].peer})
          BY <2>3, <4>1, <5>2, <5>3 DEF Landed
        <5>5. Touched(k, g[p][k].v) \intersect Touched(j, g[p][j].v) = {}
          <6>1. /\ n \in DOMAIN posted[p] /\ r \in DOMAIN posted[p] /\ posted[p][n].open
                /\ posted[p][r].open /\ k = posted[p][n].call /\ j = posted[p][r].call
            BY <1>3, <2>1, <2>2, <2>4, <4>1, <5>3
          <6>2. Touched(k, program[p][k].v) \intersect Touched(j, program[p][j].v) = {}
            BY <4>3, <6>1, OpenDistinct
          <6>3. QED
            BY <1>3, <6>2
        <5>6. RecvBuf(g, p, k) # b
          BY <2>10, <5>5, InTouched
        <5>7. RecvBuf(g, p, k) \in Buffers(p)
          BY <1>3, <2>7, <4>1, <5>3, OpenBefore
        <5>8. QED
          BY <2>8, <4>1, <5>3, <5>4, <5>6, <5>7
      <4>4. QED
        BY <4>2, <4>3
    <3>3. QED
      BY <3>2 DEF Landed
  <2>14. QED
    BY <1>1, <1>3, <2>9, <2>11, <2>12, <2>13 DEF Flow
<1>6. QED
  BY <1>4, <1>5

-----------------------------------------------------------------------------
(* What the kernel k makes of the memory B.                                *)
Ran(g, p, k, B, D) ==
  LET i == k.call
      s == Subj(g, p, i)
  IN
  /\ \A b \in Buffers(p) : b \notin WritesOf(g, p, k) => D[b] = B[b]
  /\ k.op = "produce" /\ Contributes(p, g[p][i]) => D[OwnView(g[p][i])] = {<<p, i>>}
  /\ k.op = "pack" => D[<<"packed sv", i>>] = B[OwnView(g[p][i])]
  /\ k.op = "unpack" => D[RecvView(g[p][s])] = B[<<"packed rv", s>>]

LEMMA RunFacts ==
  ASSUME IInv, NEW p \in Ranks, Run(p)
  PROVE  /\ UNCHANGED <<program, at, todo, posted, entered, aborted>>
         /\ queue[p] # <<>> /\ queue'[p] = Tail(queue[p])
         /\ Ran(program, p, Head(queue[p]), buf[p], buf'[p])
         /\ \A q \in Ranks \ {p} : queue'[q] = queue[q] /\ buf'[q] = buf[q]
<1>1. /\ UNCHANGED <<program, at, todo, posted, entered, aborted>>
      /\ queue[p] # <<>> /\ queue' = [queue EXCEPT ![p] = Tail(@)]
  BY DEF Run
<1>2. PICK g, B, k, i, s, D :
        g = program /\ B = buf[p] /\ k = Head(queue[p]) /\ i = k.call /\ s = Subj(g, p, i)
          /\ D = buf'[p]
  OBVIOUS
<1>3. PICK W, N : W = WritesOf(g, p, k) /\ N = UNION {B[b] : b \in Inputs(g, p, k)}
  OBVIOUS
<1>4. Writes(p, k) = W /\ UNION {buf[p][b] : b \in Reads(p, k)} = N
  BY <1>2, <1>3, WritesBridged, ReadsBridged
<1>5. PICK F : F = [b \in Buffers(p) |->
           IF b \notin W THEN B[b]
           ELSE IF k.op # "produce" THEN N
           ELSE IF Contributes(p, g[p][i]) /\ b = OwnView(g[p][i]) THEN {<<p, i>>} ELSE {}]
  OBVIOUS
<1>6. buf' = [buf EXCEPT ![p] = F]
  BY <1>2, <1>4, <1>5 DEF Run
<1>7. D = F /\ \A q \in Ranks \ {p} : queue'[q] = queue[q] /\ buf'[q] = buf[q]
  BY <1>1, <1>2, <1>6 DEF IInv, Domains
<1>8. queue'[p] = Tail(queue[p])
  BY <1>1 DEF IInv, Domains
<1>9. Kernel(p, k) /\ k.op \in Enqueued \union {"produce"} /\ i \in Calls(p) /\ s \in Calls(p)
  <2>1. queue[p] \in Seq(KernelRecords) /\ \A n \in DOMAIN queue[p] : Kernel(p, queue[p][n])
    BY KernelsTyped
  <2>2. 1 \in DOMAIN queue[p] /\ k = queue[p][1]
    BY <1>1, <1>2, <2>1
  <2>3. Kernel(p, k)
    BY <2>1, <2>2
  <2>4. i \in Calls(p) /\ Promise!Subject(p, i) \in Calls(p)
    BY <1>2, <2>3, KernelMemory
  <2>5. QED
    BY <1>2, <2>3, <2>4, Bridged DEF Kernel
<1>10. /\ OwnView(g[p][i]) \in Buffers(p) /\ RecvView(g[p][s]) \in Buffers(p)
       /\ <<"packed sv", i>> \in Buffers(p)
  <2>1. OwnView(g[p][i]) \in Buffers(p) /\ RecvView(g[p][s]) \in Buffers(p)
    BY <1>2, <1>9, Contributed
  <2>2. QED
    BY <1>9, <2>1 DEF Buffers
<1>11. \A b \in Buffers(p) : b \notin W => F[b] = B[b]
  BY <1>5
<1>12. k.op = "produce" /\ Contributes(p, g[p][i]) => F[OwnView(g[p][i])] = {<<p, i>>}
  <2>1. SUFFICES ASSUME k.op = "produce", Contributes(p, g[p][i])
                 PROVE  F[OwnView(g[p][i])] = {<<p, i>>}
    OBVIOUS
  <2>2. OwnView(g[p][i]) \in W
    BY <1>2, <1>3, <2>1 DEF WritesOf
  <2>3. QED
    BY <1>5, <1>10, <2>1, <2>2
<1>13. k.op = "pack" => F[<<"packed sv", i>>] = B[OwnView(g[p][i])]
  <2>1. SUFFICES ASSUME k.op = "pack" PROVE F[<<"packed sv", i>>] = B[OwnView(g[p][i])]
    OBVIOUS
  <2>2. <<"packed sv", i>> \in W
    BY <1>2, <1>3, <2>1 DEF WritesOf
  <2>3. Inputs(g, p, k) = {OwnView(g[p][i])}
    BY <1>2, <2>1 DEF Inputs
  <2>4. N = B[OwnView(g[p][i])]
    BY <1>3, <2>3
  <2>5. QED
    BY <1>5, <1>10, <2>1, <2>2, <2>4
<1>14. k.op = "unpack" => F[RecvView(g[p][s])] = B[<<"packed rv", s>>]
  <2>1. SUFFICES ASSUME k.op = "unpack" PROVE F[RecvView(g[p][s])] = B[<<"packed rv", s>>]
    OBVIOUS
  <2>2. RecvView(g[p][s]) \in W
    BY <1>2, <1>3, <2>1 DEF WritesOf
  <2>3. Inputs(g, p, k) = {<<"packed rv", s>>}
    BY <1>2, <2>1 DEF Inputs
  <2>4. N = B[<<"packed rv", s>>]
    BY <1>3, <2>3
  <2>5. QED
    BY <1>5, <1>10, <2>1, <2>2, <2>4
<1>15. Ran(g, p, k, B, D)
  BY <1>2, <1>3, <1>7, <1>11, <1>12, <1>13, <1>14 DEF Ran
<1>16. QED
  BY <1>1, <1>2, <1>7, <1>8, <1>15

(* No kernel writes a packed copy that was received.                       *)
LEMMA PackedKept ==
  ASSUME NEW g, NEW p, NEW k, NEW i
  PROVE  <<"packed rv", i>> \notin WritesOf(g, p, k)
BY DEF WritesOf, RecvView, OwnView

LEMMA TailOf ==
  ASSUME NEW S, NEW Q \in Seq(S), Q # <<>>, NEW R, R = Tail(Q)
  PROVE  /\ Len(Q) \in Nat /\ Len(Q) > 0 /\ DOMAIN Q = 1 .. Len(Q) /\ Head(Q) = Q[1]
         /\ R \in Seq(S) /\ Len(R) = Len(Q) - 1 /\ DOMAIN R = 1 .. Len(Q) - 1
         /\ \A n \in DOMAIN R : R[n] = Q[n + 1]
         /\ R = <<>> => Len(Q) = 1
<1>1. Len(Q) \in Nat /\ Len(Q) > 0 /\ DOMAIN Q = 1 .. Len(Q) /\ Head(Q) = Q[1]
  OBVIOUS
<1>2. R \in Seq(S) /\ Len(R) = Len(Q) - 1 /\ DOMAIN R = 1 .. Len(Q) - 1
      /\ \A n \in DOMAIN R : R[n] = Q[n + 1]
  OBVIOUS
<1>3. Len(<<>>) = 0
  OBVIOUS
<1>4. R = <<>> => Len(R) = 0
  BY <1>3, Zenon
<1>5. R = <<>> => Len(Q) = 1
  <2>1. PICK l, m : l = Len(Q) /\ m = Len(R)
    OBVIOUS
  <2>2. l \in Nat /\ m = l - 1
    BY <1>1, <1>2, <2>1
  <2>3. m = 0 => l = 1
    BY <2>2
  <2>4. QED
    BY <1>4, <2>1, <2>3, Zenon
<1>6. QED
  BY <1>1, <1>2, <1>5

Shifted(Q, R, n) ==
  /\ n \in Nat /\ n > 0 /\ n + 1 > 1 /\ n + 1 # 1 /\ (n + 1) - 1 = n
  /\ n + 1 \in DOMAIN Q /\ 1 \in DOMAIN Q /\ R[n] = Q[n + 1] /\ Head(Q) = Q[1]
  /\ \A m \in 1 .. n - 1 : R[m] = Q[m + 1] /\ m + 1 \in 1 .. n
  /\ n > 1 => R[n - 1] = Q[n]
  /\ 1 \in 1 .. n /\ (n = 1 \/ n > 1)

LEMMA TailAt ==
  ASSUME NEW S, NEW Q \in Seq(S), Q # <<>>, NEW R, R = Tail(Q), NEW n \in DOMAIN R
  PROVE  Shifted(Q, R, n)
<1>1. PICK l : l = Len(Q)
  OBVIOUS
<1>2. /\ l \in Nat /\ n \in 1 .. l - 1 /\ Head(Q) = Q[1]
      /\ \A m \in 1 .. l - 1 : R[m] = Q[m + 1]
  BY <1>1, TailOf
<1>3. /\ n \in Nat /\ n > 0 /\ n + 1 > 1 /\ n + 1 # 1 /\ (n + 1) - 1 = n /\ 1 \in 1 .. n
      /\ (n = 1 \/ n > 1)
  BY <1>2
<1>4. \A m \in 1 .. n - 1 : m \in 1 .. l - 1 /\ m + 1 \in 1 .. n
  BY <1>2
<1>5. ASSUME n > 1 PROVE R[n - 1] = Q[n]
  <2>1. n - 1 \in 1 .. l - 1 /\ (n - 1) + 1 = n
    BY <1>2, <1>5
  <2>2. QED
    BY <1>2, <2>1
<1>6. QED
  <2>1. n + 1 \in DOMAIN Q /\ 1 \in DOMAIN Q
    <3>1. n + 1 \in 1 .. l /\ 1 \in 1 .. l
      BY <1>2
    <3>2. QED
      BY <1>1, <3>1, TailOf
  <2>2. QED
    BY <1>2, <1>3, <1>4, <1>5, <2>1 DEF Shifted

Housed(g, p, i) == RecvView(g[p][i]) \in Buffers(p) /\ <<"packed rv", i>> \in Buffers(p)

LEMMA FedRun ==
  ASSUME NEW g, NEW p, NEW Q \in Seq(KernelRecords), Q # <<>>, NEW R, R = Tail(Q), NEW B, NEW D,
         Ran(g, p, Head(Q), B, D), NEW n \in DOMAIN R, \A l \in DOMAIN Q : Fed(g, p, Q, B, l),
         Housed(g, p, Subj(g, p, R[n].call))
  PROVE  Fed(g, p, R, D, n)
<1>1. PICK k, i, s : k = R[n] /\ i = k.call /\ s = Subj(g, p, i)
  OBVIOUS
<1>2. /\ n \in Nat /\ n > 0 /\ n + 1 > 1 /\ n + 1 # 1 /\ (n + 1) - 1 = n /\ Q[n + 1] = k
      /\ n + 1 \in DOMAIN Q /\ 1 \in DOMAIN Q /\ Head(Q) = Q[1]
      /\ \A m \in 1 .. n - 1 : R[m] = Q[m + 1] /\ m + 1 \in 1 .. n
      /\ n > 1 => R[n - 1] = Q[n]
      /\ 1 \in 1 .. n /\ (n = 1 \/ n > 1)
  <2>1. Shifted(Q, R, n)
    BY TailAt
  <2>2. QED
    BY <1>1, <2>1 DEF Shifted
<1>3. PICK h : h = Q[1]
  OBVIOUS
<1>4. k.op = "pack" =>
        /\ Contributes(p, g[p][i])
        /\ \/ n = 1 /\ D[OwnView(g[p][i])] = {<<p, i>>}
           \/ n > 1 /\ R[n - 1] = [op |-> "produce", call |-> i]
  <2>1. SUFFICES ASSUME k.op = "pack"
                 PROVE /\ Contributes(p, g[p][i])
                       /\ \/ n = 1 /\ D[OwnView(g[p][i])] = {<<p, i>>}
                          \/ n > 1 /\ R[n - 1] = [op |-> "produce", call |-> i]
    OBVIOUS
  <2>2. Contributes(p, g[p][i]) /\ Q[n] = [op |-> "produce", call |-> i]
    BY <1>1, <1>2, <2>1 DEF Fed
  <2>3. CASE n = 1
    <3>1. h = [op |-> "produce", call |-> i]
      BY <1>3, <2>2, <2>3
    <3>3. h.op = "produce" /\ h.call = i
      BY <3>1
    <3>2. D[OwnView(g[p][i])] = {<<p, i>>}
      BY <1>2, <1>3, <2>2, <3>3 DEF Ran, Housed
    <3>4. QED
      BY <2>2, <2>3, <3>2
  <2>4. CASE n > 1
    BY <1>2, <2>2, <2>4
  <2>5. QED
    BY <1>2, <2>3, <2>4
<1>5. k.op = "unpack" => D[<<"packed rv", s>>] = Due(g, p, i)
  <2>1. SUFFICES ASSUME k.op = "unpack" PROVE D[<<"packed rv", s>>] = Due(g, p, i)
    OBVIOUS
  <2>2. B[<<"packed rv", s>>] = Due(g, p, i)
    BY <1>1, <1>2, <2>1 DEF Fed
  <2>3. <<"packed rv", s>> \notin WritesOf(g, p, h)
    BY PackedKept
  <2>4. D[<<"packed rv", s>>] = B[<<"packed rv", s>>]
    BY <1>1, <1>2, <1>3, <2>3 DEF Ran, Housed
  <2>5. QED
    BY <2>2, <2>4
<1>6. k.op = "consume" /\ Brings(g, p, i) # {} =>
        \/ n > 1 /\ R[n - 1] = [op |-> "unpack", call |-> i]
        \/ /\ D[RecvView(g[p][s])] = Due(g, p, i)
           /\ \A m \in 1 .. n - 1 : RecvView(g[p][s]) \notin WritesOf(g, p, R[m])
  <2>1. SUFFICES ASSUME k.op = "consume", Brings(g, p, i) # {}
                 PROVE  \/ n > 1 /\ R[n - 1] = [op |-> "unpack", call |-> i]
                        \/ /\ D[RecvView(g[p][s])] = Due(g, p, i)
                           /\ \A m \in 1 .. n - 1 : RecvView(g[p][s]) \notin WritesOf(g, p, R[m])
    OBVIOUS
  <2>2. \/ Q[n] = [op |-> "unpack", call |-> i]
        \/ /\ B[RecvView(g[p][s])] = Due(g, p, i)
           /\ \A m \in 1 .. n : RecvView(g[p][s]) \notin WritesOf(g, p, Q[m])
    BY <1>1, <1>2, <2>1 DEF Fed
  <2>3. CASE Q[n] = [op |-> "unpack", call |-> i] /\ n > 1
    BY <1>2, <2>3
  <2>4. CASE Q[n] = [op |-> "unpack", call |-> i] /\ n = 1
    <3>0. h = [op |-> "unpack", call |-> i]
      BY <1>3, <2>4
    <3>1. h.op = "unpack" /\ h.call = i
      BY <3>0
    <3>2. B[<<"packed rv", s>>] = Due(g, p, i)
      <4>1. Fed(g, p, Q, B, 1)
        BY <1>2
      <4>2. QED
        BY <1>1, <1>3, <3>1, <4>1 DEF Fed
    <3>3. D[RecvView(g[p][s])] = B[<<"packed rv", s>>]
      BY <1>1, <1>2, <1>3, <3>1 DEF Ran, Housed
    <3>4. \A m : m \notin 1 .. n - 1
      <4>1. \A m : m \notin 1 .. 1 - 1
        OBVIOUS
      <4>2. QED
        BY <2>4, <4>1, Zenon
    <3>5. QED
      BY <3>2, <3>3, <3>4
  <2>5. CASE /\ B[RecvView(g[p][s])] = Due(g, p, i)
             /\ \A m \in 1 .. n : RecvView(g[p][s]) \notin WritesOf(g, p, Q[m])
    <3>1. RecvView(g[p][s]) \notin WritesOf(g, p, h)
      BY <1>2, <1>3, <2>5
    <3>2. D[RecvView(g[p][s])] = B[RecvView(g[p][s])]
      BY <1>1, <1>2, <1>3, <3>1 DEF Ran, Housed
    <3>3. \A m \in 1 .. n - 1 : RecvView(g[p][s]) \notin WritesOf(g, p, R[m])
      BY <1>2, <2>5
    <3>4. QED
      BY <2>5, <3>2, <3>3
  <2>6. QED
    BY <1>2, <2>2, <2>3, <2>4, <2>5
<1>7. QED
  BY <1>1, <1>4, <1>5, <1>6 DEF Fed

LEMMA ReadyRun ==
  ASSUME NEW Q \in Seq(KernelRecords), Q # <<>>, NEW R, R = Tail(Q), NEW B, NEW D, NEW b, NEW v, NEW k,
         Ready(Q, B, b, v, k), k = Head(Q) => D[b] = v
  PROVE  Ready(R, D, b, v, k)
<1>1. Q[Len(Q)] = k
  BY DEF Ready
<1>2. CASE R = <<>>
  <2>1. Len(Q) = 1 /\ Head(Q) = Q[1]
    BY <1>2, TailOf
  <2>2. QED
    BY <1>1, <1>2, <2>1 DEF Ready
<1>3. CASE R # <<>>
  <2>1. R[Len(R)] = Q[Len(Q)]
    <3>1. Len(R) \in Nat /\ Len(R) > 0 /\ Len(R) \in DOMAIN R
      BY <1>3
    <3>2. Len(R) + 1 = Len(Q) /\ R[Len(R)] = Q[Len(R) + 1]
      BY <3>1, TailOf
    <3>3. QED
      BY <3>2
  <2>2. QED
    BY <1>1, <1>3, <2>1 DEF Ready
<1>4. QED
  BY <1>2, <1>3

LEMMA FlowRun ==
  ASSUME IInv, Delivering, NEW p \in Ranks, Run(p), at[p] > 0
  PROVE  Flow(p)'
<1>1. /\ UNCHANGED <<program, at, todo, posted>>
      /\ queue[p] # <<>> /\ queue'[p] = Tail(queue[p])
      /\ Ran(program, p, Head(queue[p]), buf[p], buf'[p])
  BY RunFacts
<1>2. PICK g, a, c, s, t, Q, R, B, D, P, h :
        /\ g = program /\ a = at[p] /\ c = g[p][a] /\ s = Subj(g, p, a) /\ t = todo[p] /\ Q = queue[p]
        /\ R = queue'[p] /\ B = buf[p] /\ D = buf'[p] /\ P = posted[p] /\ h = Head(Q)
  OBVIOUS
<1>3. Q \in Seq(KernelRecords) /\ Q # <<>> /\ R = Tail(Q) /\ Ran(g, p, h, B, D)
  BY <1>1, <1>2, KernelsTyped
<1>4. /\ \A n \in DOMAIN Q : Fed(g, p, Q, B, n)
      /\ Giving(g, p, a, t, Q, B) /\ Bringing(g, p, a, t, Q, B) /\ Landed(g, p, P, B)
  BY <1>2 DEF Delivering, Flow
<1>5. h = Q[1] /\ 1 \in DOMAIN Q /\ (\A n \in DOMAIN R : n + 1 \in DOMAIN Q /\ R[n] = Q[n + 1])
  BY <1>2, <1>3
<1>6. \A k \in Calls(p) :
        /\ RecvView(g[p][k]) \in Buffers(p) /\ RecvBuf(g, p, k) \in Buffers(p)
        /\ <<"packed rv", k>> \in Buffers(p) /\ <<"packed sv", k>> \in Buffers(p)
        /\ Subj(g, p, k) \in Calls(p)
  <2>1. SUFFICES ASSUME NEW k \in Calls(p)
                 PROVE  /\ RecvView(g[p][k]) \in Buffers(p) /\ RecvBuf(g, p, k) \in Buffers(p)
                        /\ <<"packed rv", k>> \in Buffers(p) /\ <<"packed sv", k>> \in Buffers(p)
                        /\ Subj(g, p, k) \in Calls(p)
    OBVIOUS
  <2>2. RecvView(g[p][k]) \in Buffers(p) /\ RecvBuf(g, p, k) \in Buffers(p)
    BY <1>2, Contributed, Bridged
  <2>3. <<"packed rv", k>> \in Buffers(p) /\ <<"packed sv", k>> \in Buffers(p)
    BY DEF Buffers
  <2>4. Promise!Subject(p, k) \in Calls(p) /\ Promise!Subject(p, k) = Subj(program, p, k)
    BY FromRanks, Bridged DEF IInv, Domains
  <2>5. QED
    BY <1>2, <2>2, <2>3, <2>4
<1>7. a \in Calls(p) /\ a \in Nat
  BY <1>2, Here
<1>8. ASSUME NEW n \in DOMAIN R PROVE Fed(g, p, R, D, n)
  <2>1. R[n].call \in Calls(p)
    <3>1. Kernel(p, Q[n + 1])
      BY <1>2, <1>5, KernelsTyped
    <3>2. QED
      BY <1>5, <3>1, KernelMemory
  <2>2. Housed(g, p, Subj(g, p, R[n].call))
    BY <1>6, <2>1 DEF Housed
  <2>3. QED
    BY <1>2, <1>3, <1>4, <2>2, FedRun
<1>9. Giving(g, p, a, t, R, D)
  <2>1. SUFFICES ASSUME Contributes(p, c), Range(t) \intersect {"collective", "message"} # {}
                 PROVE  Giving(g, p, a, t, R, D)
    BY <1>2 DEF Giving
  <2>2. CASE "pack" \notin Range(t) /\ Packs(c)
    <3>1. PICK k : k = [op |-> "pack", call |-> a]
      OBVIOUS
    <3>2. Ready(Q, B, <<"packed sv", a>>, {<<p, a>>}, k)
      BY <1>2, <1>4, <2>1, <2>2, <3>1 DEF Giving
    <3>3. ASSUME k = h PROVE D[<<"packed sv", a>>] = {<<p, a>>}
      <4>1. h.op = "pack" /\ h.call = a
        BY <3>1, <3>3
      <4>2. Fed(g, p, Q, B, 1)
        BY <1>4, <1>5
      <4>3. B[OwnView(g[p][a])] = {<<p, a>>}
        BY <1>5, <4>1, <4>2 DEF Fed
      <4>4. D[<<"packed sv", a>>] = B[OwnView(g[p][a])]
        BY <1>3, <4>1 DEF Ran
      <4>5. QED
        BY <4>3, <4>4
    <3>4. Ready(R, D, <<"packed sv", a>>, {<<p, a>>}, k)
      BY <1>2, <1>3, <3>2, <3>3, ReadyRun
    <3>5. QED
      BY <1>2, <2>2, <3>1, <3>4 DEF Giving
  <2>3. CASE ~ ("pack" \notin Range(t) /\ Packs(c))
    <3>1. PICK k : k = [op |-> "produce", call |-> a]
      OBVIOUS
    <3>2. Ready(Q, B, OwnView(c), {<<p, a>>}, k)
      BY <1>2, <1>4, <2>1, <2>3, <3>1 DEF Giving
    <3>3. ASSUME k = h PROVE D[OwnView(c)] = {<<p, a>>}
      <4>1. h.op = "produce" /\ h.call = a
        BY <3>1, <3>3
      <4>2. QED
        BY <1>2, <1>3, <2>1, <4>1 DEF Ran
    <3>4. Ready(R, D, OwnView(c), {<<p, a>>}, k)
      BY <1>2, <1>3, <3>2, <3>3, ReadyRun
    <3>5. QED
      BY <1>2, <2>3, <3>1, <3>4 DEF Giving
  <2>4. QED
    BY <2>2, <2>3
<1>10. Bringing(g, p, a, t, R, D)
  <2>1. SUFFICES ASSUME t # <<>>, Past(t), Brings(g, p, a) # {}
                 PROVE  Bringing(g, p, a, t, R, D)
    BY DEF Bringing
  <2>2. RecvView(g[p][s]) \in Buffers(p) /\ <<"packed rv", s>> \in Buffers(p)
    BY <1>2, <1>6, <1>7
  <2>3. CASE "unpack" \in Range(t)
    <3>1. D[<<"packed rv", s>>] = B[<<"packed rv", s>>]
      BY <1>3, <2>2, PackedKept DEF Ran
    <3>2. QED
      BY <1>2, <1>4, <2>1, <2>3, <3>1 DEF Bringing
  <2>4. CASE "unpack" \notin Range(t)
    <3>1. PICK k : k = [op |-> "unpack", call |-> a]
      OBVIOUS
    <3>2. \/ Q[Len(Q)] = k
          \/ /\ B[RecvView(g[p][s])] = Due(g, p, a)
             /\ \A m \in DOMAIN Q : RecvView(g[p][s]) \notin WritesOf(g, p, Q[m])
      BY <1>2, <1>4, <2>1, <2>4, <3>1 DEF Bringing
    <3>3. CASE Q[Len(Q)] = k /\ R # <<>>
      <4>1. R[Len(R)] = k
        BY <1>3, <3>3
      <4>2. QED
        BY <1>2, <2>4, <3>1, <3>3, <4>1 DEF Bringing
    <3>4. CASE Q[Len(Q)] = k /\ R = <<>>
      <4>1. Len(Q) = 1
        BY <1>3, <3>4, TailOf
      <4>2. h.op = "unpack" /\ h.call = a
        BY <1>5, <3>1, <3>4, <4>1
      <4>3. B[<<"packed rv", s>>] = Due(g, p, a)
        <5>1. Fed(g, p, Q, B, 1)
          BY <1>4, <1>5
        <5>2. QED
          BY <1>2, <1>5, <4>2, <5>1 DEF Fed
      <4>4. D[RecvView(g[p][s])] = B[<<"packed rv", s>>]
        BY <1>2, <1>3, <4>2 DEF Ran
      <4>5. \A m \in DOMAIN R : FALSE
        BY <3>4
      <4>6. QED
        BY <1>2, <2>4, <4>3, <4>4, <4>5 DEF Bringing
    <3>5. CASE /\ B[RecvView(g[p][s])] = Due(g, p, a)
               /\ \A m \in DOMAIN Q : RecvView(g[p][s]) \notin WritesOf(g, p, Q[m])
      <4>1. D[RecvView(g[p][s])] = B[RecvView(g[p][s])]
        BY <1>3, <1>5, <2>2, <3>5 DEF Ran
      <4>2. \A m \in DOMAIN R : RecvView(g[p][s]) \notin WritesOf(g, p, R[m])
        BY <1>5, <3>5
      <4>3. QED
        BY <1>2, <2>4, <3>5, <4>1, <4>2 DEF Bringing
    <3>6. QED
      BY <3>2, <3>3, <3>4, <3>5
  <2>5. QED
    BY <2>3, <2>4
<1>11. Landed(g, p, P, D)
  <2>1. ASSUME NEW n \in DOMAIN P, P[n].kind = "recv" /\ P[n].matched /\ P[n].open, NEW j, j = P[n].call
        PROVE  D[RecvBuf(g, p, j)] = DueOf(g, p, j, {g[p][j].peer})
    <3>1. B[RecvBuf(g, p, j)] = DueOf(g, p, j, {g[p][j].peer})
      BY <1>4, <2>1 DEF Landed
    <3>2. RecvBuffer(p, j) \notin Writes(p, h)
      BY <1>2, <1>5, <2>1, Apart
    <3>3. RecvBuf(g, p, j) \notin WritesOf(g, p, h)
      BY <1>2, <3>2, Bridged, WritesBridged
    <3>4. RecvBuf(g, p, j) \in Buffers(p)
      <4>1. j \in Calls(p)
        BY <1>2, <2>1, OpenBefore
      <4>2. QED
        BY <1>6, <4>1
    <3>5. QED
      BY <1>3, <3>1, <3>3, <3>4 DEF Ran
  <2>2. QED
    BY <2>1 DEF Landed
<1>12. QED
  BY <1>1, <1>2, <1>8, <1>9, <1>10, <1>11 DEF Flow

-----------------------------------------------------------------------------
(* Delivering is kept by every step. Fair is what it says of one rank.      *)
Fair(p) ==
  /\ at[p] > 0 => Remains(program, p, at[p], todo[p])
  /\ Leads(todo[p])
  /\ Mail(p)
  /\ Entries(program, p, at[p], todo[p], entered[p])
  /\ Met(program, p, at[p], todo[p], at)
  /\ at[p] > 0 => Flow(p)

Same(q) ==
  /\ at'[q] = at[q] /\ todo'[q] = todo[q] /\ queue'[q] = queue[q] /\ buf'[q] = buf[q]
  /\ entered'[q] = entered[q] /\ posted'[q] = posted[q]

Grows == at' \in [Ranks -> Nat] /\ (\A x \in Ranks : at[x] <= at'[x]) /\ program' = program

LEMMA Stays ==
  ASSUME NEW q, posted'[q] = posted[q]
  PROVE  Kept(q)
BY DEF Kept, SameMail

LEMMA FairStays ==
  ASSUME IInv, Delivering, Grows, NEW q \in Ranks, Same(q)
  PROVE  Fair(q)'
<1>1. PICK g, a, t, E : g = program /\ a = at[q] /\ t = todo[q] /\ E = entered[q]
  OBVIOUS
<1>2. program' = g /\ at'[q] = a /\ todo'[q] = t /\ entered'[q] = E
  BY <1>1 DEF Same, Grows
<1>3. /\ a > 0 => Remains(g, q, a, t)
      /\ Leads(t) /\ Entries(g, q, a, t, E)
  BY <1>1 DEF Delivering
<1>4. Mail(q)'
  BY MailStays DEF Same, Grows
<1>5. Met(program, q, at[q], todo[q], at)'
  BY MetStep DEF Same, Grows
<1>6. at[q] > 0 => Flow(q)'
  BY FlowStays DEF Same, Grows
<1>7. QED
  BY <1>1, <1>2, <1>3, <1>4, <1>5, <1>6 DEF Fair

LEMMA FairAll ==
  ASSUME \A q \in Ranks : Fair(q)',
         \A p, q \in Ranks : \A tag \in Nat : Paired(program, p, q, tag, posted[p], posted[q])'
  PROVE  Delivering'
BY DEF Delivering, Fair

LEMMA FairOne ==
  ASSUME IInv, Delivering, Grows, NEW p \in Ranks, Fair(p)', Kept(p),
         \A q \in Ranks \ {p} : Same(q)
  PROVE  Delivering'
<1>1. \A q \in Ranks : Fair(q)'
  <2>1. ASSUME NEW q \in Ranks PROVE Fair(q)'
    <3>1. CASE q = p
      BY <3>1
    <3>2. CASE q # p
      BY <3>2, FairStays
    <3>3. QED
      BY <3>1, <3>2
  <2>2. QED
    BY <2>1
<1>2. \A q \in Ranks : Kept(q)
  <2>1. ASSUME NEW q \in Ranks, q # p PROVE Kept(q)
    BY <2>1, Stays DEF Same
  <2>2. QED
    BY <2>1
<1>3. ASSUME NEW x \in Ranks, NEW y \in Ranks, NEW tag \in Nat
      PROVE  Paired(program, x, y, tag, posted[x], posted[y])'
  BY <1>2, PairedKept DEF Grows
<1>4. QED
  BY <1>1, <1>3, FairAll

LEMMA DoesGrows ==
  ASSUME IInv, NEW p \in Ranks, NEW h, Does(p, h)
  PROVE  /\ Grows /\ at[p] > 0 /\ at'[p] = at[p]
         /\ \A q \in Ranks \ {p} : at'[q] = at[q] /\ todo'[q] = todo[q]
<1>1. at \in [Ranks -> Nat] /\ at' = at /\ program' = program /\ todo' = [todo EXCEPT ![p] = Tail(@)]
  BY DEF IInv, Domains, Does
<1>2. at[p] > 0
  BY DoesFacts
<1>3. QED
  BY <1>1, <1>2 DEF Grows

LEMMA FairDoes ==
  ASSUME IInv, Delivering, NEW p \in Ranks, NEW h, Does(p, h), Mail(p)', Flow(p)',
         Entries(program, p, at[p], todo[p], entered[p])',
         Met(program, p, at[p], todo[p], at)'
  PROVE  Fair(p)'
<1>1. PICK g, a, u : g = program /\ a = at[p] /\ u = todo'[p]
  OBVIOUS
<1>2. /\ Remains(g, p, a, u) /\ at'[p] = a /\ program' = g
      /\ "pack" \notin Range(u)
  BY <1>1, DoesRemain
<1>3. Leads(u)
  BY <1>2 DEF Leads
<1>4. QED
  BY <1>1, <1>2, <1>3 DEF Fair

(* Steps that are not in MPI.                                              *)
LEMMA QuietFair ==
  ASSUME IInv, Delivering, NEW p \in Ranks, NEW h, Does(p, h), h \notin InMpi, Flow(p)',
         posted'[p] = posted[p], entered'[p] = entered[p]
  PROVE  Fair(p)'
<1>1. h \notin {"message", "finish", "collective"}
  BY DEF InMpi
<1>2. Mail(p)' /\ Entries(program, p, at[p], todo[p], entered[p])'
  BY <1>1, MailDoes, EntriesDoes
<1>3. Past(todo'[p]) => Past(todo[p])
  BY DoesRemain
<1>4. Met(program, p, at[p], todo[p], at)'
  BY <1>3, DoesGrows, MetStep DEF Grows
<1>5. QED
  BY <1>2, <1>4, FairDoes

LEMMA MpiMet ==
  ASSUME IInv, Aligning, Delivering, Fits(program), NEW p \in Ranks, NEW h, Does(p, h),
         Enter(p) \/ Leave(p) \/ Message(p) \/ Finish(p)
  PROVE  Met(program, p, at[p], todo[p], at)'
<1>1. \/ Past(todo'[p]) => Past(todo[p])
      \/ \A q \in Wants(program, p, at[p]) :
           \E j \in 1 .. at[q] : Meets(program, p, Subj(program, p, at[p]), q, j)
  BY MetInMpi
<1>2. QED
  BY <1>1, DoesGrows, MetStep DEF Grows

-----------------------------------------------------------------------------
LEMMA CallDelivers ==
  ASSUME IInv, Delivering, NEW p \in Ranks, Call(p)
  PROVE  Delivering'
<1>1. PICK g, a, i, c, u : g = program /\ a = at[p] /\ i = a + 1 /\ c = g[p][i] /\ u = todo'[p]
  OBVIOUS
<1>2. /\ i \in Nat /\ a \in Nat /\ at'[p] = i /\ program' = g /\ Remains(g, p, i, u)
      /\ Starts(c, c.fn \notin Promise!Posts /\ Unpacks(p, g[p][Subj(g, p, i)]), u)
      /\ \A q \in Ranks \ {p} : at'[q] = at[q] /\ todo'[q] = todo[q]
  BY <1>1, CallStarts
<1>3. Leads(u)
  <2>1. SUFFICES ASSUME "pack" \in Range(u) PROVE Range(u) \intersect {"collective", "message"} # {}
    BY DEF Leads
  <2>2. Packs(c)
    BY <1>2, <2>1 DEF Starts, Rest, Range
  <2>3. c.fn \in {"send", "isend", "reduce"}
    BY <2>2 DEF Packs
  <2>4. CASE c.fn \in {"send", "isend"}
    BY <1>2, <2>4 DEF Starts, Messages, Promise!Senders
  <2>5. CASE c.fn = "reduce"
    BY <1>2, <2>5 DEF Starts, Promise!PointToPoint, Promise!Senders, Promise!Receivers
  <2>6. QED
    BY <2>3, <2>4, <2>5
<1>4. Grows
  <2>1. at \in [Ranks -> Nat] /\ at' = [at EXCEPT ![p] = @ + 1] /\ program' = program
    BY DEF Call, IInv, Domains
  <2>2. at' \in [Ranks -> Nat] /\ \A x \in Ranks : at[x] <= at'[x]
    BY <2>1
  <2>3. QED
    BY <2>1, <2>2 DEF Grows
<1>5. /\ \A q \in Ranks \ {p} : Same(q)
      /\ posted' = posted
  <2>1. UNCHANGED <<buf, entered, posted>>
    BY DEF Call
  <2>2. ASSUME NEW q \in Ranks, q # p PROVE queue'[q] = queue[q]
    <3>1. queue' = queue \/ queue' = [queue EXCEPT ![p] = Append(@, [op |-> "produce", call |-> at'[p]])]
      BY DEF Call
    <3>2. QED
      BY <2>2, <3>1 DEF IInv, Domains
  <2>3. QED
    BY <1>2, <2>1, <2>2 DEF Same
<1>6. Mail(p)' /\ Entries(program, p, at[p], todo[p], entered[p])' /\ Flow(p)'
  BY MailCall, EntriesCall, FlowCall
<1>7. Met(program, p, at[p], todo[p], at)'
  BY <1>4, MetCall DEF Grows
<1>8. Fair(p)'
  BY <1>1, <1>2, <1>3, <1>6, <1>7 DEF Fair
<1>9. Kept(p)
  BY <1>5, Stays
<1>10. QED
  BY <1>4, <1>5, <1>8, <1>9, FairOne

LEMMA FenceDelivers ==
  ASSUME IInv, Delivering, NEW p \in Ranks, Fence(p)
  PROVE  Delivering'
<1>1. Does(p, "fence") /\ UNCHANGED <<queue, buf, entered, posted>>
  BY DEF Fence, At, Done, Does
<1>2. Grows /\ \A q \in Ranks \ {p} : Same(q)
  BY <1>1, DoesGrows DEF Same
<1>3. Flow(p)'
  BY <1>1, FlowIdle DEF InMpi, Enqueued
<1>4. Fair(p)'
  BY <1>1, <1>3, QuietFair DEF InMpi
<1>5. Kept(p)
  BY <1>1, Stays
<1>6. QED
  BY <1>2, <1>4, <1>5, FairOne

LEMMA EnqueueDelivers ==
  ASSUME IInv, Aligning, Delivering, NEW p \in Ranks, Enqueue(p)
  PROVE  Delivering'
<1>1. PICK h \in Enqueued : At(p, h) /\ Launch(p, h) /\ Done(p)
  BY DEF Enqueue, Enqueued
<1>2. Does(p, h) /\ UNCHANGED <<buf, entered, posted>>
  BY <1>1 DEF Enqueue, At, Done, Does
<1>3. \A q \in Ranks \ {p} : queue'[q] = queue[q]
  BY <1>1 DEF Launch, IInv, Domains
<1>4. Grows /\ \A q \in Ranks \ {p} : Same(q)
  BY <1>2, <1>3, DoesGrows DEF Same
<1>5. Flow(p)'
  BY FlowEnqueue
<1>6. Fair(p)'
  <2>1. h \notin InMpi
    BY DEF InMpi, Enqueued
  <2>2. QED
    BY <1>2, <1>5, <2>1, QuietFair
<1>7. Kept(p)
  BY <1>2, Stays
<1>8. QED
  BY <1>4, <1>6, <1>7, FairOne

LEMMA CheckDelivers ==
  ASSUME IInv, Aligning, Delivering, NEW p \in Ranks, Check(p)
  PROVE  Delivering'
<1>1. UNCHANGED <<program, at, queue, buf, entered, posted>>
  BY DEF Check
<1>2. PICK h \in Screens :
        /\ At(p, h)
        /\ \/ Accepted(Current(p), h) /\ Done(p) /\ UNCHANGED aborted
           \/ /\ ~ Accepted(Current(p), h) /\ Current(p).fn \in Promise!Scans
              /\ todo' = [todo EXCEPT ![p] = <<>>] /\ UNCHANGED aborted
           \/ /\ ~ Accepted(Current(p), h) /\ Current(p).fn \notin Promise!Scans
              /\ aborted' = TRUE /\ UNCHANGED todo
  BY Checked
<1>3. Kept(p)
  BY <1>1, Stays
<1>4. Grows
  BY <1>1 DEF Grows, IInv, Domains
<1>5. CASE Done(p)
  <2>1. Does(p, h)
    BY <1>1, <1>2, <1>5 DEF At, Done, Does
  <2>2. \A q \in Ranks \ {p} : Same(q)
    BY <1>1, <2>1, DoesGrows DEF Same
  <2>3. h \notin InMpi \union Enqueued
    BY DEF InMpi, Enqueued, Screens
  <2>4. Flow(p)'
    BY <1>1, <2>1, <2>3, FlowIdle
  <2>5. Fair(p)'
    BY <1>1, <2>1, <2>3, <2>4, QuietFair
  <2>6. QED
    BY <1>3, <1>4, <2>2, <2>5, FairOne
<1>6. CASE /\ ~ Accepted(Current(p), h) /\ Current(p).fn \in Promise!Scans
           /\ todo' = [todo EXCEPT ![p] = <<>>]
  <2>1. todo[p] # <<>> /\ h = Head(todo[p])
    BY <1>2 DEF At
  <2>2. /\ todo'[p] = <<>> /\ \A q \in Ranks \ {p} : Same(q)
    BY <1>1, <1>6 DEF Same, IInv, Domains
  <2>3. /\ Current(p) = program[p][at[p]] /\ at[p] > 0 /\ Ordered(Current(p), todo[p])
        /\ at'[p] = at[p]
    BY <1>1, <2>1, Here
  <2>4. ~ Takes(program[p][at[p]])
    <3>1. Shape(Current(p), todo[p])
      BY DEF Aligning, Aligned
    <3>2. QED
      BY <1>6, <2>1, <2>3, <3>1, FirstShape
  <2>5. program[p][at[p]].fn \in Promise!Scans
    BY <1>6, <2>3
  <2>6. Mail(p)' /\ Flow(p)'
    BY <1>1, <2>2, <2>3, <2>5, MailThrows, FlowThrows
  <2>7. Entries(program, p, at[p], todo[p], entered[p])'
    BY <1>1, <2>2, <2>3, <2>4, <2>5, EntriesThrows
  <2>8. Met(program, p, at[p], todo[p], at)'
    BY <1>1, <1>4, <2>4, MetStep DEF Grows
  <2>9. \A c, v : Rest(c, v, <<>>)
    BY DEF Rest
  <2>10. Leads(<<>>)
    BY DEF Leads, Range
  <2>11. PICK g, a : g = program /\ a = at[p]
    OBVIOUS
  <2>12. Remains(g, p, a, <<>>)
    BY <2>9 DEF Remains
  <2>13. Fair(p)'
    BY <1>1, <2>2, <2>6, <2>7, <2>8, <2>10, <2>11, <2>12 DEF Fair
  <2>14. QED
    BY <1>3, <1>4, <2>2, <2>13, FairOne
<1>7. CASE UNCHANGED todo
  <2>1. \A q \in Ranks : Same(q)
    BY <1>1, <1>7 DEF Same
  <2>2. Fair(p)'
    BY <1>4, <2>1, FairStays
  <2>3. QED
    BY <1>3, <1>4, <2>1, <2>2, FairOne
<1>8. QED
  BY <1>2, <1>5, <1>6, <1>7

-----------------------------------------------------------------------------
LEMMA EnterDelivers ==
  ASSUME IInv, Aligning, Delivering, Fits(program), NEW p \in Ranks, Enter(p)
  PROVE  Delivering'
<1>1. Does(p, "collective") /\ UNCHANGED <<queue, buf, posted>>
  BY DEF Enter, At, Done, Does
<1>2. \A q \in Ranks \ {p} : entered'[q] = entered[q]
  BY DEF Enter, IInv, Domains
<1>3. Grows /\ \A q \in Ranks \ {p} : Same(q)
  BY <1>1, <1>2, DoesGrows DEF Same
<1>4. Mail(p)'
  BY <1>1, MailDoes
<1>5. Entries(program, p, at[p], todo[p], entered[p])' /\ Flow(p)'
  BY EntriesEnter, FlowEnter
<1>6. Met(program, p, at[p], todo[p], at)'
  BY <1>1, MpiMet
<1>7. Fair(p)'
  BY <1>1, <1>4, <1>5, <1>6, FairDoes
<1>8. Kept(p)
  BY <1>1, Stays
<1>9. QED
  BY <1>3, <1>7, <1>8, FairOne

LEMMA LeaveDelivers ==
  ASSUME IInv, Aligning, Delivering, Fits(program), NEW p \in Ranks, Leave(p)
  PROVE  Delivering'
<1>1. Does(p, "leave") /\ UNCHANGED <<queue, entered, posted>>
  BY DEF Leave, At, Done, Does
<1>2. \A q \in Ranks \ {p} : buf'[q] = buf[q]
  <2>1. buf' = buf \/ \E b, D : buf' = [buf EXCEPT ![p][b] = D]
    BY DEF Leave
  <2>2. QED
    BY <2>1 DEF IInv, Domains
<1>3. Grows /\ \A q \in Ranks \ {p} : Same(q)
  BY <1>1, <1>2, DoesGrows DEF Same
<1>4. Mail(p)' /\ Entries(program, p, at[p], todo[p], entered[p])'
  BY <1>1, MailDoes, EntriesDoes
<1>5. Flow(p)'
  BY FlowLeave
<1>6. Met(program, p, at[p], todo[p], at)'
  BY <1>1, MpiMet
<1>7. Fair(p)'
  BY <1>1, <1>4, <1>5, <1>6, FairDoes
<1>8. Kept(p)
  BY <1>1, Stays
<1>9. QED
  BY <1>3, <1>7, <1>8, FairOne

LEMMA MessageDelivers ==
  ASSUME IInv, Aligning, Delivering, Fits(program), NEW p \in Ranks, Message(p)
  PROVE  Delivering'
<1>1. Does(p, "message") /\ UNCHANGED <<queue, buf, entered>>
  BY MessageFacts DEF Message
<1>2. PICK r : Asks(p, r)
  BY MessageFacts
<1>3. \A q \in Ranks \ {p} : posted'[q] = posted[q]
  BY <1>2 DEF Asks
<1>4. Grows /\ \A q \in Ranks \ {p} : Same(q)
  BY <1>1, <1>3, DoesGrows DEF Same
<1>5. Mail(p)' /\ Flow(p)' /\ Entries(program, p, at[p], todo[p], entered[p])'
  BY <1>1, MailMessage, FlowMessage, EntriesDoes
<1>6. Met(program, p, at[p], todo[p], at)'
  BY <1>1, MpiMet
<1>7. Fair(p)'
  BY <1>1, <1>5, <1>6, FairDoes
<1>8. Kept(p)
  <2>1. at[p] \in Numbers(program, p)
    BY <1>1, DoesRemain
  <2>2. QED
    BY <1>2, <2>1 DEF Kept
<1>9. QED
  BY <1>4, <1>7, <1>8, FairOne

LEMMA FinishDelivers ==
  ASSUME IInv, Aligning, Delivering, Fits(program), NEW p \in Ranks, Finish(p)
  PROVE  Delivering'
<1>1. Does(p, "finish") /\ UNCHANGED <<queue, buf, entered>>
  BY FinishFacts DEF Finish
<1>2. PICK m \in DOMAIN posted[p] : Completes(p, m)
  BY FinishFacts
<1>3. \A q \in Ranks \ {p} : posted'[q] = posted[q]
  BY <1>2 DEF Completes
<1>4. Grows /\ \A q \in Ranks \ {p} : Same(q)
  BY <1>1, <1>3, DoesGrows DEF Same
<1>5. Mail(p)' /\ Flow(p)' /\ Entries(program, p, at[p], todo[p], entered[p])'
  BY <1>1, MailFinish, FlowFinish, EntriesDoes
<1>6. Met(program, p, at[p], todo[p], at)'
  BY <1>1, MpiMet
<1>7. Fair(p)'
  BY <1>1, <1>5, <1>6, FairDoes
<1>8. Kept(p)
  BY <1>2 DEF Kept, Completes
<1>9. QED
  BY <1>4, <1>7, <1>8, FairOne

LEMMA RunDelivers ==
  ASSUME IInv, Delivering, NEW p \in Ranks, Run(p)
  PROVE  Delivering'
<1>1. /\ UNCHANGED <<program, at, todo, posted, entered>>
      /\ \A q \in Ranks \ {p} : queue'[q] = queue[q] /\ buf'[q] = buf[q]
  BY RunFacts
<1>2. Grows /\ \A q \in Ranks \ {p} : Same(q)
  BY <1>1 DEF Grows, Same, IInv, Domains
<1>3. PICK g, a, t, E : g = program /\ a = at[p] /\ t = todo[p] /\ E = entered[p]
  OBVIOUS
<1>4. program' = g /\ at'[p] = a /\ todo'[p] = t /\ entered'[p] = E
  BY <1>1, <1>3
<1>5. /\ a > 0 => Remains(g, p, a, t)
      /\ Leads(t) /\ Entries(g, p, a, t, E)
  BY <1>3 DEF Delivering
<1>6. Mail(p)'
  BY <1>1, MailStays
<1>7. Met(program, p, at[p], todo[p], at)'
  BY <1>1, <1>2, MetStep DEF Grows
<1>8. at[p] > 0 => Flow(p)'
  BY FlowRun
<1>9. Fair(p)'
  BY <1>3, <1>4, <1>5, <1>6, <1>7, <1>8 DEF Fair
<1>10. Kept(p)
  BY <1>1, Stays
<1>11. QED
  BY <1>2, <1>9, <1>10, FairOne

LEMMA MatchDelivers ==
  ASSUME IInv, Delivering, NEW x \in Ranks, NEW y \in Ranks, Match(x, y)
  PROVE  Delivering'
<1>1. UNCHANGED <<program, at, todo, queue, entered>>
  BY MatchFacts
<1>2. Grows
  BY <1>1 DEF Grows, IInv, Domains
<1>3. ASSUME NEW p \in Ranks PROVE Fair(p)'
  <2>1. PICK g, a, t, E : g = program /\ a = at[p] /\ t = todo[p] /\ E = entered[p]
    OBVIOUS
  <2>2. program' = g /\ at'[p] = a /\ todo'[p] = t /\ entered'[p] = E
    BY <1>1, <2>1
  <2>3. /\ a > 0 => Remains(g, p, a, t)
        /\ Leads(t) /\ Entries(g, p, a, t, E)
    BY <2>1 DEF Delivering
  <2>4. Mail(p)'
    BY MailMatch
  <2>5. Met(program, p, at[p], todo[p], at)'
    BY <1>1, <1>2, MetStep DEF Grows
  <2>6. at[p] > 0 => Flow(p)'
    BY FlowMatch
  <2>7. QED
    BY <2>1, <2>2, <2>3, <2>4, <2>5, <2>6 DEF Fair
<1>4. ASSUME NEW p \in Ranks, NEW q \in Ranks, NEW tag \in Nat
      PROVE  Paired(program, p, q, tag, posted[p], posted[q])'
  BY PairedMatch
<1>5. QED
  BY <1>3, <1>4, FairAll

LEMMA StutterDelivers ==
  ASSUME IInv, Delivering, UNCHANGED vars
  PROVE  Delivering'
<1>1. UNCHANGED <<program, at, todo, queue, buf, entered, posted>>
  BY DEF vars
<1>2. Grows /\ \A q \in Ranks : Same(q)
  BY <1>1 DEF Grows, Same, IInv, Domains
<1>3. \A q \in Ranks : Fair(q)' /\ Kept(q)
  BY <1>2, FairStays, Stays DEF Same
<1>4. ASSUME NEW p \in Ranks, NEW q \in Ranks, NEW tag \in Nat
      PROVE  Paired(program, p, q, tag, posted[p], posted[q])'
  BY <1>2, <1>3, PairedKept DEF Grows
<1>5. QED
  BY <1>3, <1>4, FairAll

LEMMA Delivers ==
  ASSUME IInv, Aligning, Delivering, Fits(program), [Next]_vars
  PROVE  Delivering'
<1>1. ASSUME NEW p \in Ranks, Step(p) PROVE Delivering'
  <2>1. CASE Call(p)
    BY <2>1, CallDelivers
  <2>2. CASE Check(p)
    BY <2>2, CheckDelivers
  <2>3. CASE Fence(p)
    BY <2>3, FenceDelivers
  <2>4. CASE Enqueue(p)
    BY <2>4, EnqueueDelivers
  <2>5. CASE Enter(p)
    BY <2>5, EnterDelivers
  <2>6. CASE Message(p)
    BY <2>6, MessageDelivers
  <2>7. QED
    BY <1>1, <2>1, <2>2, <2>3, <2>4, <2>5, <2>6 DEF Step
<1>2. ASSUME NEW p \in Ranks, Leave(p) PROVE Delivering'
  BY <1>2, LeaveDelivers
<1>3. ASSUME NEW p \in Ranks, Finish(p) PROVE Delivering'
  BY <1>3, FinishDelivers
<1>4. ASSUME NEW p \in Ranks, Run(p) PROVE Delivering'
  BY <1>4, RunDelivers
<1>5. ASSUME NEW p \in Ranks, NEW q \in Ranks, Match(p, q) PROVE Delivering'
  BY <1>5, MatchDelivers
<1>6. CASE UNCHANGED vars
  BY <1>6, StutterDelivers
<1>7. QED
  BY <1>1, <1>2, <1>3, <1>4, <1>5, <1>6 DEF Next

LEMMA DeliversInit ==
  ASSUME Init
  PROVE  Delivering
<1>1. program \in Programs /\ IInv
  BY Start DEF Init
<1>2. ASSUME NEW p \in Ranks PROVE /\ at[p] = 0 /\ todo[p] = <<>> /\ entered[p] = <<>> /\ posted[p] = <<>>
  BY DEF Init
<1>3. \A i : i \notin 1 .. 0
  OBVIOUS
<1>4. /\ DOMAIN <<>> = {} /\ Range(<<>>) = {} /\ Len(<<>>) = 0
  BY DEF Range
<1>5. ASSUME NEW p \in Ranks
      PROVE  /\ ~ (at[p] > 0) /\ Leads(todo[p]) /\ Mail(p)
             /\ Entries(program, p, at[p], todo[p], entered[p])
             /\ Met(program, p, at[p], todo[p], at)
  <2>1. PICK g : g = program /\ g \in Programs
    BY <1>1
  <2>2. Leads(<<>>)
    BY <1>4 DEF Leads
  <2>3. Filed(g, p, 0, <<>>, <<>>) /\ Closed(g, p, 0, <<>>, <<>>)
    BY <1>3, <1>4 DEF Filed, Closed
  <2>4. Met(g, p, 0, <<>>, at)
    BY <1>3 DEF Met
  <2>5. Entries(g, p, 0, <<>>, <<>>)
    <3>1. Place(Taken(g, p), 0) = 0 /\ Counted(Taken(g, p)) /\ Counted(Colls(g, p))
      BY <2>1, CountedCalls, PlaceZero
    <3>2. \A i : i \in Taken(g, p) \union Colls(g, p) => ~ Asked(i, 0, <<>>, "collective")
      BY <3>1 DEF Asked, Counted
    <3>3. "collective" \notin Range(<<>>)
      BY <1>4
    <3>4. QED
      BY <1>4, <3>1, <3>2, <3>3 DEF Entries
  <2>6. QED
    BY <1>2, <2>1, <2>2, <2>3, <2>4, <2>5 DEF Mail
<1>6. ASSUME NEW p \in Ranks, NEW q \in Ranks, NEW tag \in Nat
      PROVE  Paired(program, p, q, tag, posted[p], posted[q])
  <2>1. \A S, kind, peer : Side(S, <<>>, kind, peer, tag, 0)
    BY <1>3, <1>4 DEF Side
  <2>2. QED
    BY <1>2, <2>1 DEF Paired
<1>7. QED
  BY <1>5, <1>6 DEF Delivering

(* Messages, collectives and memory of each rank stay as Delivering says:   *)
(* what MPI is given is what the rank produced for its call, what MPI       *)
(* brought stays in the view or the packed copy until the consumer of the   *)
(* call has read it, and the n-th message or collective of a rank meets     *)
(* the n-th of its peer.                                                    *)
THEOREM DataInvariance == Spec => []Delivering
<1>1. Init => Delivering
  BY DeliversInit
<1>2. IInv /\ Aligning /\ Delivering /\ [Next]_vars => Delivering'
  <2>1. IInv => Fits(program)
    BY FitsAssumption DEF IInv, Domains
  <2>2. QED
    BY <2>1, Delivers
<1>3. Spec => []IInv
  BY Invariance
<1>4. Spec => []Aligning
  BY Alignment
<1>5. QED
  BY <1>1, <1>2, <1>3, <1>4, PTL DEF Spec

-----------------------------------------------------------------------------
(* A consumer of the program reads what its call was to bring.             *)
LEMMA ReadsDue ==
  ASSUME IInv, Aligning, Delivering, NEW p \in Ranks, queue[p] # <<>>, NEW k, k = Head(queue[p]),
         k.op = "consume"
  PROVE  ReadBy(p, k) = Due(program, p, k.call)
<1>1. PICK g, i, s, Q, B : /\ g = program /\ i = k.call /\ s = Subj(g, p, i) /\ Q = queue[p]
                           /\ B = buf[p]
  OBVIOUS
<1>2. Q \in Seq(KernelRecords) /\ \A n \in DOMAIN Q : Q[n].call \in 1 .. at[p]
  BY <1>1, KernelsTyped
<1>3. 1 \in DOMAIN Q /\ k = Q[1]
  BY <1>1, <1>2
<1>4. at[p] > 0
  <2>1. i \in 1 .. at[p] /\ at[p] \in Nat
    BY <1>1, <1>2, <1>3 DEF IInv, Domains
  <2>2. QED
    BY <2>1
<1>5. PICK n \in DOMAIN Q : Q[n] = k /\ n = 1 /\ ~ (n > 1) /\ Fed(g, p, Q, B, n)
  <2>1. \A n \in DOMAIN Q : Fed(g, p, Q, B, n)
    BY <1>1, <1>4 DEF Delivering, Flow
  <2>2. QED
    BY <1>3, <2>1
<1>6. ReadBy(p, k) = UNION {B[b] : b \in Inputs(g, p, k)}
  BY <1>1, ReadsBridged DEF ReadBy
<1>7. CASE Brings(g, p, i) = {}
  <2>1. Inputs(g, p, k) = {}
    BY <1>1, <1>7 DEF Inputs
  <2>2. Due(g, p, i) = {}
    BY <1>7 DEF Due, DueOf
  <2>3. UNION {B[b] : b \in {}} = {}
    OBVIOUS
  <2>4. QED
    BY <1>1, <1>6, <2>1, <2>2, <2>3, Zenon
<1>8. CASE Brings(g, p, i) # {}
  <2>1. Inputs(g, p, k) = {RecvView(g[p][s])}
    BY <1>1, <1>8 DEF Inputs
  <2>2. B[RecvView(g[p][s])] = Due(g, p, i)
    BY <1>1, <1>5, <1>8 DEF Fed
  <2>3. PICK v : v = RecvView(g[p][s])
    OBVIOUS
  <2>4. UNION {B[b] : b \in {v}} = B[v]
    OBVIOUS
  <2>5. QED
    BY <1>1, <1>6, <2>1, <2>2, <2>3, <2>4, Zenon
<1>9. QED
  BY <1>7, <1>8

(* The kernel that uses what a call brought is the delivery of the call.    *)
LEMMA RunPromised ==
  ASSUME IInv, Aligning, Delivering, NEW p \in Ranks, Run(p)
  PROVE  Promise!Next \/ UNCHANGED Promise!vars
<1>1. PICK k : k = Head(queue[p])
  OBVIOUS
<1>2. queue[p] # <<>>
  BY DEF Run
<1>3. CASE k.op # "consume"
  <2>1. got' = got
    BY <1>1, <1>3, AlignsRun
  <2>2. QED
    BY <2>1 DEF Run, Promise!vars
<1>4. CASE k.op = "consume"
  <2>1. PICK i, D : i = k.call /\ D = ReadBy(p, k) /\ Gives(p, i, D)
    BY <1>1, <1>4, AlignsRun
  <2>2. i \in 1 .. at[p] /\ i \in Numbers(program, p) /\ i \in DOMAIN program[p]
    <3>1. queue[p] \in Seq(KernelRecords) /\ \A n \in DOMAIN queue[p] :
            queue[p][n].call \in 1 .. at[p] /\ queue[p][n].call \in Numbers(program, p)
      BY KernelsTyped
    <3>2. 1 \in DOMAIN queue[p] /\ k = queue[p][1]
      BY <1>1, <1>2, <3>1
    <3>3. i \in 1 .. at[p] /\ i \in Numbers(program, p)
      BY <2>1, <3>1, <3>2
    <3>4. QED
      BY <3>3, ProgramCalls DEF IInv, Domains
  <2>3. \A q \in Wants(program, p, i) :
           \E j \in 1 .. at[q] : Meets(program, p, Subj(program, p, i), q, j)
    <3>1. Takes(program[p][i])
      BY <2>1, TakesIs DEF Gives
    <3>2. i = at[p] => Past(todo[p])
      <4>1. SUFFICES ASSUME i = at[p] PROVE Past(todo[p])
        OBVIOUS
      <4>2. queue[p] \in Seq(KernelRecords) /\ 1 \in DOMAIN queue[p] /\ k = queue[p][1]
        BY <1>1, <1>2, KernelsTyped
      <4>3. todo[p] = <<>>
        BY <1>4, <2>1, <4>1, <4>2 DEF Aligning, Aligned, Lined
      <4>4. QED
        BY <4>3 DEF Past, Range
    <3>3. Met(program, p, at[p], todo[p], at)
      BY DEF Delivering
    <3>4. QED
      BY <2>2, <3>1, <3>2, <3>3 DEF Met
  <2>4. /\ Promise!Expected(p, i) = Due(program, p, i)
        /\ \A q \in Promise!Needed(p, i) : Promise!Matching(p, i, q) <= at[q]
    BY <2>2, <2>3, ExpectedIs DEF IInv, Domains
  <2>5. D = Promise!Expected(p, i)
    BY <1>1, <1>2, <1>4, <2>1, <2>4, ReadsDue
  <2>6. Promise!Deliver(p, i)
    BY <2>1, <2>4, <2>5 DEF Gives, Promise!Deliver
  <2>7. QED
    BY <2>2, <2>6 DEF Promise!Next
<1>5. QED
  BY <1>3, <1>4

(* Every step is one of Delivery, or changes nothing that it speaks of.     *)
LEMMA Promised ==
  ASSUME IInv, Aligning, Delivering, [Next]_vars
  PROVE  Promise!Next \/ UNCHANGED Promise!vars
<1>1. ASSUME NEW p \in Ranks, Call(p) PROVE Promise!Next
  BY <1>1, CallPromised DEF Promise!Next
<1>2. ASSUME NEW p \in Ranks, Check(p) PROVE Promise!Next \/ UNCHANGED Promise!vars
  BY <1>2, CheckPromised DEF Promise!Next
<1>3. ASSUME NEW p \in Ranks, Fence(p) \/ Enqueue(p) \/ Enter(p) \/ Message(p) \/ Leave(p) \/ Finish(p)
      PROVE  UNCHANGED Promise!vars
  BY <1>3 DEF Fence, Enqueue, Enter, Message, Leave, Finish, Promise!vars
<1>4. ASSUME NEW p \in Ranks, NEW q \in Ranks, Match(p, q) PROVE UNCHANGED Promise!vars
  BY <1>4 DEF Match, Promise!vars
<1>5. ASSUME NEW p \in Ranks, Run(p) PROVE Promise!Next \/ UNCHANGED Promise!vars
  BY <1>5, RunPromised
<1>6. CASE UNCHANGED vars
  BY <1>6 DEF vars, Promise!vars
<1>7. QED
  BY <1>1, <1>2, <1>3, <1>4, <1>5, <1>6 DEF Next, Step

(* BlockingCalls implements Delivery: each call gives its rank the data     *)
(* that the peers produced for the matching call, after they have begun     *)
(* it, in the order of the calls, and only views that are not supported     *)
(* end the program.                                                         *)
THEOREM ImplementsDelivery == Spec => KeepsDelivery
<1>1. Init => Promise!Init
  BY DEF Init, Promise!Init
<1>2. IInv /\ Aligning /\ Delivering /\ [Next]_vars => [Promise!Next]_Promise!vars
  BY Promised
<1>3. Spec => []IInv
  BY Invariance
<1>4. Spec => []Aligning
  BY Alignment
<1>5. Spec => []Delivering
  BY DataInvariance
<1>6. Spec => Promise!Spec
  BY <1>1, <1>2, <1>3, <1>4, <1>5, PTL DEF Spec, Promise!Spec
<1>7. QED
  BY <1>6 DEF KeepsDelivery
=============================================================================
