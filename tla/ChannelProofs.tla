--------------------------- MODULE ChannelProofs ---------------------------
(***************************************************************************)
(* For any ranks, registration orders and number of rounds: MPI leaves the *)
(* buffers alone between rounds, every persistent request has one owner,   *)
(* and a rank that is back from wait has what its source sent in the same  *)
(* round (NeighbourExchange).                                              *)
(*                                                                         *)
(* The inductive invariant says where each rank is in its round and what   *)
(* its channel owns (Local), and numbers the messages that are on their    *)
(* way to the next rank (Chain).  A step of one rank leaves the others     *)
(* alone; only a delivery touches two ranks.                               *)
(***************************************************************************)
EXTENDS Channel, Orderings, SequenceTheorems, TLAPS

(* The rounds.  A rank that has started more rounds than it has finished   *)
(* is in the last one: everything it registered is active or complete, and *)
(* what it has not received yet is active.  Otherwise nothing is.          *)
Got(p) == Len(Recvs(p)) - Len(posted[p])

InRound(p) ==
  /\ started[p] = done[p] + 1 /\ kernel[p] = "done"
  /\ home[p] \in alive[p] /\ Registered(p) = Len(Pattern[p])
  /\ \A i \in Ops(p) : state[p][i] \in {"active", "complete"}
  /\ \A j \in DOMAIN Recvs(p) : j > Got(p) => state[p][Recvs(p)[j]] = "active"

Between(p) ==
  /\ started[p] = done[p] /\ posted[p] = <<>>
  /\ \A i \in Ops(p) : state[p][i] \in {"none", "inactive", "freed"}

Phase(p) ==
  /\ started[p] \in 0 .. Rounds /\ done[p] \in 0 .. Rounds
  /\ kernel[p] \in {"todo", "running", "done"}
  /\ kernel[p] # "todo" => done[p] < Rounds
  /\ kernel[p] = "running" => started[p] = done[p]
  /\ InRound(p) \/ Between(p)

(* Ownership.  The channel that p uses owns the operations it registered   *)
(* so far, in order, and another one at most the spare.                    *)
Owned(p) ==
  /\ \A i \in 1 .. Registered(p) : Held(p)[i] = i /\ state[p][i] \notin {"none", "freed"}
  /\ Registered(p) <= Len(Pattern[p])
  /\ home[p] \in alive[p] =>
       \A i \in Ops(p) : i > Registered(p) => state[p][i] = "none"
  /\ home[p] \notin alive[p] =>
       /\ Held(p) = <<>> /\ done[p] = Rounds
       /\ \A i \in Ops(p) : state[p][i] \in {"none", "freed"}

Spared(p, c) == c # home[p] /\ requests[p][c] = <<Spare>>

OwnedSpare(p) ==
  /\ \A c \in Objects \ {home[p]} :
       requests[p][c] = <<>> \/ (requests[p][c] = <<Spare>> /\ c \in alive[p])
  /\ state[p][Spare] \in {"none", "inactive", "freed"}
  /\ state[p][Spare] = "inactive" <=> \E c \in Objects : Spared(p, c)
  /\ \A c, d \in Objects : Spared(p, c) /\ Spared(p, d) => c = d

(* The data.  Kernels that are done have filled the send buffers for the   *)
(* round to come; the receive buffers hold what came so far in the round   *)
(* that was started last, until kernels reset them.                        *)
Filled(p) ==
  kernel[p] = "done" => \A i \in Range(Sends(p)) : buffer[p][i] = <<p, i, done[p] + 1>>

Holds(p) ==
  started[p] > 0 /\ (started[p] > done[p] \/ kernel[p] # "done") =>
    \A j \in DOMAIN Recvs(p) :
      j <= Got(p) => buffer[p][Recvs(p)[j]] = <<Src[p], Sends(Src[p])[j], started[p]>>

(* What is posted is the rest of the receives, in order.                   *)
Posted(p) ==
  /\ posted[p] \in Seq(Ops(p)) /\ Len(posted[p]) <= Len(Recvs(p))
  /\ \A k \in DOMAIN posted[p] : posted[p][k] = Recvs(p)[Got(p) + k]

(* The messages on their way.  They can be numbered by round and place in  *)
(* the round so that each follows the one before, the first is what the    *)
(* receiver waits for next, and the last is the last that was started; one *)
(* that MPI has not read belongs to the round under way.                   *)
Step(n, a) == IF a[2] < n THEN <<a[1], a[2] + 1>> ELSE <<a[1] + 1, 1>>

Expected(q) ==
  IF posted[q] = <<>> THEN <<started[q] + 1, 1>> ELSE <<started[q], Got(q) + 1>>

Entry(p, e, a) ==
  /\ a[1] \in 1 .. started[p]
  /\ e[1] = Sends(p)[a[2]]
  /\ \/ e[2] = <<p, e[1], a[1]>>
     \/ e[2] = Unread /\ a[1] = started[p] /\ started[p] > done[p] /\ state[p][e[1]] = "active"

Numbered(N, n, at) ==
  /\ at \in [1 .. n + 1 -> Nat \X (1 .. N)]
  /\ \A k \in 1 .. n : at[k + 1] = Step(N, at[k])
  /\ \A k, l \in 1 .. n : at[k] = at[l] => k = l

Numbers(p, at) ==
  LET n == Len(net[p]) IN
  /\ Numbered(Len(Sends(p)), n, at)
  /\ at[1] = Expected(Dst[p]) /\ at[n + 1] = <<started[p] + 1, 1>>
  /\ \A k \in 1 .. n : Entry(p, net[p][k], at[k])

Chain(p) == IF Sends(p) = <<>> THEN net[p] = <<>> ELSE \E at : Numbers(p, at)

States == {"none", "inactive", "active", "complete", "freed"}

Shape(p) ==
  /\ home[p] \in Objects /\ alive[p] \subseteq Objects
  /\ requests[p] \in [Objects -> Seq(Ops(p) \union {Spare})]
  /\ DOMAIN statuses[p] = Objects
  /\ \A c \in Objects : statuses[p][c] = Len(requests[p][c])
  /\ state[p] \in [Ops(p) \union {Spare} -> States]
  /\ net[p] \in Seq(Ops(p) \X (Data \union {Unread}))
  /\ buffer[p] \in [Ops(p) -> Data \union {Blank}]

Local(p) ==
  Shape(p) /\ Phase(p) /\ Owned(p) /\ OwnedSpare(p) /\ Filled(p) /\ Holds(p) /\ Posted(p)

Domains ==
  /\ DOMAIN alive = Ranks /\ DOMAIN requests = Ranks /\ DOMAIN statuses = Ranks
  /\ DOMAIN home = Ranks /\ DOMAIN state = Ranks /\ DOMAIN net = Ranks
  /\ DOMAIN posted = Ranks /\ DOMAIN buffer = Ranks
  /\ kernel \in [Ranks -> {"todo", "running", "done"}]
  /\ started \in [Ranks -> 0 .. Rounds] /\ done \in [Ranks -> 0 .. Rounds]

IInv == Domains /\ \A p \in Ranks : Local(p) /\ Chain(p)

-----------------------------------------------------------------------------
(* The operations of a rank.                                               *)
LEMMA Ring ==
  ASSUME NEW p \in Ranks
  PROVE  /\ Dst[p] \in Ranks /\ Src[p] \in Ranks /\ Src[Dst[p]] = p /\ Dst[Src[p]] = p
         /\ Len(Pattern[p]) \in Nat /\ Ops(p) = 1 .. Len(Pattern[p]) /\ Spare \notin Ops(p)
         /\ \A i \in Ops(p) : Pattern[p][i] \in {"send", "recv"}
         /\ Len(Recvs(p)) = Len(Sends(Src[p]))
         /\ Rounds \in Nat
<1>1. Pattern[p] \in Seq({"send", "recv"})
  BY ChannelAssumption
<1>2. Len(Pattern[p]) \in Nat /\ Ops(p) = 1 .. Len(Pattern[p])
      /\ \A i \in Ops(p) : Pattern[p][i] \in {"send", "recv"}
  BY <1>1 DEF Ops
<1>3. QED
  BY <1>2, ChannelAssumption DEF Spare

LEMMA InOrderFacts ==
  ASSUME NEW T, IsFiniteSet(T), T \in SUBSET Nat, NEW s, s = InOrder(T)
  PROVE  s \in Seq(T) /\ Len(s) = Cardinality(T) /\ Lists(s, Len(s), T)
<1> DEFINE R == {e \in T \X T : e[1] < e[2]}
<1>1. PICK n \in Nat : n = Cardinality(T)
  BY FS_CardinalityType
<1>2. IsOrder(R, T)
  BY DEF IsOrder
<1>3. \A t \in [1 .. n -> T] :
        Sorted(t, n, R) <=> \A i, j \in 1 .. n : i < j => t[i] < t[j]
  BY DEF Sorted
<1>4. \E t \in [1 .. n -> T] : \A i, j \in 1 .. n : i < j => t[i] < t[j]
  <2> HIDE DEF R
  <2>1. PICK t \in [1 .. n -> T] : Sorted(t, n, R)
    BY <1>1, <1>2, SortedExists
  <2>2. QED
    BY <1>3, <2>1
<1>5. s = CHOOSE t \in [1 .. n -> T] : \A i, j \in 1 .. n : i < j => t[i] < t[j]
  BY <1>1 DEF InOrder
<1>6. s \in [1 .. n -> T] /\ \A i, j \in 1 .. n : i < j => s[i] < s[j]
  <2> HIDE DEF R
  <2>1. QED
    BY <1>4, <1>5
<1>7. Sorted(s, n, R)
  BY <1>3, <1>6
<1>8. Lists(s, n, T)
  <2> HIDE DEF R
  <2>1. QED
    BY <1>1, <1>2, <1>6, <1>7, SortedFacts
<1>9. s \in Seq(T) /\ Len(s) = n
  BY <1>6
<1>10. QED
  BY <1>1, <1>8, <1>9

(* s has the operations of kind k, each once.                              *)
OfKind(p, k, s) ==
  /\ s \in Seq(Ops(p)) /\ Len(s) \in Nat /\ DOMAIN s = 1 .. Len(s)
  /\ \A j \in DOMAIN s : s[j] \in Ops(p) /\ Pattern[p][s[j]] = k
  /\ \A i, j \in DOMAIN s : s[i] = s[j] => i = j
  /\ \A i \in Ops(p) : Pattern[p][i] = k => \E j \in DOMAIN s : s[j] = i

LEMMA KindFacts ==
  ASSUME NEW p \in Ranks, NEW k, NEW s, s = InOrder({i \in Ops(p) : Pattern[p][i] = k})
  PROVE  OfKind(p, k, s)
<1>0. PICK T, n : T = {i \in Ops(p) : Pattern[p][i] = k} /\ n = Len(s)
  OBVIOUS
<1>1. Len(Pattern[p]) \in Nat /\ T \subseteq 1 .. Len(Pattern[p])
  BY <1>0, Ring
<1>2. IsFiniteSet(T) /\ T \in SUBSET Nat
  <2>1. PICK m \in Nat : m = Len(Pattern[p])
    BY <1>1
  <2>2. IsFiniteSet(1 .. m)
    BY <2>1, FS_Interval
  <2>3. PICK U : U = 1 .. m
    OBVIOUS
  <2>4. T \in SUBSET U /\ T \in SUBSET Nat
    BY <1>1, <2>1, <2>3
  <2>5. IsFiniteSet(U)
    BY <2>2, <2>3
  <2>6. QED
    BY <2>4, <2>5, FS_Subset
<1>3. s \in Seq(T) /\ Lists(s, n, T)
  BY <1>0, <1>2, InOrderFacts
<1>4. n \in Nat /\ DOMAIN s = 1 .. n /\ s \in Seq(Ops(p))
  BY <1>0, <1>3
<1>5. \A j \in 1 .. n : s[j] \in T
  BY <1>3 DEF Lists
<1>6. \A i, j \in 1 .. n : s[i] = s[j] => i = j
  BY <1>3 DEF Lists
<1>7. \A i \in T : \E j \in 1 .. n : s[j] = i
  BY <1>3 DEF Lists
<1>8. QED
  BY <1>0, <1>4, <1>5, <1>6, <1>7, ZenonT(30) DEF OfKind

LEMMA SendFacts ==
  ASSUME NEW p \in Ranks
  PROVE  /\ Sends(p) \in Seq(Ops(p)) /\ Len(Sends(p)) \in Nat
         /\ DOMAIN Sends(p) = 1 .. Len(Sends(p))
         /\ \A j \in DOMAIN Sends(p) : Sends(p)[j] \in Ops(p) /\ Pattern[p][Sends(p)[j]] = "send"
         /\ \A i, j \in DOMAIN Sends(p) : Sends(p)[i] = Sends(p)[j] => i = j
         /\ \A i \in Ops(p) : Pattern[p][i] = "send" <=> i \in Range(Sends(p))
<1>1. OfKind(p, "send", Sends(p))
  BY KindFacts DEF Sends
<1>2. QED
  BY <1>1 DEF OfKind, Range

LEMMA RecvFacts ==
  ASSUME NEW p \in Ranks
  PROVE  /\ Recvs(p) \in Seq(Ops(p)) /\ Len(Recvs(p)) \in Nat
         /\ DOMAIN Recvs(p) = 1 .. Len(Recvs(p))
         /\ \A j \in DOMAIN Recvs(p) : Recvs(p)[j] \in Ops(p) /\ Pattern[p][Recvs(p)[j]] = "recv"
         /\ \A i, j \in DOMAIN Recvs(p) : Recvs(p)[i] = Recvs(p)[j] => i = j
         /\ \A i \in Ops(p) : Pattern[p][i] = "recv" <=> i \in Range(Recvs(p))
<1>1. OfKind(p, "recv", Recvs(p))
  BY KindFacts DEF Recvs
<1>2. QED
  BY <1>1 DEF OfKind, Range

(* What Startall does with a channel whose operations are in order.        *)
LEMMA StartFacts ==
  ASSUME NEW p \in Ranks, NEW s, s \in Seq(Ops(p)), Len(s) = Len(Pattern[p]),
         \A i \in 1 .. Len(s) : s[i] = i,
         StartAll(p, s)
  PROVE  /\ net' = [net EXCEPT ![p] =
                      @ \o [j \in 1 .. Len(Sends(p)) |-> <<Sends(p)[j], Unread>>]]
         /\ posted' = [posted EXCEPT ![p] = @ \o Recvs(p)]
         /\ Range(s) = Ops(p)
<1> DEFINE At(k) == InOrder({h \in DOMAIN s : Pattern[p][s[h]] = k})
           kind(k) == [j \in DOMAIN At(k) |-> s[At(k)[j]]]
<1>1. DOMAIN s = Ops(p) /\ \A i \in Ops(p) : s[i] = i
  <2>1. Ops(p) = 1 .. Len(s)
    BY Ring
  <2>2. DOMAIN s = 1 .. Len(s)
    OBVIOUS
  <2>3. QED
    BY <2>1, <2>2
<1>2. ASSUME NEW k PROVE {h \in DOMAIN s : Pattern[p][s[h]] = k} = {i \in Ops(p) : Pattern[p][i] = k}
  BY <1>1
<1>3. At("send") = Sends(p) /\ At("recv") = Recvs(p)
  BY <1>2 DEF Sends, Recvs
<1>4. kind("send") = Sends(p)
  <2>1. Sends(p) = [j \in DOMAIN Sends(p) |-> Sends(p)[j]]
    BY SendFacts
  <2>2. \A j \in DOMAIN Sends(p) : s[Sends(p)[j]] = Sends(p)[j]
    BY <1>1, SendFacts
  <2> HIDE DEF At
  <2>3. QED
    BY <1>3, <2>1, <2>2
<1>5. kind("recv") = Recvs(p)
  <2>1. Recvs(p) = [j \in DOMAIN Recvs(p) |-> Recvs(p)[j]]
    BY RecvFacts
  <2>2. \A j \in DOMAIN Recvs(p) : s[Recvs(p)[j]] = Recvs(p)[j]
    BY <1>1, RecvFacts
  <2> HIDE DEF At
  <2>3. QED
    BY <1>3, <2>1, <2>2
<1>6. /\ net' = [net EXCEPT ![p] = @ \o [j \in DOMAIN kind("send") |-> <<kind("send")[j], Unread>>]]
      /\ posted' = [posted EXCEPT ![p] = @ \o kind("recv")]
  BY DEF StartAll
<1> HIDE DEF kind
<1>7. DOMAIN Sends(p) = 1 .. Len(Sends(p))
  BY SendFacts
<1>8. QED
  BY <1>1, <1>4, <1>5, <1>6, <1>7, ZenonT(30) DEF Range
-----------------------------------------------------------------------------
(* What a step leaves alone.                                               *)
Same(p) ==
  /\ alive'[p] = alive[p] /\ requests'[p] = requests[p] /\ statuses'[p] = statuses[p]
  /\ home'[p] = home[p] /\ state'[p] = state[p] /\ net'[p] = net[p] /\ posted'[p] = posted[p]
  /\ buffer'[p] = buffer[p] /\ kernel'[p] = kernel[p]
  /\ started'[p] = started[p] /\ done'[p] = done[p]

LEMMA LocalFrame == ASSUME NEW p \in Ranks, Local(p), Same(p) PROVE Local(p)'
<1>1. Shape(p)'
  BY DEF Local, Same, Shape
<1>2. Phase(p)'
  BY DEF Local, Same, Phase, InRound, Between, Got, Registered
<1>3. Owned(p)' /\ OwnedSpare(p)'
  BY DEF Local, Same, Owned, OwnedSpare, Spared, Registered, Held
<1>4. Filled(p)' /\ Holds(p)' /\ Posted(p)'
  BY DEF Local, Same, Filled, Holds, Posted, Got
<1>5. QED
  BY <1>1, <1>2, <1>3, <1>4 DEF Local

(* Messages that are not touched, and of which none loses a send that MPI  *)
(* has yet to read, are numbered as before.                                *)
LEMMA ChainFrame ==
  ASSUME NEW p \in Ranks, Shape(p), Chain(p),
         net'[p] = net[p], started'[p] = started[p],
         Expected(Dst[p])' = Expected(Dst[p]),
         \A i \in Ops(p) :
           Pattern[p][i] = "send" /\ started[p] > done[p] /\ state[p][i] = "active" =>
             started[p] > done'[p] /\ state'[p][i] = "active"
  PROVE  Chain(p)'
<1>1. CASE Sends(p) = <<>>
  BY <1>1 DEF Chain
<1>2. CASE Sends(p) # <<>>
  <2>1. PICK at : Numbers(p, at)
    BY <1>2 DEF Chain
  <2>2. \A k \in 1 .. Len(net[p]) : at[k][2] \in DOMAIN Sends(p)
    <3>1. at \in [1 .. Len(net[p]) + 1 -> Nat \X (1 .. Len(Sends(p)))]
      BY <2>1 DEF Numbers, Numbered
    <3>2. \A k \in 1 .. Len(net[p]) : k \in 1 .. Len(net[p]) + 1
      BY DEF Shape
    <3>3. QED
      BY <3>1, <3>2, SendFacts
  <2>3. \A k \in 1 .. Len(net[p]) : Entry(p, net[p][k], at[k]) => Entry(p, net[p][k], at[k])'
    BY <2>2, SendFacts DEF Entry
  <2>4. Numbers(p, at)'
    BY <2>1, <2>3 DEF Numbers
  <2>5. QED
    BY <1>2, <2>4 DEF Chain
<1>3. QED
  BY <1>1, <1>2

LEMMA ChainsKept ==
  ASSUME IInv, net' = net, posted' = posted, started' = started,
         \A q \in Ranks : \A i \in Ops(q) :
           started[q] > done[q] /\ state[q][i] = "active" =>
             started[q] > done'[q] /\ state'[q][i] = "active"
  PROVE  \A q \in Ranks : Chain(q)'
<1>1. \A r : Expected(r)' = Expected(r)
  BY DEF Expected, Got
<1>2. QED
  BY <1>1, ChainFrame DEF IInv, Local

LEMMA InitInv == Init => IInv
<1> SUFFICES ASSUME Init PROVE IInv
  OBVIOUS
<1>1. Domains
  BY ChannelAssumption DEF Init, Domains
<1>2. ASSUME NEW p \in Ranks PROVE Local(p)
  <2>1. PICK c \in Objects : home[p] = c /\ alive[p] = {c}
    BY DEF Init
  <2>2. /\ requests[p] = [d \in Objects |-> <<>>] /\ statuses[p] = [d \in Objects |-> 0]
        /\ state[p] = [i \in Ops(p) \union {Spare} |-> "none"]
        /\ net[p] = <<>> /\ posted[p] = <<>> /\ buffer[p] = [i \in Ops(p) |-> Blank]
        /\ kernel[p] = "todo" /\ started[p] = 0 /\ done[p] = 0
    BY DEF Init
  <2>3. Shape(p)
    <3>1. <<>> \in Seq(Ops(p) \union {Spare}) /\ <<>> \in Seq(Ops(p) \X (Data \union {Unread}))
      OBVIOUS
    <3>2. requests[p] \in [Objects -> Seq(Ops(p) \union {Spare})]
      BY <2>2, <3>1
    <3>3. state[p] \in [Ops(p) \union {Spare} -> States]
      BY <2>2 DEF States
    <3>4. buffer[p] \in [Ops(p) -> Data \union {Blank}]
      BY <2>2
    <3>5. QED
      BY <2>1, <2>2, <3>1, <3>2, <3>3, <3>4 DEF Shape
  <2>4. Phase(p)
    BY <2>2, Ring DEF Phase, Between
  <2>5. Owned(p)
    BY <2>1, <2>2, Ring DEF Owned, Registered, Held
  <2>6. OwnedSpare(p)
    BY <2>1, <2>2 DEF OwnedSpare, Spared
  <2>7. Filled(p) /\ Holds(p)
    BY <2>2 DEF Filled, Holds
  <2>8. Posted(p)
    BY <2>2, RecvFacts DEF Posted
  <2>9. QED
    BY <2>3, <2>4, <2>5, <2>6, <2>7, <2>8 DEF Local
<1>3. ASSUME NEW p \in Ranks PROVE Chain(p)
  <2>1. net[p] = <<>> /\ started[p] = 0 /\ Expected(Dst[p]) = <<1, 1>>
    BY Ring DEF Init, Expected
  <2>2. CASE Sends(p) = <<>>
    BY <2>1, <2>2 DEF Chain
  <2>3. CASE Sends(p) # <<>>
    <3>1. 1 \in 1 .. Len(Sends(p))
      BY <2>3, SendFacts
    <3>2. PICK at : at = [k \in 1 .. 1 |-> <<1, 1>>]
      OBVIOUS
    <3>3. at \in [1 .. 1 -> Nat \X (1 .. Len(Sends(p)))] /\ at[1] = <<1, 1>>
      BY <3>1, <3>2
    <3>4. Numbers(p, at)
      BY <2>1, <3>3 DEF Numbers, Numbered
    <3>5. QED
      BY <2>3, <3>4 DEF Chain
  <2>4. QED
    BY <2>2, <2>3
<1>4. QED
  BY <1>1, <1>2, <1>3 DEF IInv

-----------------------------------------------------------------------------
(* Steps on the channel objects of p.                                      *)
LEMMA ObjectsStep ==
  ASSUME IInv, NEW p \in Ranks, Domains',
         UNCHANGED <<net, posted, buffer, kernel, started, done>>,
         \A q \in Ranks : q # p => /\ alive'[q] = alive[q] /\ requests'[q] = requests[q]
                                   /\ statuses'[q] = statuses[q] /\ home'[q] = home[q]
                                   /\ state'[q] = state[q],
         home'[p] \in Objects, alive'[p] \subseteq Objects,
         requests'[p] \in [Objects -> Seq(Ops(p) \union {Spare})],
         DOMAIN statuses'[p] = Objects,
         \A c \in Objects : statuses'[p][c] = Len(requests'[p][c]),
         state'[p] \in [Ops(p) \union {Spare} -> States],
         Owned(p)', OwnedSpare(p)',
         \A i \in Ops(p) : \/ state'[p][i] = state[p][i]
                           \/ {state[p][i], state'[p][i]} \subseteq {"none", "inactive", "freed"},
         started[p] > done[p] => home'[p] \in alive'[p] /\ Registered(p)' = Len(Pattern[p])
  PROVE  IInv'
<1>1. \A q \in Ranks : q # p => Local(q)'
  BY LocalFrame DEF IInv, Same
<1>2. Local(p)'
  <2>1. Local(p)
    BY DEF IInv
  <2>2. Shape(p)'
    BY <2>1 DEF Shape, Local
  <2>3. Phase(p)'
    <3>1. CASE InRound(p)
      <4>1. \A i \in Ops(p) : state'[p][i] = state[p][i]
        BY <3>1 DEF InRound
      <4>2. started[p] > done[p]
        BY <2>1, <3>1 DEF InRound, Local, Phase
      <4>3. \A j \in DOMAIN Recvs(p) : j > Got(p) => state'[p][Recvs(p)[j]] = "active"
        BY <3>1, <4>1, RecvFacts DEF InRound
      <4>4. InRound(p)'
        BY <3>1, <4>1, <4>2, <4>3 DEF InRound, Got
      <4>5. QED
        BY <2>1, <4>4 DEF Local, Phase
    <3>2. CASE Between(p)
      <4>1. Between(p)'
        BY <3>2 DEF Between
      <4>2. QED
        BY <2>1, <4>1 DEF Local, Phase
    <3>3. QED
      BY <2>1, <3>1, <3>2 DEF Local, Phase
  <2>4. Filled(p)' /\ Holds(p)' /\ Posted(p)'
    BY <2>1 DEF Local, Filled, Holds, Posted, Got
  <2>5. QED
    BY <2>2, <2>3, <2>4 DEF Local
<1>3. \A q \in Ranks : Chain(q)'
  <2>1. \A q \in Ranks : \A i \in Ops(q) :
          started[q] > done[q] /\ state[q][i] = "active" =>
            started[q] > done'[q] /\ state'[q][i] = "active"
    OBVIOUS
  <2>2. QED
    BY <2>1, ChainsKept
<1>4. QED
  BY <1>1, <1>2, <1>3 DEF IInv
(* What is known of p's channel in every step.                             *)
LEMMA Mine ==
  ASSUME IInv, NEW p \in Ranks
  PROVE  /\ Shape(p) /\ Phase(p) /\ Owned(p) /\ OwnedSpare(p)
         /\ Registered(p) \in Nat /\ Held(p) \in Seq(Ops(p) \union {Spare})
         /\ DOMAIN Held(p) = 1 .. Registered(p)
         /\ \A i \in Ops(p) : i # Spare
<1>1. Shape(p) /\ Phase(p) /\ Owned(p) /\ OwnedSpare(p)
  BY DEF IInv, Local
<1>2. Held(p) \in Seq(Ops(p) \union {Spare})
  BY <1>1 DEF Shape, Held
<1>3. QED
  BY <1>1, <1>2, Ring DEF Registered, Held

LEMMA AddFacts ==
  ASSUME IInv, NEW p \in Ranks, NEW c \in Objects, NEW i \in Ops(p) \union {Spare}, Add(p, c, i)
  PROVE  /\ Domains'
         /\ UNCHANGED <<alive, home, net, posted, buffer, kernel, started, done>>
         /\ \A q \in Ranks : q # p => /\ requests'[q] = requests[q] /\ statuses'[q] = statuses[q]
                                      /\ state'[q] = state[q]
         /\ requests'[p] = [requests[p] EXCEPT ![c] = Append(requests[p][c], i)]
         /\ state'[p] = [state[p] EXCEPT ![i] = "inactive"] /\ state[p][i] = "none"
         /\ requests'[p] \in [Objects -> Seq(Ops(p) \union {Spare})]
         /\ DOMAIN statuses'[p] = Objects
         /\ \A d \in Objects : statuses'[p][d] = Len(requests'[p][d])
         /\ state'[p] \in [Ops(p) \union {Spare} -> States]
<1>1. Domains /\ Shape(p)
  BY Mine DEF IInv
<1>2. /\ state[p][i] = "none"
      /\ requests' = [requests EXCEPT ![p] = [requests[p] EXCEPT ![c] = Append(requests[p][c], i)]]
      /\ statuses' = [statuses EXCEPT ![p] = [statuses[p] EXCEPT ![c] = Len(requests[p][c]) + 1]]
      /\ state' = [state EXCEPT ![p] = [state[p] EXCEPT ![i] = "inactive"]]
      /\ UNCHANGED <<alive, home, net, posted, buffer, kernel, started, done>>
  BY DEF Add
<1>3. /\ requests'[p] = [requests[p] EXCEPT ![c] = Append(requests[p][c], i)]
      /\ statuses'[p] = [statuses[p] EXCEPT ![c] = Len(requests[p][c]) + 1]
      /\ state'[p] = [state[p] EXCEPT ![i] = "inactive"]
  BY <1>1, <1>2 DEF Domains
<1>4. Domains'
  BY <1>1, <1>2 DEF Domains
<1>5. requests[p] \in [Objects -> Seq(Ops(p) \union {Spare})]
  BY <1>1 DEF Shape
<1>6. requests'[p] \in [Objects -> Seq(Ops(p) \union {Spare})]
  <2>1. Append(requests[p][c], i) \in Seq(Ops(p) \union {Spare})
    BY <1>5
  <2>2. QED
    BY <1>3, <1>5, <2>1
<1>7. \A d \in Objects : statuses'[p][d] = Len(requests'[p][d])
  <2>1. Len(Append(requests[p][c], i)) = Len(requests[p][c]) + 1
    BY <1>5
  <2>2. QED
    BY <1>1, <1>3, <1>5, <2>1 DEF Shape
<1>8. DOMAIN statuses'[p] = Objects /\ state'[p] \in [Ops(p) \union {Spare} -> States]
  BY <1>1, <1>3 DEF Shape, States
<1>9. QED
  BY <1>2, <1>3, <1>4, <1>6, <1>7, <1>8

LEMMA RegisterInv == ASSUME IInv, NEW p \in Ranks, Register(p) PROVE IInv'
<1>1. PICK c, k : c = home[p] /\ k = Registered(p)
  OBVIOUS
<1>2. /\ c \in Objects /\ c \in alive[p] /\ k \in Nat /\ k + 1 \in Ops(p) /\ k < Len(Pattern[p])
      /\ Held(p) \in Seq(Ops(p) \union {Spare}) /\ Held(p) = requests[p][c] /\ Len(Held(p)) = k
  <2>1. /\ Shape(p) /\ k \in Nat /\ Held(p) \in Seq(Ops(p) \union {Spare})
        /\ Len(Pattern[p]) \in Nat /\ Ops(p) = 1 .. Len(Pattern[p])
    BY <1>1, Mine, Ring
  <2>2. c \in alive[p] /\ k < Len(Pattern[p])
    BY <1>1 DEF Register
  <2>3. k + 1 \in Ops(p)
    BY <2>1, <2>2
  <2>4. c \in Objects /\ Held(p) = requests[p][c] /\ Len(Held(p)) = k
    BY <1>1, <2>1 DEF Shape, Held, Registered
  <2>5. QED
    BY <2>1, <2>2, <2>3, <2>4
<1>3. Add(p, c, k + 1)
  BY <1>1 DEF Register
<1>4. /\ Domains'
      /\ UNCHANGED <<alive, home, net, posted, buffer, kernel, started, done>>
      /\ \A q \in Ranks : q # p => /\ requests'[q] = requests[q] /\ statuses'[q] = statuses[q]
                                   /\ state'[q] = state[q]
      /\ requests'[p] = [requests[p] EXCEPT ![c] = Append(requests[p][c], k + 1)]
      /\ state'[p] = [state[p] EXCEPT ![k + 1] = "inactive"] /\ state[p][k + 1] = "none"
      /\ requests'[p] \in [Objects -> Seq(Ops(p) \union {Spare})]
      /\ DOMAIN statuses'[p] = Objects
      /\ \A d \in Objects : statuses'[p][d] = Len(requests'[p][d])
      /\ state'[p] \in [Ops(p) \union {Spare} -> States]
  BY <1>2, <1>3, AddFacts
<1>5. Shape(p) /\ Owned(p) /\ OwnedSpare(p) /\ Phase(p) /\ Ops(p) = 1 .. Len(Pattern[p])
      /\ Spare \notin Ops(p)
  BY Mine, Ring
<1>6. /\ requests'[p][c] = Append(Held(p), k + 1)
      /\ \A d \in Objects : d # c => requests'[p][d] = requests[p][d]
      /\ \A i \in Ops(p) \union {Spare} : i # k + 1 => state'[p][i] = state[p][i]
      /\ state'[p][k + 1] = "inactive"
  BY <1>2, <1>4, <1>5 DEF Shape
<1>7. /\ Len(Append(Held(p), k + 1)) = k + 1 /\ Append(Held(p), k + 1)[k + 1] = k + 1
      /\ \A i \in 1 .. k : Append(Held(p), k + 1)[i] = Held(p)[i]
  BY <1>2
<1>8. Registered(p)' = k + 1 /\ Held(p)' = Append(Held(p), k + 1)
  BY <1>1, <1>4, <1>6, <1>7 DEF Registered, Held
<1>9. Owned(p)'
  <2>1. \A i \in 1 .. k + 1 : Held(p)'[i] = i /\ state'[p][i] \notin {"none", "freed"}
    <3>1. \A i \in 1 .. k : Held(p)[i] = i /\ state[p][i] \notin {"none", "freed"}
      BY <1>1, <1>5 DEF Owned
    <3>2. \A i \in 1 .. k : i \in Ops(p) /\ i # k + 1
      BY <1>2, <1>5
    <3>3. \A i \in 1 .. k + 1 : i \in 1 .. k \/ i = k + 1
      BY <1>2
    <3>4. \A i \in 1 .. k : Held(p)'[i] = i /\ state'[p][i] \notin {"none", "freed"}
      BY <1>6, <1>7, <1>8, <3>1, <3>2
    <3>5. Held(p)'[k + 1] = k + 1 /\ state'[p][k + 1] = "inactive"
      BY <1>6, <1>7, <1>8
    <3>6. QED
      BY <3>3, <3>4, <3>5
  <2>2. \A i \in Ops(p) : i > k + 1 => state'[p][i] = "none"
    <3>1. \A i \in Ops(p) : i > k => state[p][i] = "none"
      BY <1>1, <1>2, <1>5 DEF Owned
    <3>2. \A i \in Ops(p) : i > k + 1 => i > k /\ i # k + 1
      BY <1>2, <1>5, Ring
    <3>3. QED
      BY <1>6, <3>1, <3>2
  <2>3. QED
    BY <1>1, <1>2, <1>4, <1>8, <2>1, <2>2 DEF Owned
<1>10. OwnedSpare(p)'
  <2>1. home'[p] = c /\ alive'[p] = alive[p] /\ state'[p][Spare] = state[p][Spare]
    BY <1>1, <1>2, <1>4, <1>5, <1>6
  <2>2. \A d \in Objects : d # c => requests'[p][d] = requests[p][d]
    BY <1>6
  <2>3. QED
    BY <1>1, <1>5, <2>1, <2>2 DEF OwnedSpare, Spared
<1>11. \A i \in Ops(p) : \/ state'[p][i] = state[p][i]
                         \/ {state[p][i], state'[p][i]} \subseteq {"none", "inactive", "freed"}
  BY <1>4, <1>6
<1>12. ~ (started[p] > done[p])
  <2>1. ~ InRound(p)
    BY <1>1, <1>2 DEF InRound
  <2>2. QED
    BY <1>5, <2>1 DEF Phase, Between
<1>13. home'[p] \in Objects /\ alive'[p] \subseteq Objects
  BY <1>4, <1>5 DEF Shape
<1>14. QED
  BY <1>4, <1>9, <1>10, <1>11, <1>12, <1>13, ObjectsStep

LEMMA RegisterSpareInv == ASSUME IInv, NEW p \in Ranks, RegisterSpare(p) PROVE IInv'
<1>1. PICK c \in alive[p] \ {home[p]} : Add(p, c, Spare)
  BY DEF RegisterSpare
<1>2. Shape(p) /\ Owned(p) /\ OwnedSpare(p) /\ Phase(p) /\ Spare \notin Ops(p) /\ c \in Objects
      /\ Registered(p) \in Nat /\ Ops(p) = 1 .. Len(Pattern[p]) /\ Len(Pattern[p]) \in Nat
  BY Mine, Ring DEF Shape
<1>3. /\ Domains'
      /\ UNCHANGED <<alive, home, net, posted, buffer, kernel, started, done>>
      /\ \A q \in Ranks : q # p => /\ requests'[q] = requests[q] /\ statuses'[q] = statuses[q]
                                   /\ state'[q] = state[q]
      /\ requests'[p] = [requests[p] EXCEPT ![c] = Append(requests[p][c], Spare)]
      /\ state'[p] = [state[p] EXCEPT ![Spare] = "inactive"] /\ state[p][Spare] = "none"
      /\ requests'[p] \in [Objects -> Seq(Ops(p) \union {Spare})]
      /\ DOMAIN statuses'[p] = Objects
      /\ \A d \in Objects : statuses'[p][d] = Len(requests'[p][d])
      /\ state'[p] \in [Ops(p) \union {Spare} -> States]
  BY <1>1, <1>2, AddFacts
<1>4. requests[p][c] = <<>> /\ \A d \in Objects : ~ Spared(p, d)
  BY <1>1, <1>2, <1>3 DEF OwnedSpare, Spared
<1>5. /\ requests'[p][c] = <<Spare>>
      /\ \A d \in Objects : d # c => requests'[p][d] = requests[p][d]
      /\ \A i \in Ops(p) : state'[p][i] = state[p][i]
      /\ state'[p][Spare] = "inactive"
  BY <1>2, <1>3, <1>4 DEF Shape
<1>6. home'[p] = home[p] /\ home[p] # c /\ home[p] \in Objects /\ alive'[p] = alive[p]
  BY <1>1, <1>2, <1>3 DEF Shape
<1>7. Registered(p)' = Registered(p) /\ Held(p)' = Held(p)
  BY <1>5, <1>6 DEF Registered, Held
<1>8. Owned(p)'
  BY <1>2, <1>3, <1>5, <1>6, <1>7 DEF Owned
<1>9. \A d \in Objects : Spared(p, d)' <=> d = c
  BY <1>4, <1>5, <1>6 DEF Spared
<1>10. OwnedSpare(p)'
  <2>1. \A d \in Objects \ {home[p]} :
          requests'[p][d] = <<>> \/ (requests'[p][d] = <<Spare>> /\ d \in alive[p])
    BY <1>1, <1>2, <1>5 DEF OwnedSpare
  <2>2. QED
    BY <1>2, <1>5, <1>6, <1>9, <2>1 DEF OwnedSpare
<1>11. started[p] > done[p] => home'[p] \in alive'[p] /\ Registered(p)' = Len(Pattern[p])
  BY <1>2, <1>6, <1>7 DEF Phase, InRound, Between
<1>12. alive'[p] \subseteq Objects
  BY <1>2, <1>6 DEF Shape
<1>13. QED
  BY <1>3, <1>5, <1>6, <1>8, <1>10, <1>11, <1>12, ObjectsStep
(* Both moves: the target d takes what p's channel owns, and what d owned, *)
(* at most the spare, is freed.                                            *)
LEMMA AdoptInv ==
  ASSUME IInv, NEW p \in Ranks, NEW d \in Objects \ {home[p]}, Adopt(p, d), home[p] \in alive[p],
         DOMAIN state' = Ranks, \A q \in Ranks : q # p => state'[q] = state[q],
         state'[p] = [i \in DOMAIN state[p] |->
                        IF i \in Range(requests[p][d]) THEN "freed" ELSE state[p][i]]
  PROVE  IInv'
<1>1. PICK c : c = home[p]
  OBVIOUS
<1>2. /\ Domains /\ Shape(p) /\ Owned(p) /\ OwnedSpare(p) /\ Phase(p) /\ Spare \notin Ops(p)
      /\ Registered(p) \in Nat /\ Ops(p) = 1 .. Len(Pattern[p])
  BY Mine, Ring DEF IInv
<1>3. /\ requests' = [requests EXCEPT ![p] =
                        [requests[p] EXCEPT ![d] = requests[p][c], ![c] = <<>>]]
      /\ statuses' = [statuses EXCEPT ![p] =
                        [statuses[p] EXCEPT ![d] = statuses[p][c], ![c] = 0]]
      /\ alive' = [alive EXCEPT ![p] = alive[p] \union {d}]
      /\ home' = [home EXCEPT ![p] = d]
      /\ UNCHANGED <<net, posted, buffer, kernel, started, done>>
  BY <1>1, <1>2 DEF Adopt, Held, Domains
<1>4. Domains'
  BY <1>2, <1>3 DEF Domains
<1>5. \A q \in Ranks : q # p => /\ alive'[q] = alive[q] /\ requests'[q] = requests[q]
                                /\ statuses'[q] = statuses[q] /\ home'[q] = home[q]
  BY <1>3
<1>6. /\ requests'[p] = [requests[p] EXCEPT ![d] = requests[p][c], ![c] = <<>>]
      /\ statuses'[p] = [statuses[p] EXCEPT ![d] = statuses[p][c], ![c] = 0]
      /\ alive'[p] = alive[p] \union {d} /\ home'[p] = d
  BY <1>2, <1>3 DEF Domains
<1>7. c \in Objects /\ c # d /\ requests[p] \in [Objects -> Seq(Ops(p) \union {Spare})]
      /\ DOMAIN statuses[p] = Objects /\ \A o \in Objects : statuses[p][o] = Len(requests[p][o])
      /\ state[p] \in [Ops(p) \union {Spare} -> States]
  BY <1>1, <1>2 DEF Shape
<1>8. /\ requests'[p][d] = requests[p][c] /\ requests'[p][c] = <<>>
      /\ \A o \in Objects : o # c /\ o # d => requests'[p][o] = requests[p][o]
      /\ statuses'[p][d] = statuses[p][c] /\ statuses'[p][c] = 0
      /\ \A o \in Objects : o # c /\ o # d => statuses'[p][o] = statuses[p][o]
      /\ DOMAIN statuses'[p] = Objects
  BY <1>6, <1>7
<1>9. requests'[p] \in [Objects -> Seq(Ops(p) \union {Spare})]
  <2>1. <<>> \in Seq(Ops(p) \union {Spare}) /\ requests[p][c] \in Seq(Ops(p) \union {Spare})
    BY <1>7
  <2>2. QED
    BY <1>6, <1>7, <2>1, ZenonT(30)
<1>10. ASSUME NEW o \in Objects PROVE statuses'[p][o] = Len(requests'[p][o])
  <2>1. CASE o = c
    BY <1>8, <2>1
  <2>2. CASE o = d
    BY <1>7, <1>8, <2>2
  <2>3. CASE o # c /\ o # d
    BY <1>7, <1>8, <2>3
  <2>4. QED
    BY <2>1, <2>2, <2>3
<1>11. requests[p][d] = <<>> \/ requests[p][d] = <<Spare>>
  BY <1>1, <1>2, <1>7 DEF OwnedSpare
<1>12. Range(requests[p][d]) \subseteq {Spare}
       /\ (Spare \in Range(requests[p][d]) <=> requests[p][d] = <<Spare>>)
  BY <1>11 DEF Range
<1>13. /\ \A i \in Ops(p) : state'[p][i] = state[p][i]
       /\ state'[p][Spare] = IF requests[p][d] = <<Spare>> THEN "freed" ELSE state[p][Spare]
       /\ state'[p] \in [Ops(p) \union {Spare} -> States]
  BY <1>2, <1>7, <1>12 DEF States
<1>14. Registered(p)' = Registered(p) /\ Held(p)' = Held(p)
  BY <1>1, <1>6, <1>8 DEF Registered, Held
<1>15. Owned(p)'
  <2>1. home[p] \in alive[p] /\ home'[p] \in alive'[p] /\ Len(Pattern[p]) \in Nat
    BY <1>6, Ring
  <2>2. \A i \in 1 .. Registered(p) : i \in Ops(p)
    BY <1>2, <2>1 DEF Owned
  <2>3. \A i \in 1 .. Registered(p) : Held(p)[i] = i /\ state'[p][i] \notin {"none", "freed"}
    BY <1>2, <1>13, <2>2 DEF Owned
  <2>4. \A i \in Ops(p) : i > Registered(p) => state'[p][i] = "none"
    BY <1>2, <1>13, <2>1 DEF Owned
  <2>5. QED
    BY <1>2, <1>14, <2>1, <2>3, <2>4, ZenonT(30) DEF Owned
<1>16. \A o \in Objects : Spared(p, o)' <=> Spared(p, o) /\ o # d
  BY <1>1, <1>6, <1>8 DEF Spared
<1>17. OwnedSpare(p)'
  <2>1. \A o \in Objects \ {d} :
          requests'[p][o] = <<>> \/ (requests'[p][o] = <<Spare>> /\ o \in alive'[p])
    BY <1>1, <1>2, <1>6, <1>8 DEF OwnedSpare
  <2>2. Spared(p, d) <=> requests[p][d] = <<Spare>>
    BY DEF Spared
  <2>3. state'[p][Spare] = "inactive" <=> \E o \in Objects : Spared(p, o) /\ o # d
    BY <1>2, <1>13, <2>2 DEF OwnedSpare
  <2>4. QED
    BY <1>2, <1>6, <1>13, <1>16, <2>1, <2>3 DEF OwnedSpare
<1>18. started[p] > done[p] => home'[p] \in alive'[p] /\ Registered(p)' = Len(Pattern[p])
  BY <1>2, <1>6, <1>14 DEF Phase, InRound, Between
<1>19. alive'[p] \subseteq Objects
  BY <1>2, <1>6 DEF Shape
<1>20. QED
  BY <1>3, <1>4, <1>5, <1>6, <1>8, <1>9, <1>10, <1>13, <1>15, <1>17, <1>18, <1>19, ObjectsStep, ZenonT(30)

LEMMA MoveConstructInv == ASSUME IInv, NEW p \in Ranks, MoveConstruct(p) PROVE IInv'
<1>1. PICK d \in Objects \ alive[p] : Adopt(p, d)
  BY DEF MoveConstruct
<1>2. home[p] \in alive[p] /\ d # home[p] /\ state' = state
  BY <1>1 DEF MoveConstruct
<1>3. Domains /\ Shape(p) /\ OwnedSpare(p)
  BY Mine DEF IInv
<1>4. requests[p][d] = <<>>
  BY <1>1, <1>2, <1>3 DEF OwnedSpare
<1>5. state'[p] = [i \in DOMAIN state[p] |->
                     IF i \in Range(requests[p][d]) THEN "freed" ELSE state[p][i]]
  BY <1>2, <1>3, <1>4 DEF Shape, Range
<1>6. QED
  BY <1>1, <1>2, <1>3, <1>5, AdoptInv DEF Domains

LEMMA ReleaseFacts ==
  ASSUME Domains, NEW p \in Ranks, NEW c, Release(p, c)
  PROVE  /\ DOMAIN state' = Ranks /\ \A q \in Ranks : q # p => state'[q] = state[q]
         /\ state'[p] = [i \in DOMAIN state[p] |->
                           IF i \in Range(requests[p][c]) THEN "freed" ELSE state[p][i]]
  BY DEF Release, Domains

LEMMA MoveAssignInv == ASSUME IInv, NEW p \in Ranks, MoveAssign(p) PROVE IInv'
<1>1. PICK d \in alive[p] \ {home[p]} : Release(p, d) /\ Adopt(p, d)
  BY DEF MoveAssign
<1>2. home[p] \in alive[p] /\ d \in Objects \ {home[p]}
  BY <1>1, Mine DEF MoveAssign, Shape
<1>3. QED
  BY <1>1, <1>2, ReleaseFacts, AdoptInv DEF IInv

LEMMA DestroyInv == ASSUME IInv, NEW p \in Ranks, Destroy(p) PROVE IInv'
<1>1. PICK c \in alive[p] :
        /\ c = home[p] => done[p] = Rounds
        /\ Release(p, c)
        /\ requests' = [requests EXCEPT ![p] = [requests[p] EXCEPT ![c] = <<>>]]
        /\ statuses' = [statuses EXCEPT ![p] = [statuses[p] EXCEPT ![c] = 0]]
        /\ alive' = [alive EXCEPT ![p] = alive[p] \ {c}]
        /\ UNCHANGED <<home, net, posted, buffer, kernel, started, done>>
  BY DEF Destroy
<1>2. /\ Domains /\ Shape(p) /\ Owned(p) /\ OwnedSpare(p) /\ Phase(p) /\ Spare \notin Ops(p)
      /\ Registered(p) \in Nat /\ Ops(p) = 1 .. Len(Pattern[p]) /\ Len(Pattern[p]) \in Nat
      /\ DOMAIN Held(p) = 1 .. Registered(p) /\ Rounds \in Nat
  BY Mine, Ring DEF IInv
<1>3. /\ DOMAIN state' = Ranks /\ \A q \in Ranks : q # p => state'[q] = state[q]
      /\ state'[p] = [i \in DOMAIN state[p] |->
                        IF i \in Range(requests[p][c]) THEN "freed" ELSE state[p][i]]
  BY <1>1, <1>2, ReleaseFacts
<1>4. Domains'
  BY <1>1, <1>2, <1>3 DEF Domains
<1>5. \A q \in Ranks : q # p => /\ alive'[q] = alive[q] /\ requests'[q] = requests[q]
                                /\ statuses'[q] = statuses[q] /\ home'[q] = home[q]
  BY <1>1
<1>6. /\ requests'[p] = [requests[p] EXCEPT ![c] = <<>>]
      /\ statuses'[p] = [statuses[p] EXCEPT ![c] = 0]
      /\ alive'[p] = alive[p] \ {c} /\ home'[p] = home[p]
  BY <1>1, <1>2 DEF Domains
<1>7. c \in Objects /\ requests[p] \in [Objects -> Seq(Ops(p) \union {Spare})]
      /\ DOMAIN statuses[p] = Objects /\ \A o \in Objects : statuses[p][o] = Len(requests[p][o])
      /\ state[p] \in [Ops(p) \union {Spare} -> States]
  BY <1>2 DEF Shape
<1>8. /\ requests'[p][c] = <<>> /\ statuses'[p][c] = 0 /\ DOMAIN statuses'[p] = Objects
      /\ \A o \in Objects : o # c => requests'[p][o] = requests[p][o]
                                     /\ statuses'[p][o] = statuses[p][o]
  BY <1>6, <1>7
<1>9. requests'[p] \in [Objects -> Seq(Ops(p) \union {Spare})]
  <2>1. <<>> \in Seq(Ops(p) \union {Spare})
    OBVIOUS
  <2>2. QED
    BY <1>6, <1>7, <2>1
<1>10. \A o \in Objects : statuses'[p][o] = Len(requests'[p][o])
  BY <1>7, <1>8
<1>11. state'[p] \in [Ops(p) \union {Spare} -> States]
  BY <1>3, <1>7 DEF States
<1>12. alive'[p] \subseteq Objects /\ home'[p] \in Objects
  BY <1>2, <1>6 DEF Shape
<1>13. CASE c = home[p]
  <2>1. Range(requests[p][c]) = 1 .. Registered(p)
    <3>1. DOMAIN Held(p) = 1 .. Registered(p) /\ \A i \in 1 .. Registered(p) : Held(p)[i] = i
      BY <1>2 DEF Owned
    <3>2. QED
      BY <1>13, <3>1 DEF Range, Held
  <2>2. \A i \in Ops(p) : state'[p][i] \in {"none", "freed"}
    <3>1. \A i \in Ops(p) : i \in 1 .. Registered(p) \/ i > Registered(p)
      BY <1>2
    <3>2. QED
      BY <1>1, <1>2, <1>3, <1>7, <1>13, <2>1, <3>1 DEF Owned
  <2>3. state'[p][Spare] = state[p][Spare]
    <3>1. Spare \notin 1 .. Registered(p)
      BY <1>2 DEF Spare
    <3>2. QED
      BY <1>3, <1>7, <2>1, <3>1
  <2>4. Registered(p)' = 0 /\ Held(p)' = <<>>
    BY <1>6, <1>8, <1>13 DEF Registered, Held
  <2>5. home'[p] \notin alive'[p] /\ done'[p] = Rounds
    BY <1>1, <1>6, <1>13
  <2>6. Owned(p)'
    BY <1>2, <2>2, <2>4, <2>5 DEF Owned
  <2>7. \A o \in Objects : Spared(p, o)' <=> Spared(p, o)
    BY <1>6, <1>8, <1>13 DEF Spared
  <2>8. OwnedSpare(p)'
    BY <1>2, <1>6, <1>8, <1>13, <2>3, <2>7 DEF OwnedSpare
  <2>9. ~ (started[p] > done[p]) /\ Between(p)
    BY <1>1, <1>2, <1>13 DEF Phase, InRound, Between
  <2>10. \A i \in Ops(p) : {state[p][i], state'[p][i]} \subseteq {"none", "inactive", "freed"}
    BY <2>2, <2>9 DEF Between
  <2>11. \A i \in Ops(p) : \/ state'[p][i] = state[p][i]
                          \/ {state[p][i], state'[p][i]} \subseteq {"none", "inactive", "freed"}
    BY <2>10
  <2>12. started[p] > done[p] => home'[p] \in alive'[p] /\ Registered(p)' = Len(Pattern[p])
    BY <2>9
  <2>13. QED
    BY <1>1, <1>3, <1>4, <1>5, <1>8, <1>9, <1>10, <1>11, <1>12, <2>6, <2>8, <2>11, <2>12, ObjectsStep,
       ZenonT(30)
<1>14. CASE c # home[p]
  <2>1. requests[p][c] = <<>> \/ requests[p][c] = <<Spare>>
    BY <1>2, <1>7, <1>14 DEF OwnedSpare
  <2>2. Range(requests[p][c]) \subseteq {Spare}
        /\ (Spare \in Range(requests[p][c]) <=> requests[p][c] = <<Spare>>)
    BY <2>1 DEF Range
  <2>3. /\ \A i \in Ops(p) : state'[p][i] = state[p][i]
        /\ state'[p][Spare] = IF requests[p][c] = <<Spare>> THEN "freed" ELSE state[p][Spare]
    BY <1>2, <1>3, <1>7, <2>2
  <2>4. Registered(p)' = Registered(p) /\ Held(p)' = Held(p)
    BY <1>2, <1>6, <1>8, <1>14 DEF Registered, Held, Shape
  <2>5. home'[p] \in alive'[p] <=> home[p] \in alive[p]
    BY <1>6, <1>14
  <2>6. Owned(p)'
    BY <1>1, <1>2, <2>3, <2>4, <2>5 DEF Owned
  <2>7. \A o \in Objects : Spared(p, o)' <=> Spared(p, o) /\ o # c
    BY <1>6, <1>8, SMTT(20) DEF Spared
  <2>8. OwnedSpare(p)'
    <3>1. \A o \in Objects \ {home[p]} :
            requests'[p][o] = <<>> \/ (requests'[p][o] = <<Spare>> /\ o \in alive'[p])
      BY <1>2, <1>6, <1>8 DEF OwnedSpare
    <3>2. Spared(p, c) <=> requests[p][c] = <<Spare>>
      BY <1>14 DEF Spared
    <3>3. state'[p][Spare] = "inactive" <=> \E o \in Objects : Spared(p, o) /\ o # c
      BY <1>2, <1>7, <2>3, <3>2 DEF OwnedSpare
    <3>4. QED
      BY <1>2, <1>6, <2>3, <2>7, <3>1, <3>3 DEF OwnedSpare
  <2>9. started[p] > done[p] => home'[p] \in alive'[p] /\ Registered(p)' = Len(Pattern[p])
    BY <1>2, <2>4, <2>5 DEF Phase, InRound, Between
  <2>10. QED
    BY <1>1, <1>3, <1>4, <1>5, <1>8, <1>9, <1>10, <1>11, <1>12, <2>3, <2>6, <2>8, <2>9, ObjectsStep, ZenonT(30)
<1>15. QED
  BY <1>13, <1>14
-----------------------------------------------------------------------------
(* Kernels.                                                                *)
LEMMA OtherLocals ==
  ASSUME IInv, NEW p \in Ranks, \A q \in Ranks : q # p => Same(q)
  PROVE  \A q \in Ranks : q # p => Local(q)'
  BY LocalFrame DEF IInv

LEMMA LaunchInv == ASSUME IInv, NEW p \in Ranks, Launch(p) PROVE IInv'
<1>1. /\ kernel[p] = "todo" /\ started[p] = done[p] /\ done[p] < Rounds
      /\ kernel' = [kernel EXCEPT ![p] = "running"]
      /\ UNCHANGED <<alive, requests, statuses, home, state, net, posted, buffer, started, done>>
  BY DEF Launch, object, library
<1>2. Domains /\ Local(p) /\ kernel'[p] = "running"
  BY <1>1 DEF IInv, Domains
<1>3. Domains'
  BY <1>1, <1>2 DEF Domains
<1>4. \A q \in Ranks : q # p => Local(q)'
  BY <1>1, OtherLocals DEF Same
<1>5. Local(p)'
  <2>1. Shape(p)' /\ Owned(p)' /\ OwnedSpare(p)' /\ Posted(p)'
    BY <1>1, <1>2 DEF Local, Shape, Owned, OwnedSpare, Spared, Held, Registered, Posted, Got
  <2>2. Phase(p)'
    BY <1>1, <1>2 DEF Local, Phase, InRound, Between
  <2>3. Filled(p)' /\ Holds(p)'
    BY <1>1, <1>2 DEF Local, Filled, Holds, Got
  <2>4. QED
    BY <2>1, <2>2, <2>3 DEF Local
<1>6. \A q \in Ranks : Chain(q)'
  BY <1>1, ChainsKept
<1>7. QED
  BY <1>3, <1>4, <1>5, <1>6 DEF IInv

LEMMA KernelDoneInv == ASSUME IInv, NEW p \in Ranks, KernelDone(p) PROVE IInv'
<1>1. PICK b : b = [i \in Ops(p) |-> IF Pattern[p][i] = "send" THEN <<p, i, done[p] + 1>> ELSE Blank]
  OBVIOUS
<1>2. /\ kernel[p] = "running" /\ kernel' = [kernel EXCEPT ![p] = "done"]
      /\ buffer' = [buffer EXCEPT ![p] = b]
      /\ UNCHANGED <<alive, requests, statuses, home, state, net, posted, started, done>>
  BY <1>1 DEF KernelDone, object, library
<1>3. Domains /\ Local(p) /\ kernel'[p] = "done" /\ buffer'[p] = b
  BY <1>2 DEF IInv, Domains
<1>4. Domains'
  BY <1>2, <1>3 DEF Domains
<1>5. \A q \in Ranks : q # p => Local(q)'
  BY <1>2, OtherLocals DEF Same
<1>6. started[p] = done[p] /\ done[p] + 1 \in 0 .. Rounds /\ Between(p) /\ done[p] < Rounds
  <2>1. started[p] = done[p] /\ done[p] < Rounds /\ done[p] \in 0 .. Rounds
    BY <1>2, <1>3 DEF Local, Phase
  <2>2. ~ InRound(p)
    BY <1>2 DEF InRound
  <2>3. done[p] + 1 \in 0 .. Rounds
    <3>1. Rounds \in Nat
      BY Ring
    <3>2. QED
      BY <2>1, <3>1
  <2>4. QED
    BY <1>3, <2>1, <2>2, <2>3 DEF Local, Phase
<1>7. Local(p)'
  <2>1. b \in [Ops(p) -> Data \union {Blank}]
    <3>1. \A i \in Ops(p) : <<p, i, done[p] + 1>> \in Data
      BY <1>6, Ring DEF Data
    <3>2. QED
      BY <1>1, <3>1
  <2>2. Shape(p)' /\ Owned(p)' /\ OwnedSpare(p)' /\ Posted(p)'
    BY <1>2, <1>3, <2>1 DEF Local, Shape, Owned, OwnedSpare, Spared, Held, Registered, Posted, Got
  <2>3. Phase(p)'
    BY <1>2, <1>3, <1>6 DEF Local, Phase, Between
  <2>4. Filled(p)'
    <3>1. \A i \in Range(Sends(p)) : i \in Ops(p) /\ Pattern[p][i] = "send"
      BY SendFacts DEF Range
    <3>2. QED
      BY <1>1, <1>2, <1>3, <3>1 DEF Filled
  <2>5. Holds(p)'
    BY <1>2, <1>3, <1>6 DEF Holds, Local, Phase
  <2>6. QED
    BY <2>2, <2>3, <2>4, <2>5 DEF Local
<1>8. \A q \in Ranks : Chain(q)'
  BY <1>2, ChainsKept
<1>9. QED
  BY <1>4, <1>5, <1>7, <1>8 DEF IInv

-----------------------------------------------------------------------------
(* The end of a round: everything is complete, so all that was posted has  *)
(* come.                                                                   *)
LEMMA WaitFacts ==
  ASSUME IInv, NEW p \in Ranks, Wait(p)
  PROVE  /\ InRound(p) /\ posted[p] = <<>> /\ Got(p) = Len(Recvs(p))
         /\ \A i \in Ops(p) : state[p][i] = "complete"
         /\ state' = [state EXCEPT ![p] =
                        [i \in DOMAIN state[p] |-> IF i \in Ops(p) THEN "inactive" ELSE state[p][i]]]
         /\ done' = [done EXCEPT ![p] = done[p] + 1] /\ done[p] + 1 = started[p]
         /\ kernel' = [kernel EXCEPT ![p] = "todo"]
         /\ UNCHANGED <<alive, requests, statuses, home, net, posted, buffer, started>>
<1>1. /\ started[p] > done[p]
      /\ \A i \in Range(Held(p)) : state[p][i] \in {"complete", "inactive"}
      /\ state' = [state EXCEPT ![p] =
                     [i \in DOMAIN state[p] |-> IF i \in Range(Held(p)) THEN "inactive" ELSE state[p][i]]]
      /\ done' = [done EXCEPT ![p] = done[p] + 1]
      /\ kernel' = [kernel EXCEPT ![p] = "todo"]
      /\ UNCHANGED <<alive, requests, statuses, home, net, posted, buffer, started>>
  BY DEF Wait, WaitFor, object
<1>2. InRound(p) /\ Local(p) /\ started[p] \in Int /\ done[p] \in Int
  BY <1>1 DEF IInv, Local, Phase, Between
<1>3. Range(Held(p)) = Ops(p)
  <2>1. DOMAIN Held(p) = Ops(p)
    <3>1. DOMAIN Held(p) = 1 .. Registered(p) /\ Ops(p) = 1 .. Len(Pattern[p])
      BY Mine, Ring
    <3>2. QED
      BY <1>2, <3>1 DEF InRound
  <2>2. \A i \in 1 .. Registered(p) : Held(p)[i] = i
    BY Mine DEF Owned
  <2>3. DOMAIN Held(p) = 1 .. Registered(p)
    BY Mine
  <2>4. QED
    BY <2>1, <2>2, <2>3 DEF Range
<1>4. \A i \in Ops(p) : state[p][i] = "complete"
  BY <1>1, <1>2, <1>3 DEF InRound
<1>5. posted[p] = <<>> /\ Got(p) = Len(Recvs(p))
  <2>1. posted[p] \in Seq(Ops(p)) /\ Len(posted[p]) <= Len(Recvs(p)) /\ Len(Recvs(p)) \in Nat
        /\ DOMAIN Recvs(p) = 1 .. Len(Recvs(p))
    BY <1>2, RecvFacts DEF Local, Posted
  <2>2. \A j \in DOMAIN Recvs(p) : ~ (j > Got(p))
    BY <1>2, <1>4, RecvFacts DEF InRound
  <2>3. Len(posted[p]) = 0
    <3>1. PICK n, m : n = Len(Recvs(p)) /\ m = Len(posted[p])
      OBVIOUS
    <3>2. n \in Nat /\ m \in Nat /\ m <= n
      BY <2>1, <3>1
    <3>3. \A j \in 1 .. n : ~ (j > n - m)
      BY <2>1, <2>2, <3>1 DEF Got
    <3>4. m = 0
      BY <3>2, <3>3
    <3>5. QED
      BY <3>1, <3>4
  <2>4. QED
    BY <2>1, <2>3 DEF Got
<1>6. QED
  BY <1>1, <1>2, <1>3, <1>4, <1>5 DEF InRound

LEMMA WaitInv == ASSUME IInv, NEW p \in Ranks, Wait(p) PROVE IInv'
<1>1. /\ InRound(p) /\ posted[p] = <<>> /\ Got(p) = Len(Recvs(p))
      /\ \A i \in Ops(p) : state[p][i] = "complete"
      /\ state' = [state EXCEPT ![p] =
                     [i \in DOMAIN state[p] |-> IF i \in Ops(p) THEN "inactive" ELSE state[p][i]]]
      /\ done' = [done EXCEPT ![p] = done[p] + 1] /\ done[p] + 1 = started[p]
      /\ kernel' = [kernel EXCEPT ![p] = "todo"]
      /\ UNCHANGED <<alive, requests, statuses, home, net, posted, buffer, started>>
  BY WaitFacts
<1>2. Domains /\ Local(p) /\ Spare \notin Ops(p) /\ Ops(p) = 1 .. Len(Pattern[p])
  BY Ring DEF IInv
<1>3. /\ kernel'[p] = "todo" /\ done'[p] = started[p]
      /\ state'[p] = [i \in DOMAIN state[p] |-> IF i \in Ops(p) THEN "inactive" ELSE state[p][i]]
  BY <1>1, <1>2 DEF Domains
<1>4. Domains'
  BY <1>1, <1>2, <1>3 DEF Domains
<1>5. \A q \in Ranks : q # p => Same(q)
  BY <1>1 DEF Same
<1>6. \A q \in Ranks : q # p => Local(q)'
  BY <1>5, OtherLocals
<1>7. /\ state'[p] \in [Ops(p) \union {Spare} -> States]
      /\ \A i \in Ops(p) : state'[p][i] = "inactive"
      /\ state'[p][Spare] = state[p][Spare]
  BY <1>2, <1>3 DEF Local, Shape, States
<1>8. Local(p)'
  <2>1. Shape(p)'
    BY <1>1, <1>2, <1>7 DEF Local, Shape
  <2>2. Phase(p)'
    BY <1>1, <1>2, <1>3, <1>7 DEF Local, Phase, Between
  <2>3. OwnedSpare(p)'
    BY <1>1, <1>2, <1>7 DEF Local, OwnedSpare, Spared
  <2>4. Owned(p)'
    <3>1. Owned(p) /\ home[p] \in alive[p] /\ Registered(p) = Len(Pattern[p])
      BY <1>1, <1>2 DEF Local, InRound
    <3>2. Registered(p)' = Registered(p) /\ Held(p)' = Held(p) /\ home'[p] \in alive'[p]
      BY <1>1, <3>1 DEF Held, Registered
    <3>3. \A i \in 1 .. Registered(p) : Held(p)[i] = i /\ state'[p][i] \notin {"none", "freed"}
      BY <1>2, <1>7, <3>1 DEF Owned
    <3>4. \A i \in Ops(p) : ~ (i > Registered(p))
      BY <1>2, <3>1, Ring
    <3>5. QED
      BY <3>1, <3>2, <3>3, <3>4 DEF Owned
  <2>5. Filled(p)'
    BY <1>3 DEF Filled
  <2>6. Posted(p)'
    BY <1>1, <1>2 DEF Local, Posted, Got
  <2>7. started[p] > done[p]
    BY <1>1, <1>2 DEF Local, Phase
  <2>8. Holds(p)'
    BY <1>1, <1>2, <2>7 DEF Local, Holds, Got
  <2>9. QED
    BY <2>1, <2>2, <2>3, <2>4, <2>5, <2>6, <2>8 DEF Local
<1>9. \A q \in Ranks : Chain(q)'
  <2>1. ASSUME NEW q \in Ranks, NEW i \in Ops(q), started[q] > done[q], state[q][i] = "active"
        PROVE  started[q] > done'[q] /\ state'[q][i] = "active"
    <3>1. q # p
      BY <1>1, <2>1
    <3>2. QED
      BY <1>5, <2>1, <3>1 DEF Same
  <2>2. QED
    BY <1>1, <2>1, ChainsKept
<1>10. QED
  BY <1>4, <1>6, <1>8, <1>9 DEF IInv
-----------------------------------------------------------------------------
(* Sequences and numberings, for any number of messages.                   *)
LEMMA Joined ==
  ASSUME NEW S, NEW s \in Seq(S), NEW t \in Seq(S), NEW L \in Nat, NEW N \in Nat,
         L = Len(s), N = Len(t)
  PROVE  /\ Len(s \o t) = L + N
         /\ \A k \in 1 .. L : (s \o t)[k] = s[k]
         /\ \A k \in L + 1 .. L + N : (s \o t)[k] = t[k - L]
<1>1. Len(s \o t) = L + N
  OBVIOUS
<1>2. ASSUME NEW k \in 1 .. L PROVE (s \o t)[k] = s[k]
  OBVIOUS
<1>3. ASSUME NEW k \in L + 1 .. L + N PROVE (s \o t)[k] = t[k - L]
  <2>1. k \in 1 .. L + N /\ ~ (k <= L)
    OBVIOUS
  <2>2. QED
    BY <2>1, ConcatProperties
<1>4. QED
  BY <1>1, <1>2, <1>3

(* After the L messages of the rounds up to c, the N of round c + 1.       *)
Follows(N, L, c, at, to) ==
  /\ Numbered(N, L + N, to) /\ to[1] = at[1] /\ to[L + N + 1] = <<c + 2, 1>>
  /\ \A k \in 1 .. L : to[k] = at[k]
  /\ \A k \in L + 1 .. L + N : to[k] = <<c + 1, k - L>>

LEMMA Continue ==
  ASSUME NEW N \in Nat, N > 0, NEW L \in Nat, NEW c \in Nat, NEW at, Numbered(N, L, at),
         at[L + 1] = <<c + 1, 1>>, \A k \in 1 .. L : at[k][1] \in 1 .. c
  PROVE  \E to : Follows(N, L, c, at, to)
<1>1. PICK to : to = [k \in 1 .. L + N + 1 |->
                        IF k <= L THEN at[k] ELSE IF k <= L + N THEN <<c + 1, k - L>> ELSE <<c + 2, 1>>]
  OBVIOUS
<1>2. ASSUME NEW k \in 1 .. L PROVE to[k] = at[k] /\ to[k] \in Nat \X (1 .. N)
  <2>1. k \in 1 .. L + N + 1 /\ k <= L /\ k \in 1 .. L + 1
    OBVIOUS
  <2>2. QED
    BY <1>1, <2>1 DEF Numbered
<1>3. ASSUME NEW k \in L + 1 .. L + N
      PROVE  to[k] = <<c + 1, k - L>> /\ to[k] \in Nat \X (1 .. N)
  <2>1. k \in 1 .. L + N + 1 /\ ~ (k <= L) /\ k <= L + N /\ c + 1 \in Nat /\ k - L \in 1 .. N
    OBVIOUS
  <2>2. QED
    BY <1>1, <2>1
<1>4. to[L + N + 1] = <<c + 2, 1>> /\ to[L + N + 1] \in Nat \X (1 .. N)
  <2>1. /\ L + N + 1 \in 1 .. L + N + 1 /\ ~ (L + N + 1 <= L) /\ ~ (L + N + 1 <= L + N)
        /\ c + 2 \in Nat /\ 1 \in 1 .. N
    OBVIOUS
  <2>2. QED
    BY <1>1, <2>1
<1>5. to \in [1 .. L + N + 1 -> Nat \X (1 .. N)]
  <2>1. \A k \in 1 .. L + N + 1 : k \in 1 .. L \/ k \in L + 1 .. L + N \/ k = L + N + 1
    OBVIOUS
  <2>2. \A k \in 1 .. L + N + 1 : to[k] \in Nat \X (1 .. N)
    BY <1>2, <1>3, <1>4, <2>1
  <2>3. QED
    BY <1>1, <2>2
<1>6. to[1] = at[1] /\ to[L + 1] = at[L + 1]
  <2>1. to[L + 1] = <<c + 1, 1>>
    <3>1. L + 1 \in L + 1 .. L + N /\ L + 1 - L = 1
      OBVIOUS
    <3>2. QED
      BY <1>3, <3>1
  <2>2. 1 \in 1 .. L \/ L = 0
    OBVIOUS
  <2>3. QED
    BY <1>2, <2>1, <2>2
<1>7. ASSUME NEW k \in 1 .. L + N PROVE to[k + 1] = Step(N, to[k])
  <2>1. CASE k < L
    <3>1. k \in 1 .. L /\ k + 1 \in 1 .. L
      BY <2>1
    <3>2. QED
      BY <1>2, <3>1 DEF Numbered
  <2>2. CASE k = L
    <3>1. k \in 1 .. L
      BY <2>2
    <3>2. QED
      BY <1>2, <1>6, <2>2, <3>1 DEF Numbered
  <2>3. CASE k > L /\ k < L + N
    <3>1. k \in L + 1 .. L + N /\ k + 1 \in L + 1 .. L + N /\ k - L < N /\ k + 1 - L = k - L + 1
      BY <2>3
    <3>2. to[k] = <<c + 1, k - L>> /\ to[k + 1] = <<c + 1, k - L + 1>>
      BY <1>3, <3>1
    <3>3. QED
      BY <3>1, <3>2 DEF Step
  <2>4. CASE k = L + N
    <3>1. k \in L + 1 .. L + N /\ k - L = N
      BY <2>4
    <3>2. to[k] = <<c + 1, N>> /\ to[k + 1] = <<c + 2, 1>>
      BY <1>3, <1>4, <2>4, <3>1
    <3>3. ~ (N < N) /\ c + 1 + 1 = c + 2
      OBVIOUS
    <3>4. QED
      BY <3>2, <3>3 DEF Step
  <2>5. QED
    BY <2>1, <2>2, <2>3, <2>4
<1>8. ASSUME NEW k \in 1 .. L + N, NEW l \in 1 .. L + N, to[k] = to[l] PROVE k = l
  <2>1. \A j \in 1 .. L : to[j] = at[j] /\ to[j][1] \in 1 .. c
    BY <1>2
  <2>2. \A j \in L + 1 .. L + N : to[j][1] = c + 1 /\ to[j][2] = j - L
    BY <1>3
  <2>3. (k \in 1 .. L \/ k \in L + 1 .. L + N) /\ (l \in 1 .. L \/ l \in L + 1 .. L + N)
    OBVIOUS
  <2>4. CASE k \in 1 .. L /\ l \in 1 .. L
    BY <1>8, <2>1, <2>4 DEF Numbered
  <2>5. CASE k \in L + 1 .. L + N /\ l \in L + 1 .. L + N
    <3>1. k - L = l - L
      BY <1>8, <2>2, <2>5
    <3>2. QED
      BY <3>1
  <2>6. ~ (c + 1 \in 1 .. c)
    OBVIOUS
  <2>7. QED
    BY <1>8, <2>1, <2>2, <2>3, <2>4, <2>5, <2>6
<1>9. Numbered(N, L + N, to)
  BY <1>5, <1>7, <1>8 DEF Numbered
<1>10. QED
  BY <1>2, <1>3, <1>4, <1>6, <1>9 DEF Follows

(* The start of a round: its sends continue the numbering.                 *)
LEMMA ChainStart ==
  ASSUME NEW p \in Ranks, NEW c \in Nat, NEW new, Shape(p), Chain(p), Sends(p) # <<>>,
         started[p] = c, done[p] = c, started'[p] = c + 1, done'[p] = c,
         new = [j \in 1 .. Len(Sends(p)) |-> <<Sends(p)[j], Unread>>],
         net'[p] = net[p] \o new,
         Expected(Dst[p])' = Expected(Dst[p]),
         \A i \in Ops(p) : state'[p][i] = "active"
  PROVE  Chain(p)'
<1>1. PICK at : Numbers(p, at)
  BY DEF Chain
<1>2. PICK S : S = Ops(p) \X (Data \union {Unread})
  OBVIOUS
<1>3. PICK L \in Nat, N \in Nat : L = Len(net[p]) /\ N = Len(Sends(p)) /\ N > 0
  <2>1. Len(net[p]) \in Nat /\ Len(Sends(p)) \in Nat /\ Sends(p) \in Seq(Ops(p))
    BY SendFacts DEF Shape
  <2>2. Len(Sends(p)) > 0
    BY <2>1
  <2>3. QED
    BY <2>1, <2>2
<1>4. \A j \in 1 .. N : Sends(p)[j] \in Ops(p)
  BY <1>3, SendFacts
<1>5. net[p] \in Seq(S) /\ new \in Seq(S) /\ Len(new) = N
  <2>1. new \in [1 .. N -> S]
    BY <1>2, <1>3, <1>4
  <2>2. net[p] \in Seq(S)
    BY <1>2 DEF Shape
  <2>3. new \in Seq(S) /\ DOMAIN new = 1 .. N
    BY <1>3, <2>1
  <2>4. QED
    BY <1>3, <2>2, <2>3
<1>6. /\ Len(net'[p]) = L + N
      /\ \A k \in 1 .. L : net'[p][k] = net[p][k]
      /\ \A k \in L + 1 .. L + N : net'[p][k] = new[k - L]
  <2>1. PICK s, t : s = net[p] /\ t = net'[p]
    OBVIOUS
  <2>2. /\ Len(s \o new) = L + N
        /\ \A k \in 1 .. L : (s \o new)[k] = s[k]
        /\ \A k \in L + 1 .. L + N : (s \o new)[k] = new[k - L]
    BY <1>3, <1>5, <2>1, Joined
  <2>3. t = s \o new
    BY <2>1
  <2>4. QED
    BY <2>1, <2>2, <2>3
<1>7. Numbered(N, L, at) /\ at[L + 1] = <<c + 1, 1>> /\ at[1] = Expected(Dst[p])
      /\ \A k \in 1 .. L : Entry(p, net[p][k], at[k])
  BY <1>1, <1>3 DEF Numbers
<1>8. PICK to : Follows(N, L, c, at, to)
  <2>1. \A k \in 1 .. L : at[k][1] \in 1 .. c
    BY <1>7 DEF Entry
  <2>2. QED
    BY <1>3, <1>7, <2>1, Continue
<1>9. ASSUME NEW k \in 1 .. L + N PROVE Entry(p, net[p][k], to[k])'
  <2>1. CASE k \in 1 .. L
    <3>1. Entry(p, net[p][k], at[k]) /\ net'[p][k] = net[p][k] /\ to[k] = at[k]
      BY <1>6, <1>7, <1>8, <2>1 DEF Follows
    <3>2. at[k][1] \in 1 .. c + 1 /\ net[p][k][1] = Sends(p)[at[k][2]]
          /\ net[p][k][2] = <<p, net[p][k][1], at[k][1]>>
      BY <3>1 DEF Entry
    <3>3. QED
      BY <3>1, <3>2 DEF Entry
  <2>2. CASE k \in L + 1 .. L + N
    <3>1. k - L \in 1 .. N
      BY <2>2
    <3>2. net'[p][k] = <<Sends(p)[k - L], Unread>> /\ to[k] = <<c + 1, k - L>>
      BY <1>3, <1>6, <1>8, <2>2, <3>1 DEF Follows
    <3>3. state'[p][Sends(p)[k - L]] = "active"
      BY <1>4, <3>1
    <3>4. c + 1 > c /\ c + 1 \in 1 .. c + 1
      OBVIOUS
    <3>5. PICK e, a : e = net'[p][k] /\ a = to[k]
      OBVIOUS
    <3>6. e[1] = Sends(p)[a[2]] /\ e[2] = Unread /\ a[1] = c + 1 /\ state'[p][e[1]] = "active"
      BY <3>2, <3>3, <3>5
    <3>7. started'[p] = a[1] /\ started'[p] > done'[p] /\ a[1] \in 1 .. started'[p]
      BY <3>4, <3>6
    <3>8. QED
      BY <3>5, <3>6, <3>7 DEF Entry
  <2>3. k \in 1 .. L \/ k \in L + 1 .. L + N
    OBVIOUS
  <2>4. QED
    BY <2>1, <2>2, <2>3
<1>10. Numbered(N, L + N, to) /\ to[1] = at[1] /\ to[L + N + 1] = <<c + 2, 1>>
  BY <1>8 DEF Follows
<1>11. started'[p] + 1 = c + 2
  OBVIOUS
<1>12. Numbers(p, to)'
  BY <1>3, <1>6, <1>7, <1>9, <1>10, <1>11 DEF Numbers
<1>13. QED
  BY <1>12 DEF Chain

LEMMA StartInv == ASSUME IInv, NEW p \in Ranks, Start(p) PROVE IInv'
<1>1. PICK new : new = [j \in 1 .. Len(Sends(p)) |-> <<Sends(p)[j], Unread>>]
  OBVIOUS
<1>2. /\ home[p] \in alive[p] /\ Registered(p) = Len(Pattern[p]) /\ started[p] = done[p]
      /\ kernel[p] = "done" /\ StartAll(p, Held(p))
      /\ started' = [started EXCEPT ![p] = started[p] + 1]
      /\ UNCHANGED <<alive, requests, statuses, home, buffer, kernel, done>>
  BY DEF Start, MayStart, object
<1>3. Domains /\ Local(p) /\ Chain(p)
  BY DEF IInv
<1>4. PICK c \in Nat : c = started[p] /\ c = done[p] /\ c + 1 \in 0 .. Rounds /\ c + 1 > c
  <2>1. done[p] \in 0 .. Rounds /\ done[p] < Rounds
    BY <1>2, <1>3 DEF Local, Phase
  <2>2. Rounds \in Nat
    BY Ring
  <2>3. done[p] \in Nat /\ done[p] + 1 \in 0 .. Rounds /\ done[p] + 1 > done[p]
    BY <2>1, <2>2
  <2>4. QED
    BY <1>2, <2>3
<1>5. Between(p)
  <2>1. ~ InRound(p)
    BY <1>4 DEF InRound
  <2>2. QED
    BY <1>3, <2>1 DEF Local, Phase
<1>6. Held(p) \in Seq(Ops(p)) /\ Len(Held(p)) = Len(Pattern[p]) /\ \A i \in 1 .. Len(Held(p)) : Held(p)[i] = i
  <2>1. Held(p) \in Seq(Ops(p) \union {Spare}) /\ DOMAIN Held(p) = Ops(p) /\ Len(Held(p)) = Registered(p)
    BY <1>2, Mine, Ring DEF Held, Registered
  <2>2. \A i \in 1 .. Registered(p) : Held(p)[i] = i
    BY <1>3 DEF Local, Owned
  <2>3. \A i \in Ops(p) : Held(p)[i] \in Ops(p)
    BY <1>2, <2>2, Ring, SMTT(20)
  <2>4. Held(p) \in Seq(Ops(p))
    BY <2>1, <2>3
  <2>5. QED
    BY <1>2, <2>1, <2>2, <2>4
<1>7. /\ net' = [net EXCEPT ![p] = net[p] \o new] /\ posted' = [posted EXCEPT ![p] = posted[p] \o Recvs(p)]
      /\ Range(Held(p)) = Ops(p)
  BY <1>1, <1>2, <1>6, StartFacts
<1>8. state' = [state EXCEPT ![p] = [i \in DOMAIN state[p] |-> IF i \in Ops(p) THEN "active" ELSE state[p][i]]]
  <2>1. state' = [state EXCEPT ![p] =
                    [i \in DOMAIN state[p] |-> IF i \in Range(Held(p)) THEN "active" ELSE state[p][i]]]
    BY <1>2 DEF StartAll
  <2>2. QED
    BY <1>7, <2>1
<1>9. Domains'
  <2>1. \A q \in Ranks : started'[q] \in 0 .. Rounds
    BY <1>2, <1>3, <1>4 DEF Domains
  <2>2. started' \in [Ranks -> 0 .. Rounds]
    BY <1>2, <1>3, <2>1 DEF Domains
  <2>3. QED
    BY <1>2, <1>3, <1>7, <1>8, <2>2 DEF Domains
<1>10. \A q \in Ranks : q # p => Same(q)
  BY <1>2, <1>7, <1>8 DEF Same
<1>11. \A q \in Ranks : q # p => Local(q)'
  BY <1>10, OtherLocals
<1>12. /\ net'[p] = net[p] \o new /\ started'[p] = c + 1 /\ done'[p] = c
       /\ state'[p] = [i \in DOMAIN state[p] |-> IF i \in Ops(p) THEN "active" ELSE state[p][i]]
  BY <1>2, <1>3, <1>4, <1>7, <1>8 DEF Domains
<1>13. posted'[p] = Recvs(p) /\ Recvs(p) \in Seq(Ops(p)) /\ Len(Recvs(p)) \in Nat
       /\ DOMAIN Recvs(p) = 1 .. Len(Recvs(p)) /\ \A j \in DOMAIN Recvs(p) : Recvs(p)[j] \in Ops(p)
  <2>1. Recvs(p) \in Seq(Ops(p)) /\ posted[p] = <<>>
    BY <1>5, RecvFacts DEF Between
  <2>2. <<>> \o Recvs(p) = Recvs(p)
    BY <2>1
  <2>3. posted'[p] = posted[p] \o Recvs(p)
    BY <1>3, <1>7 DEF Domains
  <2>4. QED
    BY <2>1, <2>2, <2>3, RecvFacts
<1>14. Got(p)' = 0
  BY <1>13 DEF Got
<1>15. /\ state'[p] \in [Ops(p) \union {Spare} -> States]
       /\ \A i \in Ops(p) : state'[p][i] = "active"
       /\ state'[p][Spare] = state[p][Spare]
  <2>1. state[p] \in [Ops(p) \union {Spare} -> States] /\ Spare \notin Ops(p)
    BY <1>3, Ring DEF Local, Shape
  <2>2. QED
    BY <1>12, <2>1 DEF States
<1>16. Local(p)'
  <2>1. Shape(p)'
    <3>1. new \in Seq(Ops(p) \X (Data \union {Unread}))
      <4>1. Len(Sends(p)) \in Nat /\ \A j \in 1 .. Len(Sends(p)) : Sends(p)[j] \in Ops(p)
        BY SendFacts
      <4>2. QED
        BY <1>1, <4>1
    <3>2. net[p] \in Seq(Ops(p) \X (Data \union {Unread}))
      BY <1>3 DEF Local, Shape
    <3>3. net[p] \o new \in Seq(Ops(p) \X (Data \union {Unread}))
      BY <3>1, <3>2
    <3>4. QED
      BY <1>2, <1>3, <1>12, <1>15, <3>3 DEF Local, Shape
  <2>2. InRound(p)'
    <3>1. home'[p] \in alive'[p] /\ Registered(p)' = Len(Pattern[p]) /\ kernel'[p] = "done"
      BY <1>2 DEF Registered
    <3>2. started'[p] = done'[p] + 1
      BY <1>12
    <3>3. QED
      BY <1>13, <1>15, <3>1, <3>2 DEF InRound
  <2>3. Phase(p)'
    <3>1. started'[p] \in 0 .. Rounds /\ done'[p] \in 0 .. Rounds /\ kernel'[p] = "done" /\ done'[p] < Rounds
      BY <1>2, <1>3, <1>4, <1>12 DEF Local, Phase
    <3>2. QED
      BY <2>2, <3>1 DEF Phase
  <2>4. Owned(p)'
    <3>1. Owned(p)
      BY <1>3 DEF Local
    <3>2. Registered(p)' = Registered(p) /\ Held(p)' = Held(p) /\ home'[p] \in alive'[p]
      BY <1>2 DEF Held, Registered
    <3>3. \A i \in Ops(p) : i \in 1 .. Registered(p) /\ ~ (i > Registered(p))
      BY <1>2, Ring
    <3>4. \A i \in 1 .. Registered(p) : Held(p)[i] = i /\ state'[p][i] \notin {"none", "freed"}
      BY <1>2, <1>15, <3>1, Ring DEF Owned
    <3>5. QED
      BY <3>1, <3>2, <3>3, <3>4 DEF Owned
  <2>5. OwnedSpare(p)'
    BY <1>2, <1>3, <1>15 DEF Local, OwnedSpare, Spared
  <2>6. Filled(p)'
    BY <1>2, <1>3 DEF Local, Filled
  <2>7. Holds(p)'
    <3>1. \A j \in DOMAIN Recvs(p) : ~ (j <= Got(p)')
      BY <1>13, <1>14
    <3>2. QED
      BY <3>1 DEF Holds
  <2>8. Posted(p)'
    <3>1. \A k \in DOMAIN Recvs(p) : Got(p)' + k = k
      BY <1>13, <1>14
    <3>2. QED
      BY <1>13, <3>1 DEF Posted
  <2>9. QED
    BY <2>1, <2>3, <2>4, <2>5, <2>6, <2>7, <2>8 DEF Local
<1>17. ASSUME NEW q \in Ranks, Sends(q) # <<>> PROVE Expected(Dst[q])' = Expected(Dst[q])
  <2>1. CASE Dst[q] # p
    BY <1>10, <2>1, Ring DEF Same, Expected, Got
  <2>2. CASE Dst[q] = p
    <3>1. Src[p] = q /\ Len(Recvs(p)) = Len(Sends(q)) /\ Sends(q) \in Seq(Ops(q))
      BY <2>2, Ring, SendFacts
    <3>2. Recvs(p) # <<>>
      BY <1>13, <1>17, <3>1
    <3>3. Expected(p) = <<c + 1, 1>>
      BY <1>4, <1>5 DEF Expected, Between
    <3>4. Expected(p)' = <<c + 1, 1>>
      BY <1>12, <1>13, <1>14, <3>2 DEF Expected
    <3>5. QED
      BY <2>2, <3>3, <3>4
  <2>3. QED
    BY <2>1, <2>2
<1>18. Chain(p)'
  <2>1. CASE Sends(p) = <<>>
    <3>1. net[p] = <<>> /\ new = <<>>
      BY <1>1, <1>3, <2>1 DEF Chain
    <3>2. net'[p] = <<>>
      BY <1>12, <3>1
    <3>3. QED
      BY <2>1, <3>2 DEF Chain
  <2>2. CASE Sends(p) # <<>>
    <3>1. Shape(p)
      BY <1>3 DEF Local
    <3>2. started[p] = c /\ done[p] = c
      BY <1>4
    <3>3. QED
      BY <1>1, <1>3, <1>12, <1>15, <1>17, <2>2, <3>1, <3>2, ChainStart
  <2>3. QED
    BY <2>1, <2>2
<1>19. ASSUME NEW q \in Ranks, q # p PROVE Chain(q)'
  <2>1. Same(q) /\ Chain(q) /\ Shape(q)
    BY <1>10, <1>19 DEF IInv, Local
  <2>2. CASE Sends(q) = <<>>
    BY <2>1, <2>2 DEF Same, Chain
  <2>3. CASE Sends(q) # <<>>
    <3>1. Expected(Dst[q])' = Expected(Dst[q])
      BY <1>17, <2>3
    <3>2. QED
      BY <2>1, <3>1, ChainFrame DEF Same
  <2>4. QED
    BY <2>2, <2>3
<1>20. QED
  BY <1>9, <1>11, <1>16, <1>18, <1>19 DEF IInv
-----------------------------------------------------------------------------
(* Messages.  One that MPI has not read is a send of the round under way,  *)
(* whose buffer the kernels filled before it.                              *)
LEMMA Rounded ==
  ASSUME NEW p \in Ranks, Local(p), started[p] > done[p]
  PROVE  /\ InRound(p) /\ kernel[p] = "done" /\ started[p] = done[p] + 1
         /\ started[p] \in Nat /\ started[p] \in 0 .. Rounds /\ done[p] \in Nat
         /\ \A i \in Ops(p) :
              Pattern[p][i] = "send" => /\ buffer[p][i] = <<p, i, started[p]>>
                                        /\ <<p, i, started[p]>> \in Data
<1>1. started[p] \in 0 .. Rounds /\ done[p] \in 0 .. Rounds
  BY DEF Local, Phase
<1>2. Rounds \in Nat
  BY Ring
<1>3. started[p] \in Nat /\ done[p] \in Nat
  BY <1>1, <1>2
<1>4. ~ Between(p)
  BY <1>3 DEF Between
<1>5. InRound(p)
  BY <1>4 DEF Local, Phase
<1>6. kernel[p] = "done" /\ started[p] = done[p] + 1
  BY <1>5 DEF InRound
<1>7. ASSUME NEW i \in Ops(p), Pattern[p][i] = "send"
      PROVE  buffer[p][i] = <<p, i, started[p]>> /\ <<p, i, started[p]>> \in Data
  <2>1. i \in Range(Sends(p)) /\ i \in Nat
    BY <1>7, SendFacts, Ring
  <2>2. buffer[p][i] = <<p, i, done[p] + 1>>
    BY <1>6, <2>1 DEF Local, Filled
  <2>3. <<p, i, started[p]>> \in Data
    BY <1>1, <2>1 DEF Data
  <2>4. QED
    BY <1>6, <2>2, <2>3
<1>8. QED
  BY <1>1, <1>3, <1>5, <1>6, <1>7

LEMMA EntryFacts ==
  ASSUME NEW p \in Ranks, Local(p), NEW at, Numbers(p, at), NEW k \in 1 .. Len(net[p])
  PROVE  /\ k \in DOMAIN net[p] /\ at[k][1] \in 1 .. started[p]
         /\ at[k][2] \in 1 .. Len(Sends(p)) /\ at[k] = <<at[k][1], at[k][2]>>
         /\ net[p][k] = <<Sends(p)[at[k][2]], net[p][k][2]>>
         /\ Sends(p)[at[k][2]] \in Ops(p) /\ Pattern[p][Sends(p)[at[k][2]]] = "send"
         /\ \/ net[p][k][2] = <<p, net[p][k][1], at[k][1]>> /\ net[p][k][2] # Unread
            \/ /\ net[p][k][2] = Unread /\ at[k][1] = started[p] /\ started[p] > done[p]
               /\ state[p][net[p][k][1]] = "active"
<1>1. Len(net[p]) \in Nat /\ k \in 1 .. Len(net[p]) + 1 /\ k \in DOMAIN net[p]
      /\ net[p][k] \in Ops(p) \X (Data \union {Unread})
  BY DEF Local, Shape
<1>2. at[k] \in Nat \X (1 .. Len(Sends(p))) /\ Entry(p, net[p][k], at[k])
  BY <1>1 DEF Numbers, Numbered
<1>3. at[k][2] \in 1 .. Len(Sends(p)) /\ at[k] = <<at[k][1], at[k][2]>>
  BY <1>2
<1>4. Sends(p)[at[k][2]] \in Ops(p) /\ Pattern[p][Sends(p)[at[k][2]]] = "send"
  BY <1>3, SendFacts
<1>5. net[p][k] = <<Sends(p)[at[k][2]], net[p][k][2]>>
  BY <1>1, <1>2 DEF Entry
<1>6. \A i, a : <<p, i, a>> # Unread
  BY DEF Unread
<1>7. QED
  BY <1>1, <1>2, <1>3, <1>4, <1>5, <1>6 DEF Entry

(* Two messages that MPI has not read are of different operations.         *)
LEMMA Apart ==
  ASSUME NEW p \in Ranks, Local(p), NEW at, Numbers(p, at),
         NEW k \in 1 .. Len(net[p]), NEW l \in 1 .. Len(net[p]),
         net[p][k][2] = Unread, net[p][l][2] = Unread, net[p][k][1] = net[p][l][1]
  PROVE  k = l
<1>1. /\ at[k] = <<at[k][1], at[k][2]>> /\ at[l] = <<at[l][1], at[l][2]>>
      /\ at[k][1] = at[l][1] /\ at[k][2] \in DOMAIN Sends(p) /\ at[l][2] \in DOMAIN Sends(p)
      /\ Sends(p)[at[k][2]] = Sends(p)[at[l][2]]
  BY EntryFacts, SendFacts
<1>2. at[k] = at[l]
  BY <1>1, SendFacts
<1>3. QED
  BY <1>2 DEF Numbers, Numbered

(* A step that takes or reads messages of p, and may complete some of its  *)
(* sends.                                                                  *)
LEMMA SendLocal ==
  ASSUME IInv, NEW p \in Ranks, NEW over,
         UNCHANGED <<alive, requests, statuses, home, kernel, started, done>>,
         posted'[p] = posted[p], buffer'[p] = buffer[p],
         net'[p] \in Seq(Ops(p) \X (Data \union {Unread})),
         state'[p] = [i \in DOMAIN state[p] |-> IF i \in over THEN "complete" ELSE state[p][i]],
         \A i \in over : i \in Ops(p) /\ Pattern[p][i] = "send" /\ state[p][i] = "active"
  PROVE  Local(p)'
<1>1. Local(p) /\ Spare \notin Ops(p) /\ Ops(p) = 1 .. Len(Pattern[p]) /\ Len(Pattern[p]) \in Nat
  BY Ring DEF IInv
<1>2. /\ state'[p] \in [Ops(p) \union {Spare} -> States]
      /\ \A i \in Ops(p) : state'[p][i] = IF i \in over THEN "complete" ELSE state[p][i]
      /\ state'[p][Spare] = state[p][Spare]
  BY <1>1 DEF Local, Shape, States
<1>3. Shape(p)'
  BY <1>1, <1>2 DEF Local, Shape
<1>4. Got(p)' = Got(p) /\ Registered(p)' = Registered(p) /\ Held(p)' = Held(p)
  BY DEF Got, Registered, Held
<1>5. Phase(p)'
  <2>1. CASE InRound(p)
    <3>1. \A i \in Ops(p) : state'[p][i] \in {"active", "complete"}
      BY <1>2, <2>1 DEF InRound
    <3>2. ASSUME NEW j \in DOMAIN Recvs(p), j > Got(p) PROVE state'[p][Recvs(p)[j]] = "active"
      <4>1. Recvs(p)[j] \in Ops(p) /\ Recvs(p)[j] \notin over
        BY RecvFacts
      <4>2. QED
        BY <1>2, <2>1, <3>2, <4>1 DEF InRound
    <3>3. InRound(p)'
      BY <1>4, <2>1, <3>1, <3>2 DEF InRound
    <3>4. QED
      BY <1>1, <3>3 DEF Local, Phase
  <2>2. CASE Between(p)
    <3>1. \A i \in Ops(p) : state'[p][i] = state[p][i]
      BY <1>2, <2>2 DEF Between
    <3>2. Between(p)'
      BY <2>2, <3>1 DEF Between
    <3>3. QED
      BY <1>1, <3>2 DEF Local, Phase
  <2>3. QED
    BY <1>1, <2>1, <2>2 DEF Local, Phase
<1>6. Owned(p)'
  <2>1. Owned(p)
    BY <1>1 DEF Local
  <2>2. \A i \in 1 .. Registered(p) : Held(p)[i] = i /\ state'[p][i] \notin {"none", "freed"}
    <3>1. Registered(p) \in Nat /\ Registered(p) <= Len(Pattern[p])
      BY <2>1, Mine DEF Owned
    <3>2. \A i \in 1 .. Registered(p) : i \in Ops(p)
      BY <1>1, <3>1
    <3>3. QED
      BY <1>2, <2>1, <3>2 DEF Owned
  <2>3. home[p] \in alive[p] => \A i \in Ops(p) : i > Registered(p) => state'[p][i] = "none"
    BY <1>2, <2>1 DEF Owned
  <2>4. home[p] \notin alive[p] => \A i \in Ops(p) : state'[p][i] \in {"none", "freed"}
    BY <1>2, <2>1 DEF Owned
  <2>5. QED
    BY <1>4, <2>1, <2>2, <2>3, <2>4 DEF Owned
<1>7. OwnedSpare(p)'
  BY <1>1, <1>2 DEF Local, OwnedSpare, Spared
<1>8. Filled(p)' /\ Holds(p)' /\ Posted(p)'
  BY <1>1, <1>4 DEF Local, Filled, Holds, Posted
<1>9. QED
  BY <1>3, <1>5, <1>6, <1>7, <1>8 DEF Local

LEMMA CopyInv == ASSUME IInv, NEW p \in Ranks, Copy(p) PROVE IInv'
<1>1. PICK k \in DOMAIN net[p] :
        /\ net[p][k][2] = Unread
        /\ net' = [net EXCEPT ![p] =
                     [net[p] EXCEPT ![k] = [net[p][k] EXCEPT ![2] = buffer[p][net[p][k][1]]]]]
        /\ state' = [state EXCEPT ![p] = [state[p] EXCEPT ![net[p][k][1]] = "complete"]]
        /\ UNCHANGED <<alive, requests, statuses, home, posted, buffer, kernel, started, done>>
  BY DEF Copy, object
<1>2. Domains /\ Local(p) /\ Chain(p) /\ Shape(p)
  BY DEF IInv, Local
<1>3. Len(net[p]) \in Nat /\ DOMAIN net[p] = 1 .. Len(net[p]) /\ net[p] # <<>>
  BY <1>1, <1>2 DEF Shape
<1>4. PICK at : Numbers(p, at)
  BY <1>2, <1>3 DEF Chain
<1>5. PICK i, d : i = net[p][k][1] /\ d = <<p, i, started[p]>>
  OBVIOUS
<1>6. /\ net[p][k] = <<i, Unread>> /\ i \in Ops(p) /\ Pattern[p][i] = "send"
      /\ i = Sends(p)[at[k][2]] /\ at[k][1] = started[p] /\ started[p] > done[p]
      /\ state[p][i] = "active"
  BY <1>1, <1>2, <1>3, <1>4, <1>5, EntryFacts
<1>7. /\ InRound(p) /\ buffer[p][i] = d /\ d \in Data
  BY <1>2, <1>5, <1>6, Rounded
<1>8. net' = [net EXCEPT ![p] = [net[p] EXCEPT ![k] = <<i, d>>]]
  <2>1. PICK e : e = [net[p][k] EXCEPT ![2] = buffer[p][net[p][k][1]]]
    OBVIOUS
  <2>2. e = [net[p][k] EXCEPT ![2] = d]
    BY <1>5, <1>7, <2>1
  <2>3. e = <<i, d>>
    BY <1>6, <2>2
  <2>4. net' = [net EXCEPT ![p] = [net[p] EXCEPT ![k] = e]]
    BY <1>1, <2>1
  <2>5. QED
    BY <2>3, <2>4
<1>9. state' = [state EXCEPT ![p] = [state[p] EXCEPT ![i] = "complete"]]
  BY <1>1, <1>5
<1>10. \A q \in Ranks : q # p => Same(q)
  BY <1>1, <1>8, <1>9 DEF Same
<1>11. net'[p] = [net[p] EXCEPT ![k] = <<i, d>>] /\ state'[p] = [state[p] EXCEPT ![i] = "complete"]
  BY <1>2, <1>8, <1>9 DEF Domains
<1>12. /\ net'[p] \in Seq(Ops(p) \X (Data \union {Unread})) /\ Len(net'[p]) = Len(net[p])
       /\ \A l \in DOMAIN net[p] : net'[p][l] = IF l = k THEN <<i, d>> ELSE net[p][l]
  <2>1. PICK S : S = Ops(p) \X (Data \union {Unread})
    OBVIOUS
  <2>2. net[p] \in Seq(S) /\ <<i, d>> \in S
    BY <1>2, <1>6, <1>7, <2>1 DEF Shape
  <2>3. PICK s, e : s = net[p] /\ e = <<i, d>>
    OBVIOUS
  <2>4. s \in Seq(S) /\ e \in S /\ k \in 1 .. Len(s)
    BY <1>3, <2>2, <2>3
  <2>5. [s EXCEPT ![k] = e] \in Seq(S) /\ Len([s EXCEPT ![k] = e]) = Len(s)
    BY <2>4, ExceptSeq
  <2>6. net'[p] = [s EXCEPT ![k] = e]
    BY <1>11, <2>3
  <2>7. QED
    BY <1>1, <2>1, <2>3, <2>5, <2>6
<1>13. Domains'
  BY <1>1, <1>2, <1>8, <1>9 DEF Domains
<1>14. Local(p)'
  <2>1. state'[p] = [o \in DOMAIN state[p] |-> IF o \in {i} THEN "complete" ELSE state[p][o]]
    BY <1>2, <1>6, <1>11 DEF Shape
  <2>2. \A o \in {i} : o \in Ops(p) /\ Pattern[p][o] = "send" /\ state[p][o] = "active"
    BY <1>6
  <2>3. QED
    BY <1>1, <1>12, <2>1, <2>2, SendLocal
<1>15. \A r : Expected(r)' = Expected(r)
  BY <1>1 DEF Expected, Got
<1>16. ASSUME NEW l \in 1 .. Len(net[p]) PROVE Entry(p, net[p][l], at[l])'
  <2>1. Entry(p, net[p][l], at[l])
    BY <1>4 DEF Numbers
  <2>2. CASE l = k
    <3>1. net'[p][l] = <<i, d>> /\ i = Sends(p)[at[l][2]] /\ d = <<p, i, at[l][1]>>
      BY <1>3, <1>5, <1>6, <1>12, <2>2
    <3>2. at[l][1] \in 1 .. started'[p]
      BY <1>1, <2>1 DEF Entry
    <3>3. QED
      BY <3>1, <3>2 DEF Entry
  <2>3. CASE l # k
    <3>1. net'[p][l] = net[p][l]
      BY <1>3, <1>12, <2>3
    <3>2. net[p][l][2] = Unread => net[p][l][1] # i
      BY <1>1, <1>2, <1>3, <1>4, <1>5, <2>3, Apart
    <3>3. ASSUME net[p][l][2] = Unread, state[p][net[p][l][1]] = "active"
          PROVE  state'[p][net[p][l][1]] = "active"
      BY <1>11, <3>2, <3>3
    <3>4. started'[p] = started[p] /\ done'[p] = done[p]
      BY <1>1
    <3>5. QED
      BY <2>1, <3>1, <3>3, <3>4 DEF Entry
  <2>4. QED
    BY <2>2, <2>3
<1>17. Numbers(p, at)'
  BY <1>1, <1>4, <1>12, <1>15, <1>16 DEF Numbers
<1>18. Chain(p)'
  <2>1. Sends(p) # <<>>
    BY <1>2, <1>3 DEF Chain
  <2>2. QED
    BY <1>17, <2>1 DEF Chain
<1>19. ASSUME NEW q \in Ranks, q # p PROVE Chain(q)'
  <2>1. Same(q) /\ Chain(q) /\ Shape(q)
    BY <1>10, <1>19 DEF IInv, Local
  <2>2. QED
    BY <1>15, <2>1, ChainFrame DEF Same
<1>20. \A q \in Ranks : q # p => Local(q)'
  BY <1>10, OtherLocals
<1>21. QED
  BY <1>13, <1>14, <1>18, <1>19, <1>20 DEF IInv

LEMMA Drop ==
  ASSUME NEW N \in Nat, NEW n \in Nat, n > 0, NEW at, Numbered(N, n, at),
         NEW to, to = [k \in 1 .. n |-> at[k + 1]]
  PROVE  Numbered(N, n - 1, to)
<1>1. n - 1 + 1 = n /\ \A k \in 1 .. n : k + 1 \in 1 .. n + 1
  OBVIOUS
<1>2. to \in [1 .. n - 1 + 1 -> Nat \X (1 .. N)]
  BY <1>1 DEF Numbered
<1>3. ASSUME NEW k \in 1 .. n - 1
      PROVE  k \in 1 .. n /\ k + 1 \in 1 .. n /\ to[k] = at[k + 1] /\ to[k + 1] = at[k + 1 + 1]
  OBVIOUS
<1>4. \A k \in 1 .. n - 1 : to[k + 1] = Step(N, to[k])
  BY <1>3 DEF Numbered
<1>5. ASSUME NEW k \in 1 .. n - 1, NEW l \in 1 .. n - 1, to[k] = to[l] PROVE k = l
  <2>1. k + 1 = l + 1
    BY <1>3, <1>5 DEF Numbered
  <2>2. QED
    BY <2>1
<1>6. QED
  BY <1>2, <1>4, <1>5 DEF Numbered

(* The next receive of q, and the one that is posted first.                *)
LEMMA NextReceive ==
  ASSUME NEW q \in Ranks, Local(q), posted[q] # <<>>
  PROVE  /\ InRound(q) /\ started[q] > done[q] /\ Got(q) \in Nat /\ Got(q) + 1 \in DOMAIN Recvs(q)
         /\ Head(posted[q]) = Recvs(q)[Got(q) + 1] /\ Expected(q) = <<started[q], Got(q) + 1>>
         /\ Tail(posted[q]) \in Seq(Ops(q)) /\ Len(Tail(posted[q])) = Len(posted[q]) - 1
         /\ Len(posted[q]) \in Nat /\ Len(posted[q]) > 0
         /\ \A k \in 1 .. Len(posted[q]) - 1 : Tail(posted[q])[k] = Recvs(q)[Got(q) + 1 + k]
<1>1. InRound(q) /\ started[q] > done[q]
  <2>1. ~ Between(q)
    BY DEF Between
  <2>2. InRound(q) /\ done[q] \in 0 .. Rounds
    BY <2>1 DEF Local, Phase
  <2>3. QED
    BY <2>2 DEF InRound
<1>2. PICK s : s = posted[q]
  OBVIOUS
<1>3. s \in Seq(Ops(q)) /\ s # <<>> /\ \A k \in DOMAIN s : s[k] = Recvs(q)[Got(q) + k]
  BY <1>2 DEF Local, Posted
<1>4. PICK R \in Nat, m \in Nat, g \in Nat :
        R = Len(Recvs(q)) /\ m = Len(s) /\ g = Got(q) /\ g = R - m /\ m > 0
  <2>1. Len(s) \in Nat /\ Len(s) > 0 /\ Len(Recvs(q)) \in Nat
    BY <1>3, RecvFacts
  <2>2. Len(s) <= Len(Recvs(q))
    BY <1>2 DEF Local, Posted
  <2>3. Got(q) = Len(Recvs(q)) - Len(s)
    BY <1>2 DEF Got
  <2>4. QED
    BY <2>1, <2>2, <2>3
<1>5. g + 1 \in 1 .. R /\ 1 \in 1 .. m /\ \A k \in 1 .. m - 1 : k + 1 \in 1 .. m /\ g + (k + 1) = g + 1 + k
  BY <1>4
<1>6. DOMAIN s = 1 .. m /\ Head(s) = s[1] /\ Tail(s) \in Seq(Ops(q)) /\ Len(Tail(s)) = m - 1
      /\ \A k \in 1 .. m - 1 : Tail(s)[k] = s[k + 1]
  BY <1>3, <1>4
<1>7. ASSUME NEW k \in 1 .. m - 1 PROVE Tail(s)[k] = Recvs(q)[g + 1 + k]
  <2>1. k + 1 \in DOMAIN s /\ g + (k + 1) = g + 1 + k
    BY <1>5, <1>6
  <2>2. s[k + 1] = Recvs(q)[g + (k + 1)]
    BY <1>3, <1>4, <2>1
  <2>3. QED
    BY <1>6, <2>1, <2>2
<1>8. DOMAIN Recvs(q) = 1 .. R
  BY <1>4, RecvFacts
<1>9. QED
  BY <1>1, <1>2, <1>3, <1>4, <1>5, <1>6, <1>7, <1>8 DEF Expected

(* A step in which q receives its next message, and may also complete some *)
(* of its sends.                                                           *)
Receives(q, over, j, data) ==
  /\ posted[q] # <<>> /\ j = Recvs(q)[Got(q) + 1] /\ j \in over
  /\ data \in Data /\ data = <<Src[q], Sends(Src[q])[Got(q) + 1], started[q]>>
  /\ UNCHANGED <<alive, requests, statuses, home, kernel, started, done>>
  /\ posted'[q] = Tail(posted[q])
  /\ buffer'[q] = [buffer[q] EXCEPT ![j] = data]
  /\ net'[q] \in Seq(Ops(q) \X (Data \union {Unread}))
  /\ state'[q] = [i \in DOMAIN state[q] |-> IF i \in over THEN "complete" ELSE state[q][i]]
  /\ \A i \in over : i # j => i \in Ops(q) /\ Pattern[q][i] = "send"

LEMMA ReceiveLocal ==
  ASSUME IInv, NEW q \in Ranks, NEW over, NEW j, NEW data, Receives(q, over, j, data)
  PROVE  Local(q)'
<1>0. /\ posted[q] # <<>> /\ j = Recvs(q)[Got(q) + 1] /\ j \in over
      /\ data \in Data /\ data = <<Src[q], Sends(Src[q])[Got(q) + 1], started[q]>>
      /\ UNCHANGED <<alive, requests, statuses, home, kernel, started, done>>
      /\ posted'[q] = Tail(posted[q])
      /\ buffer'[q] = [buffer[q] EXCEPT ![j] = data]
      /\ net'[q] \in Seq(Ops(q) \X (Data \union {Unread}))
      /\ state'[q] = [i \in DOMAIN state[q] |-> IF i \in over THEN "complete" ELSE state[q][i]]
      /\ \A i \in over : i # j => i \in Ops(q) /\ Pattern[q][i] = "send"
  BY DEF Receives
<1> USE <1>0
<1>1. Local(q) /\ Spare \notin Ops(q) /\ Ops(q) = 1 .. Len(Pattern[q]) /\ Len(Pattern[q]) \in Nat
  BY Ring DEF IInv
<1>2. PICK g \in Nat : g = Got(q)
  BY <1>1, NextReceive
<1>3. /\ InRound(q) /\ started[q] > done[q] /\ g + 1 \in DOMAIN Recvs(q)
      /\ Tail(posted[q]) \in Seq(Ops(q)) /\ Len(Tail(posted[q])) = Len(posted[q]) - 1
      /\ Len(posted[q]) \in Nat /\ Len(posted[q]) > 0
      /\ \A k \in 1 .. Len(posted[q]) - 1 : Tail(posted[q])[k] = Recvs(q)[g + 1 + k]
  BY <1>1, <1>2, NextReceive
<1>4. j = Recvs(q)[g + 1] /\ j \in Ops(q) /\ Pattern[q][j] = "recv"
      /\ data = <<Src[q], Sends(Src[q])[g + 1], started[q]>>
  BY <1>2, <1>3, RecvFacts
<1>5. /\ state'[q] \in [Ops(q) \union {Spare} -> States]
      /\ \A i \in Ops(q) : state'[q][i] = IF i \in over THEN "complete" ELSE state[q][i]
      /\ state'[q][Spare] = state[q][Spare]
  BY <1>1, <1>4 DEF Local, Shape, States
<1>6. /\ buffer'[q] \in [Ops(q) -> Data \union {Blank}] /\ buffer'[q][j] = data
      /\ \A i \in Ops(q) : i # j => buffer'[q][i] = buffer[q][i]
  BY <1>1, <1>4 DEF Local, Shape
<1>7. Shape(q)'
  BY <1>1, <1>5, <1>6 DEF Local, Shape
<1>8. Got(q)' = g + 1 /\ Registered(q)' = Registered(q) /\ Held(q)' = Held(q)
  <2>1. PICK R \in Nat, m \in Nat : R = Len(Recvs(q)) /\ m = Len(posted[q])
    BY <1>3, RecvFacts
  <2>2. g = R - m /\ Got(q)' = R - (m - 1)
    BY <1>2, <1>3, <2>1 DEF Got
  <2>3. R - (m - 1) = g + 1
    BY <2>2
  <2>4. QED
    BY <2>2, <2>3 DEF Registered, Held
<1>9. ASSUME NEW h \in DOMAIN Recvs(q), h # g + 1
      PROVE  Recvs(q)[h] \in Ops(q) /\ Recvs(q)[h] # j /\ Recvs(q)[h] \notin over
  <2>1. PICK r : r = Recvs(q)[h] /\ r \in Ops(q) /\ Pattern[q][r] = "recv"
    BY <1>9, RecvFacts
  <2>2. r # j
    BY <1>3, <1>4, <1>9, <2>1, RecvFacts
  <2>3. r \notin over
    BY <2>1, <2>2
  <2>4. QED
    BY <2>1, <2>2, <2>3
<1>10. \A h \in DOMAIN Recvs(q) : h \in Nat
  BY RecvFacts
<1>11. Phase(q)'
  <2>1. \A i \in Ops(q) : state'[q][i] \in {"active", "complete"}
    BY <1>3, <1>5 DEF InRound
  <2>2. ASSUME NEW h \in DOMAIN Recvs(q), h > g + 1 PROVE state'[q][Recvs(q)[h]] = "active"
    <3>1. h # g + 1 /\ h > g
      BY <1>10, <2>2
    <3>2. QED
      BY <1>2, <1>3, <1>5, <1>9, <3>1 DEF InRound
  <2>3. InRound(q)'
    BY <1>3, <1>8, <2>1, <2>2 DEF InRound
  <2>4. QED
    BY <1>1, <2>3 DEF Local, Phase
<1>12. Owned(q)'
  <2>1. Owned(q) /\ home[q] \in alive[q] /\ Registered(q) = Len(Pattern[q])
    BY <1>1, <1>3 DEF Local, InRound
  <2>2. \A i \in 1 .. Registered(q) : Held(q)[i] = i /\ state'[q][i] \notin {"none", "freed"}
    BY <1>1, <1>5, <2>1 DEF Owned
  <2>3. \A i \in Ops(q) : ~ (i > Registered(q))
    BY <1>1, <2>1
  <2>4. QED
    BY <1>8, <2>1, <2>2, <2>3 DEF Owned
<1>13. OwnedSpare(q)'
  BY <1>1, <1>5 DEF Local, OwnedSpare, Spared
<1>14. Filled(q)'
  <2>1. \A i \in Range(Sends(q)) : i \in Ops(q) /\ i # j
    BY <1>4, SendFacts DEF Range
  <2>2. QED
    BY <1>1, <1>6, <2>1 DEF Local, Filled
<1>15. Holds(q)'
  <2>1. ASSUME NEW h \in DOMAIN Recvs(q), h <= g + 1, started[q] > 0
        PROVE  buffer'[q][Recvs(q)[h]] = <<Src[q], Sends(Src[q])[h], started[q]>>
    <3>1. CASE h = g + 1
      BY <1>4, <1>6, <3>1
    <3>2. CASE h # g + 1
      <4>1. h <= g
        BY <1>10, <2>1, <3>2
      <4>2. buffer[q][Recvs(q)[h]] = <<Src[q], Sends(Src[q])[h], started[q]>>
        BY <1>1, <1>2, <1>3, <2>1, <4>1 DEF Local, Holds
      <4>3. QED
        BY <1>6, <1>9, <3>2, <4>2
    <3>3. QED
      BY <3>1, <3>2
  <2>2. QED
    BY <1>8, <2>1 DEF Holds
<1>16. Posted(q)'
  <2>1. Len(posted[q]) <= Len(Recvs(q)) /\ Len(Recvs(q)) \in Nat
    BY <1>1, RecvFacts DEF Local, Posted
  <2>2. posted'[q] \in Seq(Ops(q)) /\ Len(posted'[q]) <= Len(Recvs(q))
    BY <1>3, <2>1
  <2>3. DOMAIN posted'[q] = 1 .. Len(posted[q]) - 1
    BY <1>3
  <2>4. \A k \in DOMAIN posted'[q] : posted'[q][k] = Recvs(q)[g + 1 + k]
    BY <1>3, <2>3
  <2>5. QED
    BY <1>8, <2>2, <2>4 DEF Posted
<1>17. QED
  BY <1>7, <1>11, <1>12, <1>13, <1>14, <1>15, <1>16 DEF Local

(* The first message of p is what Dst[p] waits for, with its data.         *)
DeliverFacts(p, q, i, j, data, unread, over) ==
  /\ net[p] # <<>> /\ posted[q] # <<>> /\ net[p] \in Seq(Ops(p) \X (Data \union {Unread}))
  /\ i = Sends(p)[Got(q) + 1] /\ i \in Ops(p) /\ Pattern[p][i] = "send"
  /\ j = Recvs(q)[Got(q) + 1] /\ j \in Ops(q) /\ Pattern[q][j] = "recv"
  /\ i = net[p][1][1] /\ unread = (net[p][1][2] = Unread)
  /\ unread => state[p][i] = "active"
  /\ data = <<p, i, started[q]>> /\ data \in Data
  /\ over = {<<q, j>>} \union IF unread THEN {<<p, i>>} ELSE {}
  /\ net' = [net EXCEPT ![p] = Tail(net[p])]
  /\ posted' = [posted EXCEPT ![q] = Tail(posted[q])]
  /\ buffer' = [buffer EXCEPT ![q] = [buffer[q] EXCEPT ![j] = data]]
  /\ state' = [r \in Ranks |-> [o \in DOMAIN state[r] |->
                 IF <<r, o>> \in over THEN "complete" ELSE state[r][o]]]
  /\ UNCHANGED <<alive, requests, statuses, home, kernel, started, done>>

LEMMA Delivers ==
  ASSUME IInv, NEW p \in Ranks, Deliver(p)
  PROVE  \E i, j, data, unread, over : DeliverFacts(p, Dst[p], i, j, data, unread, over)
<1>1. PICK q, i, j, data, unread, over :
        /\ q = Dst[p] /\ i = Head(net[p])[1] /\ j = Head(posted[q])
        /\ unread = (Head(net[p])[2] = Unread)
        /\ data = IF unread THEN buffer[p][i] ELSE Head(net[p])[2]
        /\ over = {<<q, j>>} \union IF unread THEN {<<p, i>>} ELSE {}
  OBVIOUS
<1>2. /\ net[p] # <<>> /\ posted[q] # <<>>
      /\ net' = [net EXCEPT ![p] = Tail(net[p])]
      /\ posted' = [posted EXCEPT ![q] = Tail(posted[q])]
      /\ buffer' = [buffer EXCEPT ![q] = [buffer[q] EXCEPT ![j] = data]]
      /\ state' = [r \in Ranks |-> [o \in DOMAIN state[r] |->
                     IF <<r, o>> \in over THEN "complete" ELSE state[r][o]]]
      /\ UNCHANGED <<alive, requests, statuses, home, kernel, started, done>>
  BY <1>1, Zenon DEF Deliver, object
<1>3. q \in Ranks /\ Src[q] = p /\ Local(p) /\ Local(q) /\ Chain(p)
  BY <1>1, Ring DEF IInv
<1>4. PICK g \in Nat :
        /\ g = Got(q) /\ started[q] \in 0 .. Rounds /\ j = Recvs(q)[g + 1] /\ g + 1 \in DOMAIN Recvs(q)
        /\ Expected(q) = <<started[q], g + 1>>
  <2>1. started[q] \in 0 .. Rounds
    BY <1>3 DEF Local, Phase
  <2>2. QED
    BY <1>1, <1>2, <1>3, <2>1, NextReceive
<1>5. j \in Ops(q) /\ Pattern[q][j] = "recv"
  BY <1>3, <1>4, RecvFacts
<1>6. net[p] \in Seq(Ops(p) \X (Data \union {Unread})) /\ 1 \in 1 .. Len(net[p]) /\ Head(net[p]) = net[p][1]
  <2>1. PICK S, s : S = Ops(p) \X (Data \union {Unread}) /\ s = net[p]
    OBVIOUS
  <2>2. s \in Seq(S) /\ s # <<>>
    BY <1>2, <1>3, <2>1 DEF Local, Shape
  <2>3. 1 \in 1 .. Len(s) /\ Head(s) = s[1]
    BY <2>2
  <2>4. QED
    BY <2>1, <2>2, <2>3
<1>7. PICK at : Numbers(p, at)
  BY <1>2, <1>3 DEF Chain
<1>8. at[1] = <<started[q], g + 1>>
  BY <1>1, <1>4, <1>7 DEF Numbers
<1>9. /\ i = Sends(p)[g + 1] /\ i \in Ops(p) /\ Pattern[p][i] = "send"
      /\ \/ ~ unread /\ data = <<p, i, started[q]>>
         \/ unread /\ started[q] = started[p] /\ started[p] > done[p] /\ state[p][i] = "active"
  <2>1. at[1][1] = started[q] /\ at[1][2] = g + 1
    BY <1>8
  <2>2. /\ i = Sends(p)[at[1][2]] /\ i \in Ops(p) /\ Pattern[p][i] = "send"
        /\ \/ net[p][1][2] = <<p, i, at[1][1]>> /\ net[p][1][2] # Unread
           \/ /\ net[p][1][2] = Unread /\ at[1][1] = started[p] /\ started[p] > done[p]
              /\ state[p][i] = "active"
    BY <1>1, <1>3, <1>6, <1>7, EntryFacts
  <2>3. QED
    BY <1>1, <1>6, <2>1, <2>2
<1>10. data = <<p, i, started[q]>>
  <2>1. CASE unread
    <3>1. buffer[p][i] = <<p, i, started[p]>>
      BY <1>3, <1>9, <2>1, Rounded
    <3>2. QED
      BY <1>1, <1>9, <2>1, <3>1
  <2>2. QED
    BY <1>9, <2>1
<1>11. data \in Data
  <2>1. i \in Nat
    BY <1>9, Ring
  <2>2. QED
    BY <1>4, <1>10, <2>1 DEF Data
<1>12. DeliverFacts(p, q, i, j, data, unread, over)
  BY <1>1, <1>2, <1>4, <1>5, <1>6, <1>9, <1>10, <1>11 DEF DeliverFacts
<1>13. QED
  BY <1>1, <1>12

(* Which operations of a rank a delivery completes.                        *)
Over(r, i, j, over) == {o \in {i, j} : <<r, o>> \in over}

(* What a delivery of p's send i to q's receive j leaves true.             *)
Delivered(p, q, i, j, unread) ==
  /\ \A r \in Ranks : Local(r)'
  /\ \A r \in Ranks : r # p /\ r # q => Same(r)
  /\ \A o \in Ops(q) : o # j /\ (q = p /\ unread => o # i) => state'[q][o] = state[q][o]
  /\ \A o \in Ops(p) : ~ (unread /\ o = i) /\ (q = p => o # j) => state'[p][o] = state[p][o]

LEMMA DeliverLocals ==
  ASSUME IInv, NEW p \in Ranks, NEW q, q = Dst[p], NEW i, NEW j, NEW data, NEW unread, NEW over,
         DeliverFacts(p, q, i, j, data, unread, over)
  PROVE  Domains' /\ Delivered(p, q, i, j, unread)
<1>1. q \in Ranks /\ Src[q] = p /\ Domains /\ \A r \in Ranks : Local(r) /\ Shape(r)
  BY Ring DEF IInv, Local
<1>2. /\ net[p] # <<>> /\ posted[q] # <<>> /\ net[p] \in Seq(Ops(p) \X (Data \union {Unread}))
      /\ i = Sends(p)[Got(q) + 1] /\ i \in Ops(p) /\ Pattern[p][i] = "send"
      /\ j = Recvs(q)[Got(q) + 1] /\ j \in Ops(q) /\ Pattern[q][j] = "recv"
      /\ unread => state[p][i] = "active"
      /\ data = <<p, i, started[q]>> /\ data \in Data
      /\ over = {<<q, j>>} \union IF unread THEN {<<p, i>>} ELSE {}
  BY DEF DeliverFacts
<1>3. /\ net' = [net EXCEPT ![p] = Tail(net[p])]
      /\ posted' = [posted EXCEPT ![q] = Tail(posted[q])]
      /\ buffer' = [buffer EXCEPT ![q] = [buffer[q] EXCEPT ![j] = data]]
      /\ UNCHANGED <<alive, requests, statuses, home, kernel, started, done>>
  BY DEF DeliverFacts
<1>4. state' = [r \in Ranks |-> [o \in DOMAIN state[r] |->
                  IF <<r, o>> \in over THEN "complete" ELSE state[r][o]]]
  BY DEF DeliverFacts
<1>5. Domains'
  BY <1>1, <1>3, <1>4 DEF Domains
<1>6. \A r, o : <<r, o>> \in over <=> o \in Over(r, i, j, over)
  BY <1>2 DEF Over
<1>7. \A r \in Ranks : state'[r] = [o \in DOMAIN state[r] |->
                                     IF o \in Over(r, i, j, over) THEN "complete" ELSE state[r][o]]
  BY <1>4, <1>6
<1>8. \A r \in Ranks : net'[r] = IF r = p THEN Tail(net[p]) ELSE net[r]
  BY <1>1, <1>3 DEF Domains
<1>9. Tail(net[p]) \in Seq(Ops(p) \X (Data \union {Unread}))
  <2>1. PICK S, s : S = Ops(p) \X (Data \union {Unread}) /\ s = net[p]
    OBVIOUS
  <2>2. s \in Seq(S) /\ s # <<>>
    BY <1>2, <2>1
  <2>3. Tail(s) \in Seq(S)
    BY <2>2
  <2>4. QED
    BY <2>1, <2>3
<1>10. \A r \in Ranks : net'[r] \in Seq(Ops(r) \X (Data \union {Unread}))
  BY <1>1, <1>8, <1>9 DEF Shape
<1>11. Local(q)'
  <2>1. PICK O : O = Over(q, i, j, over)
    OBVIOUS
  <2>2. j \in O
    BY <1>2, <2>1 DEF Over
  <2>3. \A o \in O : o # j => o \in Ops(q) /\ Pattern[q][o] = "send"
    BY <1>2, <2>1 DEF Over
  <2>4. state'[q] = [o \in DOMAIN state[q] |-> IF o \in O THEN "complete" ELSE state[q][o]]
    BY <1>1, <1>7, <2>1
  <2>5. posted'[q] = Tail(posted[q]) /\ buffer'[q] = [buffer[q] EXCEPT ![j] = data]
    BY <1>1, <1>3 DEF Domains
  <2>6. data = <<Src[q], Sends(Src[q])[Got(q) + 1], started[q]>>
    BY <1>1, <1>2
  <2>7. net'[q] \in Seq(Ops(q) \X (Data \union {Unread})) /\ q \in Ranks
    BY <1>1, <1>10
  <2>8. posted[q] # <<>> /\ j = Recvs(q)[Got(q) + 1] /\ data \in Data
        /\ UNCHANGED <<alive, requests, statuses, home, kernel, started, done>>
    BY <1>2, <1>3
  <2>9. Receives(q, O, j, data)
    BY <2>2, <2>3, <2>4, <2>5, <2>6, <2>7, <2>8 DEF Receives
  <2>10. QED
    BY <2>7, <2>9, ReceiveLocal
<1>12. ASSUME p # q PROVE Local(p)'
  <2>1. PICK O : O = Over(p, i, j, over)
    OBVIOUS
  <2>2. \A o \in O : o \in Ops(p) /\ Pattern[p][o] = "send" /\ state[p][o] = "active"
    BY <1>2, <1>12, <2>1 DEF Over
  <2>3. state'[p] = [o \in DOMAIN state[p] |-> IF o \in O THEN "complete" ELSE state[p][o]]
    BY <1>7, <2>1
  <2>4. posted'[p] = posted[p] /\ buffer'[p] = buffer[p]
    BY <1>1, <1>3, <1>12 DEF Domains
  <2>5. QED
    BY <1>1, <1>3, <1>10, <2>2, <2>3, <2>4, SendLocal
<1>13. ASSUME NEW r \in Ranks, r # p, r # q PROVE Same(r)
  <2>1. \A o : o \notin Over(r, i, j, over)
    BY <1>2, <1>13 DEF Over
  <2>2. state'[r] = [o \in DOMAIN state[r] |-> state[r][o]]
    BY <1>7, <2>1
  <2>3. state'[r] = state[r]
    BY <1>1, <2>2 DEF Shape
  <2>4. QED
    BY <1>3, <1>13, <2>3 DEF Same
<1>14. \A r \in Ranks : Local(r)'
  BY <1>1, <1>11, <1>12, <1>13, LocalFrame
<1>15. ASSUME NEW o \in Ops(q), o # j, q = p /\ unread => o # i PROVE state'[q][o] = state[q][o]
  <2>1. o \notin Over(q, i, j, over)
    BY <1>2, <1>15 DEF Over
  <2>2. o \in DOMAIN state[q]
    BY <1>1, <1>15 DEF Shape
  <2>3. PICK O : O = Over(q, i, j, over)
    OBVIOUS
  <2>4. state'[q] = [e \in DOMAIN state[q] |-> IF e \in O THEN "complete" ELSE state[q][e]]
    BY <1>1, <1>7, <2>3
  <2>5. QED
    BY <2>1, <2>2, <2>3, <2>4
<1>16. ASSUME NEW o \in Ops(p), ~ (unread /\ o = i), q = p => o # j PROVE state'[p][o] = state[p][o]
  <2>1. o \notin Over(p, i, j, over)
    BY <1>2, <1>16 DEF Over
  <2>2. o \in DOMAIN state[p]
    BY <1>1, <1>16 DEF Shape
  <2>3. QED
    BY <1>7, <2>1, <2>2
<1>17. QED
  BY <1>5, <1>13, <1>14, <1>15, <1>16 DEF Delivered

LEMMA DeliverChain ==
  ASSUME IInv, NEW p \in Ranks, NEW q, q = Dst[p], NEW i, NEW j, NEW data, NEW unread, NEW over,
         DeliverFacts(p, q, i, j, data, unread, over)
  PROVE  Chain(p)'
<1>1. q \in Ranks /\ Src[q] = p /\ Domains /\ Local(p) /\ Local(q) /\ Chain(p)
      /\ Len(Recvs(q)) = Len(Sends(p))
  BY Ring DEF IInv
<1>2. /\ net[p] # <<>> /\ posted[q] # <<>> /\ net[p] \in Seq(Ops(p) \X (Data \union {Unread}))
      /\ i = net[p][1][1] /\ unread = (net[p][1][2] = Unread)
      /\ j \in Ops(q) /\ Pattern[q][j] = "recv"
      /\ net' = [net EXCEPT ![p] = Tail(net[p])]
      /\ posted' = [posted EXCEPT ![q] = Tail(posted[q])]
      /\ started' = started /\ done' = done
  BY DEF DeliverFacts
<1>3. PICK at : Numbers(p, at) /\ Sends(p) # <<>>
  BY <1>1, <1>2 DEF Chain
<1>4. PICK S, s : S = Ops(p) \X (Data \union {Unread}) /\ s = net[p]
  OBVIOUS
<1>5. s \in Seq(S) /\ s # <<>> /\ net'[p] = Tail(s)
  BY <1>1, <1>2, <1>4 DEF Domains
<1>6. PICK n \in Nat, N \in Nat : n = Len(s) /\ n > 0 /\ N = Len(Sends(p))
  BY <1>5, SendFacts
<1>7. Len(net'[p]) = n - 1 /\ \A k \in 1 .. n - 1 : net'[p][k] = net[p][k + 1]
  BY <1>4, <1>5, <1>6
<1>8. PICK to : to = [k \in 1 .. n |-> at[k + 1]]
  OBVIOUS
<1>9. /\ Numbered(N, n, at) /\ at[1] = Expected(q) /\ at[n + 1] = <<started[p] + 1, 1>>
      /\ \A k \in 1 .. n : Entry(p, net[p][k], at[k])
  BY <1>3, <1>4, <1>6 DEF Numbers
<1>10. Numbered(N, n - 1, to)
  BY <1>6, <1>8, <1>9, Drop
<1>11. to[1] = Step(N, at[1]) /\ to[n - 1 + 1] = at[n + 1]
  <2>1. 1 \in 1 .. n /\ n \in 1 .. n /\ n - 1 + 1 = n
    BY <1>6
  <2>2. QED
    BY <1>8, <1>9, <2>1 DEF Numbered
<1>12. Expected(q)' = to[1]
  <2>0. PICK c : c = started[q]
    OBVIOUS
  <2>1. PICK g \in Nat, m \in Nat : g = Got(q) /\ m = Len(posted[q]) /\ m > 0
    BY <1>1, <1>2, NextReceive
  <2>2. /\ Expected(q) = <<c, g + 1>> /\ Tail(posted[q]) \in Seq(Ops(q))
        /\ Len(Tail(posted[q])) = m - 1 /\ g = N - m
    BY <1>1, <1>2, <1>6, <2>0, <2>1, NextReceive DEF Got
  <2>3. posted'[q] = Tail(posted[q]) /\ started'[q] = c
    BY <1>1, <1>2, <2>0 DEF Domains
  <2>4. Got(q)' = g + 1
    <3>1. Got(q)' = N - (m - 1)
      BY <1>1, <1>6, <2>2, <2>3 DEF Got
    <3>2. N - (m - 1) = g + 1
      BY <2>2
    <3>3. QED
      BY <3>1, <3>2
  <2>5. CASE m = 1
    <3>1. posted'[q] = <<>>
      <4>1. PICK t : t = posted'[q]
        OBVIOUS
      <4>2. t \in Seq(Ops(q)) /\ Len(t) = 0
        BY <2>2, <2>3, <2>5, <4>1
      <4>3. QED
        BY <4>1, <4>2
    <3>2. Expected(q)' = <<c + 1, 1>>
      BY <2>3, <3>1 DEF Expected
    <3>3. ~ (g + 1 < N)
      BY <2>2, <2>5
    <3>4. QED
      BY <1>9, <1>11, <2>2, <3>2, <3>3 DEF Step
  <2>6. CASE m # 1
    <3>0. g = N - m /\ m > 0
      BY <2>1, <2>2
    <3>1. m - 1 # 0 /\ g + 1 < N
      BY <2>6, <3>0
    <3>2. posted'[q] # <<>>
      <4>1. PICK t : t = posted'[q]
        OBVIOUS
      <4>2. Len(t) = m - 1
        BY <2>2, <2>3, <4>1
      <4>3. t # <<>>
        BY <3>1, <4>2
      <4>4. QED
        BY <4>1, <4>3
    <3>3. Expected(q)' = <<c, g + 1 + 1>>
      BY <2>3, <2>4, <3>2 DEF Expected
    <3>4. QED
      BY <1>9, <1>11, <2>2, <3>1, <3>3 DEF Step
  <2>7. QED
    BY <2>5, <2>6
<1>13. ASSUME NEW k \in 1 .. n - 1 PROVE Entry(p, net[p][k], to[k])'
  <2>1. k + 1 \in 1 .. n /\ k \in 1 .. n /\ k + 1 # 1 /\ 1 \in 1 .. n
    BY <1>6
  <2>2. PICK e, a : e = net[p][k + 1] /\ a = at[k + 1]
    OBVIOUS
  <2>3. net'[p][k] = e /\ to[k] = a /\ Entry(p, e, a)
    BY <1>7, <1>8, <1>9, <2>1, <2>2
  <2>4. /\ e[1] = Sends(p)[a[2]] /\ e[1] \in Ops(p) /\ Pattern[p][e[1]] = "send"
    <3>1. a[2] \in 1 .. Len(Sends(p))
      BY <1>1, <1>3, <1>4, <1>6, <2>1, <2>2, EntryFacts
    <3>2. QED
      BY <2>3, <3>1, SendFacts DEF Entry
  <2>5. ASSUME e[2] = Unread PROVE ~ (unread /\ e[1] = i)
    <3>1. SUFFICES ASSUME unread, e[1] = i PROVE FALSE
      OBVIOUS
    <3>2. net[p][1][2] = Unread /\ net[p][k + 1][2] = Unread /\ net[p][1][1] = net[p][k + 1][1]
      BY <1>2, <2>2, <2>5, <3>1
    <3>3. k + 1 = 1
      BY <1>1, <1>3, <1>4, <1>6, <2>1, <3>2, Apart
    <3>4. QED
      BY <2>1, <3>3
  <2>6. e[2] = Unread => state'[p][e[1]] = state[p][e[1]]
    <3>1. q = p => e[1] # j
      BY <1>2, <2>4
    <3>2. \A o \in Ops(p) : ~ (unread /\ o = i) /\ (q = p => o # j) => state'[p][o] = state[p][o]
      <4>1. Delivered(p, q, i, j, unread)
        BY DeliverLocals
      <4>2. QED
        BY <4>1 DEF Delivered
    <3>3. QED
      BY <2>4, <2>5, <3>1, <3>2
  <2>7. started'[p] = started[p] /\ done'[p] = done[p]
    BY <1>2
  <2>8. QED
    BY <2>3, <2>6, <2>7 DEF Entry
<1>14. Numbers(p, to)'
  <2>1. to[1] = Expected(Dst[p])' /\ to[n - 1 + 1] = <<started'[p] + 1, 1>>
    BY <1>2, <1>9, <1>11, <1>12
  <2>2. QED
    BY <1>6, <1>7, <1>10, <1>13, <2>1 DEF Numbers
<1>15. QED
  BY <1>3, <1>14 DEF Chain

LEMMA DeliverInv == ASSUME IInv, NEW p \in Ranks, Deliver(p) PROVE IInv'
<1>1. PICK q, i, j, data, unread, over :
        q = Dst[p] /\ DeliverFacts(p, q, i, j, data, unread, over)
  BY Delivers
<1>2. /\ Domains' /\ \A r \in Ranks : Local(r)'
      /\ \A r \in Ranks : r # p /\ r # q => Same(r)
      /\ \A o \in Ops(q) : o # j /\ (q = p /\ unread => o # i) => state'[q][o] = state[q][o]
  <2>1. Domains' /\ Delivered(p, q, i, j, unread)
    BY <1>1, DeliverLocals
  <2>2. QED
    BY <2>1 DEF Delivered
<1>3. /\ q \in Ranks /\ Domains /\ j \in Ops(q) /\ Pattern[q][j] = "recv"
      /\ net' = [net EXCEPT ![p] = Tail(net[p])]
      /\ posted' = [posted EXCEPT ![q] = Tail(posted[q])]
      /\ started' = started /\ done' = done
  BY <1>1, Ring DEF DeliverFacts, IInv
<1>4. Chain(p)'
  BY <1>1, DeliverChain
<1>5. ASSUME NEW r \in Ranks, r # p PROVE Chain(r)'
  <2>1. Dst[r] # q
    BY <1>1, <1>5, Ring
  <2>2. Expected(Dst[r])' = Expected(Dst[r])
    BY <1>3, <2>1 DEF Expected, Got
  <2>3. net'[r] = net[r] /\ Shape(r) /\ Chain(r)
    BY <1>3, <1>5 DEF IInv, Local
  <2>4. ASSUME NEW o \in Ops(r), Pattern[r][o] = "send" PROVE state'[r][o] = state[r][o]
    BY <1>2, <1>3, <1>5, <2>4 DEF Same
  <2>5. QED
    BY <1>3, <2>2, <2>3, <2>4, ChainFrame
<1>6. QED
  BY <1>2, <1>4, <1>5 DEF IInv

-----------------------------------------------------------------------------
LEMMA NextInv == ASSUME IInv, [Next]_vars PROVE IInv'
<1>1. CASE UNCHANGED vars
  <2>1. \A p \in Ranks : Same(p)
    BY <1>1 DEF vars, object, library, Same
  <2>2. Domains'
    BY <1>1 DEF vars, object, library, Domains, IInv
  <2>3. \A p \in Ranks : Local(p)'
    BY <2>1, LocalFrame DEF IInv
  <2>4. \A p \in Ranks : Chain(p)'
    BY <1>1, ChainsKept DEF vars, object, library
  <2>5. QED
    BY <2>2, <2>3, <2>4 DEF IInv
<1>2. ASSUME NEW p \in Ranks, Cycle(p) PROVE IInv'
  BY <1>2, RegisterInv, LaunchInv, KernelDoneInv, StartInv, WaitInv DEF Cycle
<1>3. ASSUME NEW p \in Ranks,
             Copy(p) \/ Deliver(p) \/ RegisterSpare(p) \/ MoveConstruct(p) \/ MoveAssign(p) \/ Destroy(p)
      PROVE  IInv'
  BY <1>3, CopyInv, DeliverInv, RegisterSpareInv, MoveConstructInv, MoveAssignInv, DestroyInv
<1>4. QED
  BY <1>1, <1>2, <1>3 DEF Next

(* In every state each rank is where it should be in its round, owns what  *)
(* it registered, and the messages on their way continue its rounds.       *)
THEOREM Invariance == Spec => []IInv
<1>1. Init => IInv
  BY InitInv
<1>2. IInv /\ [Next]_vars => IInv'
  BY NextInv
<1>3. QED
  BY <1>1, <1>2, PTL DEF Spec

-----------------------------------------------------------------------------
(* The types of the state, and statuses_ is as long as requests_.          *)
THEOREM TypeCorrect == Spec => []TypeOK
<1>1. ASSUME IInv PROVE TypeOK
  <2>1. ASSUME NEW p \in Ranks
        PROVE  /\ alive[p] \subseteq Objects /\ home[p] \in Objects
               /\ \A c \in Objects : requests[p][c] \in Seq(Ops(p) \union {Spare})
               /\ \A c \in Objects : statuses[p][c] = Len(requests[p][c])
               /\ state[p] \in [Ops(p) \union {Spare} ->
                                  {"none", "inactive", "active", "complete", "freed"}]
               /\ net[p] \in Seq(Ops(p) \X (Data \union {Unread, Blank}))
               /\ posted[p] \in Seq(Ops(p))
               /\ buffer[p] \in [Ops(p) -> Data \union {Blank}]
    <3>1. Shape(p) /\ Posted(p)
      BY <1>1 DEF IInv, Local
    <3>2. net[p] \in Seq(Ops(p) \X (Data \union {Unread, Blank}))
      <4>1. PICK S, T, s : S = Ops(p) \X (Data \union {Unread}) /\ s = net[p]
                           /\ T = Ops(p) \X (Data \union {Unread, Blank})
        OBVIOUS
      <4>2. s \in Seq(S) /\ S \subseteq T
        BY <3>1, <4>1 DEF Shape
      <4>3. s \in Seq(T)
        BY <4>2
      <4>4. QED
        BY <4>1, <4>3
    <3>3. QED
      BY <3>1, <3>2 DEF Shape, Posted, States
  <2>2. /\ kernel \in [Ranks -> {"todo", "running", "done"}]
        /\ started \in [Ranks -> 0 .. Rounds] /\ done \in [Ranks -> 0 .. Rounds]
    BY <1>1 DEF IInv, Domains
  <2>3. QED
    BY <2>1, <2>2 DEF TypeOK
<1>2. QED
  BY <1>1, Invariance, PTL

(* The fence of start and the wait for every request keep MPI and the      *)
(* program apart.                                                          *)
THEOREM Quiet == Spec => []QuietBetweenRounds
<1>1. ASSUME IInv PROVE QuietBetweenRounds
  <2>1. SUFFICES ASSUME NEW p \in Ranks, started[p] = done[p]
                 PROVE  /\ \A i \in Ops(p) : state[p][i] \notin {"active", "complete"}
                        /\ \A k \in DOMAIN net[p] : net[p][k][2] # Unread
                        /\ posted[p] = <<>>
    BY DEF QuietBetweenRounds
  <2>2. Local(p) /\ Chain(p)
    BY <1>1 DEF IInv
  <2>3. ~ (started[p] > done[p]) /\ ~ InRound(p)
    <3>1. done[p] \in 0 .. Rounds
      BY <2>2 DEF Local, Phase
    <3>2. QED
      BY <2>1, <3>1 DEF InRound
  <2>4. Between(p)
    BY <2>2, <2>3 DEF Local, Phase
  <2>5. ASSUME NEW k \in DOMAIN net[p] PROVE net[p][k][2] # Unread
    <3>1. k \in 1 .. Len(net[p]) /\ net[p] # <<>>
      BY <2>2, <2>5 DEF Local, Shape
    <3>2. PICK at : Numbers(p, at)
      BY <2>2, <3>1 DEF Chain
    <3>3. QED
      BY <2>2, <2>3, <3>1, <3>2, EntryFacts
  <2>6. QED
    BY <2>4, <2>5 DEF Between
<1>2. QED
  BY <1>1, Invariance, PTL

-----------------------------------------------------------------------------
LEMMA OwnerFacts ==
  ASSUME NEW p, NEW i
  PROVE  \A e : e \in Owners(p, i) <=>
           \E c \in alive[p] : \E k \in DOMAIN requests[p][c] : requests[p][c][k] = i /\ e = <<c, k>>
  BY DEF Owners

(* Moves, registrations and the destructor keep one owner of each request. *)
THEOREM OwnersUnique == Spec => []OneOwner
<1>1. ASSUME IInv, NEW p \in Ranks, NEW i \in Ops(p)
      PROVE  Cardinality(Owners(p, i)) = IF state[p][i] \in {"none", "freed"} THEN 0 ELSE 1
  <2>1. /\ Shape(p) /\ Owned(p) /\ OwnedSpare(p) /\ Registered(p) \in Nat
        /\ DOMAIN Held(p) = 1 .. Registered(p) /\ i # Spare /\ Ops(p) = 1 .. Len(Pattern[p])
        /\ Len(Pattern[p]) \in Nat
    BY <1>1, Mine, Ring
  <2>2. ASSUME NEW c \in alive[p], NEW k \in DOMAIN requests[p][c], requests[p][c][k] = i
        PROVE  c = home[p] /\ k = i /\ i <= Registered(p)
    <3>1. c \in Objects
      BY <2>1 DEF Shape
    <3>2. c = home[p]
      <4>1. requests[p][c] # <<>> /\ requests[p][c] # <<Spare>>
        BY <2>1, <2>2
      <4>2. QED
        BY <2>1, <3>1, <4>1 DEF OwnedSpare
    <3>3. k \in 1 .. Registered(p) /\ Held(p)[k] = i
      BY <2>1, <2>2, <3>2 DEF Held
    <3>4. QED
      BY <2>1, <3>2, <3>3 DEF Owned
  <2>3. CASE home[p] \in alive[p] /\ i <= Registered(p)
    <3>1. i \in 1 .. Registered(p)
      BY <2>1, <2>3
    <3>2. i \in DOMAIN requests[p][home[p]] /\ requests[p][home[p]][i] = i
          /\ state[p][i] \notin {"none", "freed"}
      BY <2>1, <3>1 DEF Owned, Held
    <3>3. \A e : e \in Owners(p, i) <=> e = <<home[p], i>>
      BY <2>2, <2>3, <3>2, OwnerFacts
    <3>4. Owners(p, i) = {<<home[p], i>>}
      BY <3>3
    <3>5. QED
      BY <3>2, <3>4, FS_Singleton
  <2>4. CASE ~ (home[p] \in alive[p] /\ i <= Registered(p))
    <3>1. state[p][i] \in {"none", "freed"}
      <4>1. CASE home[p] \notin alive[p]
        BY <2>1, <4>1 DEF Owned
      <4>2. CASE home[p] \in alive[p]
        <5>1. i > Registered(p)
          BY <2>1, <2>4, <4>2
        <5>2. QED
          BY <2>1, <4>2, <5>1 DEF Owned
      <4>3. QED
        BY <4>1, <4>2
    <3>2. \A e : e \notin Owners(p, i)
      BY <2>2, <2>4, OwnerFacts
    <3>3. Owners(p, i) = {}
      BY <3>2
    <3>4. QED
      BY <3>1, <3>3, FS_EmptySet
  <2>5. QED
    BY <2>3, <2>4
<1>2. ASSUME IInv, NEW p \in Ranks
      PROVE  Cardinality(Owners(p, Spare)) = IF state[p][Spare] \in {"none", "freed"} THEN 0 ELSE 1
  <2>1. /\ Shape(p) /\ Owned(p) /\ OwnedSpare(p) /\ Registered(p) \in Nat
        /\ DOMAIN Held(p) = 1 .. Registered(p)
    BY <1>2, Mine
  <2>2. ASSUME NEW c \in alive[p], NEW k \in DOMAIN requests[p][c], requests[p][c][k] = Spare
        PROVE  Spared(p, c) /\ c \in Objects /\ k = 1
    <3>1. c \in Objects
      BY <2>1 DEF Shape
    <3>2. c # home[p]
      <4>1. SUFFICES ASSUME c = home[p] PROVE FALSE
        OBVIOUS
      <4>2. k \in 1 .. Registered(p) /\ Held(p)[k] = Spare
        BY <2>1, <2>2, <4>1 DEF Held
      <4>3. Held(p)[k] = k
        BY <2>1, <4>2 DEF Owned
      <4>4. QED
        BY <4>2, <4>3 DEF Spare
    <3>3. requests[p][c] = <<Spare>>
      BY <2>1, <2>2, <3>1, <3>2 DEF OwnedSpare
    <3>4. QED
      BY <2>2, <3>1, <3>2, <3>3 DEF Spared
  <2>3. CASE state[p][Spare] = "inactive"
    <3>1. PICK c \in Objects : Spared(p, c)
      BY <2>1, <2>3 DEF OwnedSpare
    <3>2. c \in alive[p] /\ requests[p][c] = <<Spare>>
      BY <2>1, <3>1 DEF OwnedSpare, Spared
    <3>3. 1 \in DOMAIN requests[p][c] /\ requests[p][c][1] = Spare
      BY <3>2
    <3>4. \A d \in Objects : Spared(p, d) => d = c
      BY <2>1, <3>1 DEF OwnedSpare
    <3>5. \A e : e \in Owners(p, Spare) <=> e = <<c, 1>>
      BY <2>2, <3>2, <3>3, <3>4, OwnerFacts
    <3>6. Owners(p, Spare) = {<<c, 1>>}
      BY <3>5
    <3>7. QED
      BY <2>3, <3>6, FS_Singleton
  <2>4. CASE state[p][Spare] # "inactive"
    <3>1. \A c \in Objects : ~ Spared(p, c)
      BY <2>1, <2>4 DEF OwnedSpare
    <3>2. \A e : e \notin Owners(p, Spare)
      BY <2>2, <3>1, OwnerFacts
    <3>3. Owners(p, Spare) = {} /\ state[p][Spare] \in {"none", "freed"}
      BY <2>1, <2>4, <3>2 DEF OwnedSpare
    <3>4. QED
      BY <3>3, FS_EmptySet
  <2>5. QED
    BY <2>3, <2>4
<1>3. IInv => OneOwner
  BY <1>1, <1>2 DEF OneOwner
<1>4. QED
  BY <1>3, Invariance, PTL

-----------------------------------------------------------------------------
(* The channels as an exchange between neighbours.  What a rank keeps      *)
(* changes only when its kernels are done or it is back from wait.         *)
Keeps(r) == Kept(r)' = Kept(r)

LEMMA KeepsSame ==
  ASSUME NEW r \in Ranks, started'[r] = started[r], done'[r] = done[r],
         kernel'[r] = kernel[r], buffer'[r] = buffer[r]
  PROVE  Keeps(r)
  BY DEF Keeps, Kept

LEMMA KeptStep ==
  ASSUME NEW p \in Ranks, NEW v, \A r \in Ranks : r # p => Keeps(r), Kept(p)' = v
  PROVE  [r \in Ranks |-> Kept(r)]' = [[r \in Ranks |-> Kept(r)] EXCEPT ![p] = v]
  BY DEF Keeps

LEMMA Stutter ==
  ASSUME started' = started, done' = done, \A r \in Ranks : Keeps(r)
  PROVE  UNCHANGED Exchange!vars
<1>1. [r \in Ranks |-> Kept(r)]' = [r \in Ranks |-> Kept(r)]
  BY DEF Keeps
<1>2. QED
  BY <1>1 DEF Exchange!vars

LEMMA KernelDoneReuses ==
  ASSUME IInv, NEW p \in Ranks, KernelDone(p) PROVE Exchange!Reuse(p)
<1>1. /\ kernel[p] = "running" /\ kernel' = [kernel EXCEPT ![p] = "done"]
      /\ \A r \in Ranks : r # p => buffer'[r] = buffer[r]
      /\ started' = started /\ done' = done
  BY DEF KernelDone
<1>2. started[p] = done[p] /\ kernel'[p] = "done"
  BY <1>1 DEF IInv, Domains, Local, Phase
<1>3. \A r \in Ranks : r # p => Keeps(r)
  BY <1>1, KeepsSame
<1>4. Kept(p)' = <<>>
  BY <1>2 DEF Kept
<1>5. [r \in Ranks |-> Kept(r)]' = [[r \in Ranks |-> Kept(r)] EXCEPT ![p] = <<>>]
  BY <1>3, <1>4, KeptStep
<1>6. QED
  BY <1>1, <1>2, <1>5 DEF Exchange!Reuse

LEMMA StartBegins ==
  ASSUME IInv, NEW p \in Ranks, Start(p) PROVE Exchange!Begin(p)
<1>1. /\ kernel[p] = "done" /\ started[p] = done[p]
      /\ started' = [started EXCEPT ![p] = started[p] + 1]
      /\ kernel' = kernel /\ buffer' = buffer /\ done' = done
  BY DEF Start, MayStart
<1>2. Kept(p) = <<>> /\ Kept(p)' = <<>>
  BY <1>1 DEF Kept
<1>3. \A r \in Ranks : Keeps(r)
  <2>1. \A r \in Ranks : r # p => Keeps(r)
    BY <1>1, KeepsSame
  <2>2. QED
    BY <1>2, <2>1 DEF Keeps
<1>4. [r \in Ranks |-> Kept(r)]' = [r \in Ranks |-> Kept(r)]
  BY <1>3 DEF Keeps
<1>5. QED
  BY <1>1, <1>4 DEF Exchange!Begin

(* What a rank waits for has been sent: its source is not behind.          *)
LEMMA SourceStarted ==
  ASSUME IInv, NEW p \in Ranks, Wait(p), Recvs(p) # <<>>
  PROVE  done[p] < started[Src[p]]
<1>1. PICK s : s = Src[p] /\ s \in Ranks /\ Dst[s] = p /\ Len(Recvs(p)) = Len(Sends(s))
  BY Ring
<1>2. Local(s) /\ Chain(s) /\ Local(p)
  BY <1>1 DEF IInv
<1>3. Sends(s) # <<>>
  BY <1>1, RecvFacts
<1>4. PICK at : Numbers(s, at)
  BY <1>2, <1>3 DEF Chain
<1>5. posted[p] = <<>> /\ done[p] + 1 = started[p]
  BY WaitFacts
<1>6. at[1] = <<started[p] + 1, 1>>
  BY <1>1, <1>4, <1>5 DEF Numbers, Expected
<1>7. PICK a \in Int, b \in Int, c \in Int : a = started[s] /\ b = started[p] /\ c = done[p]
  BY <1>2 DEF Local, Phase
<1>8. b + 1 <= a + 1
  <2>1. PICK n \in Nat : n = Len(net[s])
    BY <1>2 DEF Local, Shape
  <2>2. CASE n = 0
    <3>1. at[1] = <<a + 1, 1>>
      <4>1. at[n + 1] = <<a + 1, 1>>
        BY <1>4, <1>7, <2>1 DEF Numbers
      <4>2. n + 1 = 1
        BY <2>2
      <4>3. QED
        BY <4>1, <4>2
    <3>2. QED
      BY <1>6, <1>7, <3>1
  <2>3. CASE n > 0
    <3>1. 1 \in 1 .. Len(net[s])
      BY <2>1, <2>3
    <3>2. at[1][1] \in 1 .. started[s]
      BY <1>1, <1>2, <1>4, <3>1, EntryFacts
    <3>3. b + 1 \in 1 .. a
      BY <1>6, <1>7, <3>2
    <3>4. QED
      BY <3>3
  <2>4. QED
    BY <2>2, <2>3
<1>9. c + 1 = b
  BY <1>5, <1>7
<1>10. c < a
  BY <1>8, <1>9
<1>11. QED
  BY <1>1, <1>7, <1>10

LEMMA WaitEnds ==
  ASSUME IInv, NEW p \in Ranks, Wait(p) PROVE Exchange!End(p)
<1>1. /\ InRound(p) /\ Got(p) = Len(Recvs(p)) /\ done[p] + 1 = started[p]
      /\ done' = [done EXCEPT ![p] = done[p] + 1]
      /\ kernel' = [kernel EXCEPT ![p] = "todo"]
      /\ buffer' = buffer /\ started' = started
  BY WaitFacts
<1>2. /\ Domains /\ Local(p) /\ done'[p] = started[p] /\ kernel'[p] = "todo"
      /\ started[p] \in 0 .. Rounds /\ done[p] \in 0 .. Rounds
  BY <1>1 DEF IInv, Domains
<1>3. started[p] \in 1 .. Rounds /\ started[p] > 0 /\ started[p] > done[p]
  BY <1>1, <1>2
<1>4. PICK v : v = [j \in DOMAIN Recvs(p) |-> <<Src[p], Sends(Src[p])[j], started[p]>>]
  OBVIOUS
<1>5. Kept(p)' = v
  <2>1. Kept(p)' = [j \in DOMAIN Recvs(p) |-> buffer[p][Recvs(p)[j]]]
    BY <1>1, <1>2, <1>3 DEF Kept
  <2>2. \A j \in DOMAIN Recvs(p) : j <= Got(p)
    BY <1>1, RecvFacts
  <2>3. \A j \in DOMAIN Recvs(p) : buffer[p][Recvs(p)[j]] = <<Src[p], Sends(Src[p])[j], started[p]>>
    BY <1>2, <1>3, <2>2 DEF Local, Holds
  <2>4. QED
    BY <1>4, <2>1, <2>3
<1>6. \A r \in Ranks : r # p => Keeps(r)
  BY <1>1, KeepsSame
<1>7. [r \in Ranks |-> Kept(r)]' = [[r \in Ranks |-> Kept(r)] EXCEPT ![p] = v]
  BY <1>5, <1>6, KeptStep
<1>8. v # <<>> => done[p] < started[Src[p]]
  <2>1. v # <<>> => Recvs(p) # <<>>
    BY <1>4
  <2>2. QED
    BY <2>1, SourceStarted
<1>9. [r \in Ranks |-> [c \in 1 .. Rounds |->
         [j \in DOMAIN Recvs(r) |-> <<Src[r], Sends(Src[r])[j], c>>]]][p][started[p]] = v
  BY <1>3, <1>4
<1>10. done[p] < started[p]
  BY <1>2, <1>3
<1>11. QED
  BY <1>1, <1>7, <1>8, <1>9, <1>10 DEF Exchange!End

LEMMA DeliverStutters ==
  ASSUME IInv, NEW p \in Ranks, Deliver(p) PROVE UNCHANGED Exchange!vars
<1>1. PICK q, i, j, data, unread, over :
        q = Dst[p] /\ DeliverFacts(p, q, i, j, data, unread, over)
  BY Delivers
<1>2. /\ q \in Ranks /\ posted[q] # <<>> /\ Local(q)
      /\ \A r \in Ranks : r # q => buffer'[r] = buffer[r]
      /\ kernel' = kernel /\ started' = started /\ done' = done
  BY <1>1, Ring DEF DeliverFacts, IInv
<1>3. started[q] > done[q] /\ done[q] \in 0 .. Rounds
  BY <1>2, NextReceive DEF Local, Phase
<1>4. started[q] # done[q]
  BY <1>3
<1>5. Keeps(q)
  BY <1>2, <1>4 DEF Keeps, Kept
<1>6. \A r \in Ranks : r # q => Keeps(r)
  BY <1>2, KeepsSame
<1>7. QED
  BY <1>2, <1>5, <1>6, Stutter

(* Whatever the interleaving of the ranks, when MPI copies and however     *)
(* often the channel is moved: a rank gets in every round what its source  *)
(* sent in the same round.                                                 *)
THEOREM ImplementsExchange == Spec => KeepsExchange
<1>1. Init => Exchange!Init
  <2>1. SUFFICES ASSUME Init PROVE Exchange!Init
    OBVIOUS
  <2>2. started = [p \in Ranks |-> 0] /\ done = [p \in Ranks |-> 0]
    BY <2>1 DEF Init
  <2>3. \A p \in Ranks : Kept(p) = <<>>
    BY <2>2 DEF Kept
  <2>4. [p \in Ranks |-> Kept(p)] = [p \in Ranks |-> <<>>]
    BY <2>3
  <2>5. QED
    BY <2>2, <2>4 DEF Exchange!Init
<1>2. IInv /\ [Next]_vars => [Exchange!Next]_(Exchange!vars)
  <2>1. SUFFICES ASSUME IInv, [Next]_vars PROVE Exchange!Next \/ UNCHANGED Exchange!vars
    OBVIOUS
  <2>2. ASSUME UNCHANGED <<buffer, kernel, started, done>> PROVE UNCHANGED Exchange!vars
    BY <2>2, KeepsSame, Stutter
  <2>3. CASE UNCHANGED vars
    BY <2>2, <2>3 DEF vars
  <2>4. ASSUME NEW p \in Ranks, Cycle(p) PROVE Exchange!Next \/ UNCHANGED Exchange!vars
    <3>1. CASE Register(p)
      BY <2>2, <3>1 DEF Register, Add
    <3>2. CASE Launch(p)
      <4>1. /\ kernel[p] = "todo" /\ kernel' = [kernel EXCEPT ![p] = "running"]
            /\ buffer' = buffer /\ started' = started /\ done' = done
        BY <3>2 DEF Launch
      <4>2. kernel'[p] = "running"
        BY <2>1, <4>1 DEF IInv, Domains
      <4>3. Keeps(p)
        BY <4>1, <4>2 DEF Keeps, Kept
      <4>4. \A r \in Ranks : r # p => Keeps(r)
        BY <4>1, KeepsSame
      <4>5. QED
        BY <4>1, <4>3, <4>4, Stutter
    <3>3. CASE KernelDone(p)
      BY <2>1, <3>3, KernelDoneReuses DEF Exchange!Next
    <3>4. CASE Start(p)
      BY <2>1, <3>4, StartBegins DEF Exchange!Next
    <3>5. CASE Wait(p)
      BY <2>1, <3>5, WaitEnds DEF Exchange!Next
    <3>6. QED
      BY <2>4, <3>1, <3>2, <3>3, <3>4, <3>5 DEF Cycle
  <2>5. ASSUME NEW p \in Ranks, Copy(p) \/ RegisterSpare(p) PROVE UNCHANGED Exchange!vars
    BY <2>2, <2>5 DEF Copy, RegisterSpare, Add
  <2>6. ASSUME NEW p \in Ranks, MoveConstruct(p) \/ MoveAssign(p) \/ Destroy(p)
        PROVE  UNCHANGED Exchange!vars
    BY <2>2, <2>6 DEF MoveConstruct, MoveAssign, Adopt, Destroy
  <2>7. ASSUME NEW p \in Ranks, Deliver(p) PROVE UNCHANGED Exchange!vars
    BY <2>1, <2>7, DeliverStutters
  <2>8. QED
    BY <2>1, <2>3, <2>4, <2>5, <2>6, <2>7 DEF Next
<1>3. QED
  BY <1>1, <1>2, Invariance, PTL DEF Spec, KeepsExchange, Exchange!Spec
=============================================================================
