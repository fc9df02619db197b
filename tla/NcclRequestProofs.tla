------------------------- MODULE NcclRequestProofs --------------------------
(***************************************************************************)
(* Proofs about NcclRequest, for any cells, operations, streams and        *)
(* events. First the inductive invariant of a program that neither moves   *)
(* Requests nor waits for more than one in a wait_all (Beyond = {}), the   *)
(* safety properties that follow from it and the refinement of             *)
(* RequestContract; then what holds of every program (any Beyond).         *)
(***************************************************************************)
EXTENDS NcclRequest, Orderings

(* The callbacks an operation is started with, as a set.                   *)
RegSet(o) == {k \in Kinds : Has(Registered(o), k)}

(* A queue without repetition.                                             *)
Distinct(q) == \A i, j \in 1 .. Len(q) : q[i] = q[j] => i = j

-----------------------------------------------------------------------------
LEMMA RegisteredFacts ==
  ASSUME NEW o \in Ops
  PROVE  /\ Registered(o) \in Seq(Kinds)
         /\ Increasing(Registered(o))
         /\ \A k \in Kinds : k \in RegSet(o) <=>
              \/ k = "unpack" /\ PacksRecv(o)
              \/ k = "keep_psv" /\ PacksSend(o)
              \/ k = "keep_sv" /\ Call[o].managed /\ "sv" \in Views(o)
              \/ k = "keep_rv" /\ Call[o].managed /\ "rv" \in Views(o)
<1> DEFINE keepsv == Call[o].managed /\ "sv" \in Views(o)
           keeprv == Call[o].managed /\ "rv" \in Views(o)
<1>1. Kinds = Stages
  BY DEF Kinds, Stages
<1> HIDE DEF keepsv, keeprv
<1>2. PICK P \in BOOLEAN, Q \in BOOLEAN, R \in BOOLEAN, S \in BOOLEAN :
        (P <=> PacksRecv(o)) /\ (Q <=> PacksSend(o)) /\ (R <=> keepsv) /\ (S <=> keeprv)
  OBVIOUS
<1>3. Registered(o) = List(P, Q, R, S)
  <2>1. (IF PacksRecv(o) THEN <<"unpack">> ELSE <<>>) = IF P THEN <<"unpack">> ELSE <<>>
    BY <1>2, Zenon
  <2>2. (IF PacksSend(o) THEN <<"keep_psv">> ELSE <<>>) = IF Q THEN <<"keep_psv">> ELSE <<>>
    BY <1>2, Zenon
  <2>3. (IF keepsv THEN <<"keep_sv">> ELSE <<>>) = IF R THEN <<"keep_sv">> ELSE <<>>
    BY <1>2, Zenon
  <2>4. (IF keeprv THEN <<"keep_rv">> ELSE <<>>) = IF S THEN <<"keep_rv">> ELSE <<>>
    BY <1>2, Zenon
  <2>5. QED
    BY <2>1, <2>2, <2>3, <2>4, Zenon DEF Registered, List, keepsv, keeprv
<1>4. \A k \in Kinds : k \in RegSet(o) <=> Has(Registered(o), k)
  BY DEF RegSet
<1>5. /\ Registered(o) \in Seq(Stages) /\ Increasing(Registered(o))
      /\ \A k \in Stages : Has(Registered(o), k) <=> \/ k = "unpack" /\ P
                                                     \/ k = "keep_psv" /\ Q
                                                     \/ k = "keep_sv" /\ R
                                                     \/ k = "keep_rv" /\ S
  BY <1>3, ListFacts
<1>6. \A k \in Kinds : k \in RegSet(o) <=> \/ k = "unpack" /\ PacksRecv(o)
                                           \/ k = "keep_psv" /\ PacksSend(o)
                                           \/ k = "keep_sv" /\ keepsv
                                           \/ k = "keep_rv" /\ keeprv
  BY <1>1, <1>2, <1>4, <1>5
<1>7. QED
  BY <1>1, <1>5, <1>6 DEF keepsv, keeprv

LEMMA RangeFacts ==
  ASSUME NEW K, NEW q \in Seq(K)
  PROVE  \A x : x \in Range(q) <=> Has(q, x)
  BY DEF Range, Has

LEMMA AppendFacts ==
  ASSUME NEW K, NEW q \in Seq(K), NEW x \in K
  PROVE  /\ Append(q, x) \in Seq(K)
         /\ \A y : Has(Append(q, x), y) <=> Has(q, y) \/ y = x
         /\ Distinct(q) /\ ~ Has(q, x) => Distinct(Append(q, x))
<1> DEFINE p == Append(q, x)
<1>1. /\ p \in Seq(K) /\ Len(p) = Len(q) + 1 /\ Len(q) \in Nat
      /\ \A i \in 1 .. Len(q) : p[i] = q[i]
      /\ p[Len(q) + 1] = x
  BY AppendProperties
<1> HIDE DEF p
<1>2. ASSUME NEW y PROVE Has(p, y) <=> Has(q, y) \/ y = x
  <2>1. Has(q, y) => Has(p, y)
    BY <1>1 DEF Has
  <2>2. Len(p) \in 1 .. Len(p) /\ p[Len(p)] = x
    BY <1>1
  <2>3. y = x => Has(p, y)
    BY <2>2 DEF Has
  <2>4. ASSUME NEW i \in 1 .. Len(p), p[i] = y PROVE Has(q, y) \/ y = x
    BY <1>1, <2>4 DEF Has
  <2>5. QED
    BY <2>1, <2>3, <2>4 DEF Has
<1>3. Distinct(q) /\ ~ Has(q, x) => Distinct(p)
  BY <1>1 DEF Distinct, Has
<1>4. QED
  BY <1>1, <1>2, <1>3 DEF p

(* The program's own callback comes last.                                  *)
LEMMA UserFacts ==
  ASSUME NEW l \in Seq(Kinds), Increasing(l), \A i \in DOMAIN l : l[i] # "user"
  PROVE  Increasing(Append(l, "user"))
<1> DEFINE p == Append(l, "user")
<1>1. /\ Len(p) = Len(l) + 1 /\ Len(l) \in Nat /\ p[Len(l) + 1] = "user"
      /\ \A i \in 1 .. Len(l) : p[i] = l[i] /\ l[i] \in Kinds /\ l[i] # "user"
  BY AppendProperties
<1> HIDE DEF p
<1>2. \A i \in 1 .. Len(l) : Rank[l[i]] < 5
  BY <1>1 DEF Kinds, Rank
<1>3. Rank["user"] = 5
  BY DEF Rank
<1>4. ASSUME NEW i \in 1 .. Len(p), NEW j \in 1 .. Len(p), i < j PROVE Rank[p[i]] < Rank[p[j]]
  <2>1. i \in 1 .. Len(l) /\ p[i] = l[i]
    BY <1>1, <1>4
  <2>2. CASE j = Len(l) + 1
    BY <1>1, <1>2, <1>3, <2>1, <2>2
  <2>3. CASE j # Len(l) + 1
    <3>1. j \in 1 .. Len(l) /\ p[j] = l[j]
      BY <1>1, <2>3
    <3>2. QED
      BY <1>4, <2>1, <3>1 DEF Increasing
  <2>4. QED
    BY <2>2, <2>3
<1>5. Increasing(p)
  BY <1>4 DEF Increasing
<1>6. QED
  BY <1>5 DEF p

LEMMA TailFacts ==
  ASSUME NEW K, NEW q \in Seq(K), q # <<>>
  PROVE  /\ Tail(q) \in Seq(K) /\ Head(q) \in K
         /\ \A x : Has(q, x) <=> x = Head(q) \/ Has(Tail(q), x)
         /\ Distinct(q) => Distinct(Tail(q)) /\ ~ Has(Tail(q), Head(q))
<1> DEFINE t == Tail(q)
           h == Head(q)
<1>1. /\ t \in Seq(K) /\ h \in K /\ h = q[1] /\ Len(q) \in Nat \ {0} /\ Len(t) = Len(q) - 1
      /\ \A i \in 1 .. Len(t) : t[i] = q[i + 1]
  BY HeadTailProperties
<1> HIDE DEF t, h
<1>2. ASSUME NEW x PROVE Has(q, x) <=> x = h \/ Has(t, x)
  <2>1. ASSUME NEW i \in 1 .. Len(q), q[i] = x PROVE x = h \/ Has(t, x)
    <3>1. CASE i = 1
      BY <1>1, <2>1, <3>1
    <3>2. CASE i # 1
      <4>1. i - 1 \in 1 .. Len(t) /\ t[i - 1] = x
        BY <1>1, <2>1, <3>2
      <4>2. QED
        BY <4>1 DEF Has
    <3>3. QED
      BY <3>1, <3>2
  <2>2. ASSUME NEW i \in 1 .. Len(t), t[i] = x PROVE Has(q, x)
    <3>1. i + 1 \in 1 .. Len(q) /\ q[i + 1] = x
      BY <1>1, <2>2
    <3>2. QED
      BY <3>1 DEF Has
  <2>3. 1 \in 1 .. Len(q)
    BY <1>1
  <2>4. x = h => Has(q, x)
    BY <1>1, <2>3 DEF Has
  <2>5. QED
    BY <2>1, <2>2, <2>4 DEF Has
<1>3. ASSUME Distinct(q) PROVE Distinct(t) /\ ~ Has(t, h)
  <2>1. Distinct(t)
    <3>1. ASSUME NEW i \in 1 .. Len(t), NEW j \in 1 .. Len(t), t[i] = t[j] PROVE i = j
      <4>1. i + 1 \in 1 .. Len(q) /\ j + 1 \in 1 .. Len(q) /\ q[i + 1] = q[j + 1]
        BY <1>1, <3>1
      <4>2. i + 1 = j + 1
        BY <1>3, <4>1 DEF Distinct
      <4>3. QED
        BY <4>2
    <3>2. QED
      BY <3>1 DEF Distinct
  <2>2. ASSUME NEW i \in 1 .. Len(t), t[i] = h PROVE FALSE
    <3>1. i + 1 \in 1 .. Len(q) /\ 1 \in 1 .. Len(q) /\ q[i + 1] = q[1]
      BY <1>1, <2>2
    <3>2. i + 1 = 1
      BY <1>3, <3>1 DEF Distinct
    <3>3. QED
      BY <3>2
  <2>3. QED
    BY <2>1, <2>2 DEF Has
<1>4. QED
  BY <1>1, <1>2, <1>3 DEF t, h

-----------------------------------------------------------------------------
(* The inductive invariant of a program that neither moves Requests nor    *)
(* waits for more than one in a wait_all.                                  *)

Kept(r) == cell[r] # "none"

(* Every object has an event and an operation of its own.                  *)
OwnInv ==
  /\ \A r \in Cells : cell[r] # "moved" /\ (cell[r] = "none" => repr[r] = NoOp)
  /\ \A r \in Cells : Kept(r) => handle[r] \in events /\ repr[r] \in Ops /\ Started(repr[r])
  /\ \A q, r \in Cells : Kept(q) /\ Kept(r) => (handle[q] = handle[r] \/ repr[q] = repr[r] => q = r)
  /\ \A e \in events : \E r \in Cells : Kept(r) /\ handle[r] = e

(* What a stream has still to do has an object that owns the callbacks.    *)
QueueInv ==
  \A s \in Streams :
    /\ Distinct(queue[s])
    /\ \A o \in Ops : Has(queue[s], o) =>
         /\ Call[o].stream = s /\ o \notin finished
         /\ \E r \in Cells : cell[r] = "owner" /\ repr[r] = o

(* An event is not reached before its operation is finished.               *)
EventInv ==
  \A r \in Cells : Kept(r) /\ repr[r] \notin finished => repr[r] \in before[handle[r]]

(* The loops: a wait_all counts down from one, and callbacks run only for  *)
(* an operation that is finished.                                          *)
CallInv ==
  /\ call.stage # "run" => call.pos = 1
  /\ call.stage # "idle" => /\ \A r \in call.lo .. call.hi : Kept(r)
                            /\ call.fn = "all" => call.lo = call.hi /\ call.remaining = 1
  /\ call.stage = "run" => repr[call.at] \in finished

(* A list holds what the call registered, in order, until it is cleared.   *)
ListInv ==
  \A r \in Cells :
    /\ cell[r] = "owner" =>
         /\ Increasing(callbacks[r])
         /\ \A k \in Kinds \ {"user"} : Has(callbacks[r], k) <=> k \in RegSet(repr[r])
    /\ cell[r] = "waited" => callbacks[r] = <<>>

(* Has the loop over the callbacks of r gone past one of kind k?           *)
Passed(r, k) ==
  call.stage = "run" /\ call.at = r /\ \E i \in 1 .. call.pos - 1 : callbacks[r][i] = k

RunInv ==
  /\ \A o \in Ops, k \in Kinds : runs[o][k] \in {0, 1} /\ (~Started(o) => runs[o][k] = 0)
  /\ \A r \in Cells : cell[r] = "owner" =>
       \A k \in Kinds : runs[repr[r]][k] = 1 <=> Passed(r, k)
  /\ \A r \in Cells : cell[r] = "waited" =>
       /\ repr[r] \in finished
       /\ \A k \in Kinds \ {"user"} : runs[repr[r]][k] = 1 <=> k \in RegSet(repr[r])

(* A view that does not own its memory stays with the program until a wait *)
(* has returned for the operation.                                         *)
ScopeInv ==
  \A o \in Ops :
    /\ ~Call[o].managed
    /\ o \notin finished \/ \E r \in Cells : cell[r] = "owner" /\ repr[r] = o
    => {o} \X Views(o) \subseteq scope

IInv ==
  /\ TypeOK /\ NoDeadEvent
  /\ OwnInv /\ QueueInv /\ EventInv /\ CallInv /\ ListInv /\ RunInv /\ ScopeInv

-----------------------------------------------------------------------------
(* What has been started is finished or on a stream.                       *)
LEMMA StartedFacts ==
  ASSUME TypeOK
  PROVE  \A o : Started(o) <=> o \in finished \/ \E s \in Streams : Has(queue[s], o)
<1>1. ASSUME NEW s \in Streams PROVE \A o : o \in Range(queue[s]) <=> Has(queue[s], o)
  <2>1. queue[s] \in Seq(Ops)
    BY DEF TypeOK
  <2>2. QED
    BY <2>1, RangeFacts
<1>2. QED
  BY <1>1 DEF Started

LEMMA StartedNext ==
  ASSUME TypeOK'
  PROVE  \A o : Started(o)' <=> o \in finished' \/ \E s \in Streams : Has(queue'[s], o)
<1>1. ASSUME NEW s \in Streams PROVE \A o : o \in Range(queue'[s]) <=> Has(queue'[s], o)
  <2>1. queue'[s] \in Seq(Ops)
    BY DEF TypeOK
  <2>2. QED
    BY <2>1, RangeFacts
<1>2. QED
  BY <1>1 DEF Started

LEMMA SameStarted ==
  ASSUME UNCHANGED <<queue, finished>> PROVE \A o : Started(o)' <=> Started(o)
BY DEF Started

(* Outside every call no callback is half way.                             *)
LEMMA AtRest ==
  ASSUME CallInv, call.stage = "idle", call' = call
  PROVE  CallInv' /\ CursorOK' /\ \A r, k : ~ Passed(r, k) /\ ~ Passed(r, k)'
BY DEF CallInv, CursorOK, Passed

LEMMA InitInv == Init => IInv
<1> SUFFICES ASSUME Init PROVE IInv
  OBVIOUS
<1>1. TypeOK
  <2>1. cell \in [Cells -> {"none", "owner", "waited", "moved"}]
        /\ handle \in [Cells -> Events \union {Null}]
        /\ callbacks \in [Cells -> Seq(Kinds)] /\ repr \in [Cells -> Ops \union {NoOp}]
    BY DEF Init
  <2>2. finished \subseteq Ops /\ events \subseteq Events /\ misuse \in BOOLEAN
    BY DEF Init
  <2>3. queue \in [Streams -> Seq(Ops)]
    BY DEF Init
  <2>4. before \in [Events -> SUBSET Ops]
    BY DEF Init
  <2>5. scope \subseteq Ops \X Bufs
    BY Zenon DEF Init
  <2>6. call \in CallType /\ CursorOK
    BY DEF Init, CursorOK, CallType, Idle
  <2>7. runs \in [Ops -> [Kinds -> Nat]]
    BY DEF Init
  <2>8. QED
    BY <2>1, <2>2, <2>6, <2>7, <2>5, <2>3, <2>4 DEF TypeOK
<1>2. \A s \in Streams : Len(queue[s]) = 0
  BY DEF Init
<1>3. \A s \in Streams : Distinct(queue[s]) /\ \A o : ~ Has(queue[s], o)
  BY <1>2 DEF Distinct, Has
<1>4. OwnInv /\ EventInv /\ NoDeadEvent
  BY DEF Init, OwnInv, EventInv, Kept, NoDeadEvent
<1>5. QueueInv
  BY <1>3 DEF QueueInv
<1>6. CallInv /\ ListInv
  BY DEF Init, Idle, CallInv, ListInv
<1>7. RunInv
  BY DEF Init, RunInv
<1>8. ScopeInv
  <2>1. \A o \in Ops : Views(o) \subseteq Bufs
    BY DEF Views, Bufs
  <2>2. QED
    BY <2>1 DEF Init, ScopeInv
<1>9. QED
  BY <1>1, <1>4, <1>5, <1>6, <1>7, <1>8 DEF IInv

LEMMA CountType ==
  ASSUME NEW c \in [Ops -> [Kinds -> Nat]], NEW o, NEW k \in Kinds
  PROVE  [c EXCEPT ![o][k] = c[o][k] + 1] \in [Ops -> [Kinds -> Nat]]
<1>1. CASE o \in Ops
  BY <1>1
<1>2. CASE o \notin Ops
  <2>1. [c EXCEPT ![o] = [c[o] EXCEPT ![k] = c[o][k] + 1]] = c
    BY <1>2
  <2>2. QED
    BY <2>1
<1>3. QED
  BY <1>1, <1>2

(* The events, lists and queues keep their types.                          *)
LEMMA PostType ==
  ASSUME TypeOK, NEW o \in Ops, NEW r \in Cells, Post(o, r) PROVE TypeOK'
<1> DEFINE s == Call[o].stream
<1>1. s \in Streams
  BY NcclRequestAssumption DEF Calls
<1>2. Registered(o) \in Seq(Kinds)
  BY RegisteredFacts
<1>3. queue' \in [Streams -> Seq(Ops)]
  <2>1. queue[s] \in Seq(Ops)
    BY <1>1 DEF TypeOK
  <2>2. Append(queue[s], o) \in Seq(Ops)
    BY <2>1, AppendFacts
  <2>3. QED
    BY <2>2 DEF Post, TypeOK
<1>4. PICK e \in Events : /\ events' = events \union {e}
                          /\ before' = [before EXCEPT ![e] = Range(queue[s]) \union {o}]
                          /\ handle' = [handle EXCEPT ![r] = e]
  BY DEF Post
<1>5. Range(queue[s]) \subseteq Ops
  BY <1>1 DEF Range, TypeOK
<1>6. before' \in [Events -> SUBSET Ops] /\ handle' \in [Cells -> Events \union {Null}]
      /\ events' \subseteq Events
  BY <1>4, <1>5 DEF TypeOK
<1>7. /\ callbacks' \in [Cells -> Seq(Kinds)] /\ repr' \in [Cells -> Ops \union {NoOp}]
      /\ cell' \in [Cells -> {"none", "owner", "waited", "moved"}]
      /\ UNCHANGED <<finished, scope, call, runs, misuse>> /\ call.stage = "idle"
  BY <1>2 DEF Post, TypeOK, Free
<1>8. CursorOK'
  BY <1>7 DEF CursorOK
<1>9. QED
  BY <1>3, <1>6, <1>7, <1>8 DEF TypeOK

LEMMA StreamType ==
  ASSUME TypeOK, NEW s \in Streams, StreamStep(s) PROVE TypeOK'
<1>1. queue[s] \in Seq(Ops) /\ queue[s] # <<>>
  BY DEF TypeOK, StreamStep
<1>2. Tail(queue[s]) \in Seq(Ops) /\ Head(queue[s]) \in Ops
  BY <1>1, TailFacts
<1>3. queue' \in [Streams -> Seq(Ops)] /\ finished' \subseteq Ops
  BY <1>2 DEF StreamStep, TypeOK
<1>4. before' \in [Events -> SUBSET Ops]
  BY DEF StreamStep, TypeOK
<1>5. UNCHANGED <<cell, handle, callbacks, repr, events, scope, call, runs, misuse>>
  BY DEF StreamStep, objects
<1>6. CursorOK'
  BY <1>5 DEF CursorOK, TypeOK
<1>7. QED
  BY <1>3, <1>4, <1>5, <1>6 DEF TypeOK

LEMMA PostInv ==
  ASSUME IInv, NEW o \in Ops, NEW r \in Cells, Post(o, r) PROVE IInv'
<1> PICK s \in Streams : s = Call[o].stream
  BY NcclRequestAssumption DEF Calls
<1> USE DEF IInv
<1>1. TypeOK'
  BY PostType
<1>2. PICK e \in Events \ events : /\ events' = events \union {e}
                                   /\ before' = [before EXCEPT ![e] = Range(queue[s]) \union {o}]
                                   /\ handle' = [handle EXCEPT ![r] = e]
  BY DEF Post
<1>3. /\ queue' = [queue EXCEPT ![s] = Append(queue[s], o)]
      /\ callbacks' = [callbacks EXCEPT ![r] = Registered(o)]
      /\ cell' = [cell EXCEPT ![r] = "owner"]
      /\ repr' = [repr EXCEPT ![r] = o]
      /\ UNCHANGED <<finished, scope, call, runs, misuse>>
      /\ call.stage = "idle" /\ ~ Started(o) /\ cell[r] = "none"
  BY DEF Post, Free
<1>4. queue[s] \in Seq(Ops) /\ ~ Has(queue[s], o) /\ o \notin finished
  BY <1>3, StartedFacts DEF TypeOK
<1>5. /\ Distinct(queue[s]) => Distinct(Append(queue[s], o))
      /\ \A y : Has(Append(queue[s], o), y) <=> Has(queue[s], y) \/ y = o
  BY <1>4, AppendFacts
<1>6. /\ queue'[s] = Append(queue[s], o)
      /\ \A t \in Streams : t # s => queue'[t] = queue[t]
  BY <1>3 DEF TypeOK
<1>7. \A p : Started(p)' <=> Started(p) \/ p = o
  <2>1. \A p : Started(p)' <=> p \in finished' \/ \E t \in Streams : Has(queue'[t], p)
    BY <1>1, StartedNext
  <2>2. QED
    BY <1>3, <1>5, <1>6, <2>1, StartedFacts
<1>8. /\ cell'[r] = "owner" /\ repr'[r] = o /\ handle'[r] = e /\ callbacks'[r] = Registered(o)
      /\ \A q \in Cells : q # r => /\ cell'[q] = cell[q] /\ repr'[q] = repr[q]
                                   /\ handle'[q] = handle[q] /\ callbacks'[q] = callbacks[q]
  BY <1>2, <1>3 DEF TypeOK
<1>9. OwnInv'
  BY <1>2, <1>3, <1>7, <1>8 DEF OwnInv, Kept
<1>10. QueueInv'
  BY <1>3, <1>4, <1>5, <1>6, <1>8 DEF QueueInv
<1>11. EventInv'
  BY <1>2, <1>3, <1>8 DEF EventInv, OwnInv, Kept, TypeOK
<1>12. CallInv' /\ \A q, k : ~ Passed(q, k) /\ ~ Passed(q, k)'
  BY <1>3, AtRest
<1>13. ListInv'
  <2>1. Increasing(Registered(o)) /\ \A k \in Kinds : Has(Registered(o), k) <=> k \in RegSet(o)
    BY RegisteredFacts DEF RegSet
  <2>2. QED
    BY <1>8, <2>1 DEF ListInv, RegSet
<1>14. RunInv'
  BY <1>3, <1>7, <1>8, <1>12 DEF RunInv
<1>15. ScopeInv' /\ NoDeadEvent'
  <2>1. {o} \X Views(o) \subseteq scope
    BY DEF Post
  <2>2. QED
    BY <1>3, <1>8, <2>1 DEF ScopeInv, NoDeadEvent
<1>16. QED
  BY <1>1, <1>9, <1>10, <1>11, <1>12, <1>13, <1>14, <1>15

LEMMA StreamInv ==
  ASSUME IInv, NEW s \in Streams, StreamStep(s) PROVE IInv'
<1> USE DEF IInv
<1>1. TypeOK'
  BY StreamType
<1>2. queue[s] \in Seq(Ops) /\ queue[s] # <<>>
  BY DEF TypeOK, StreamStep
<1>3. PICK h \in Ops : h = Head(queue[s])
  BY <1>2, TailFacts
<1>4. /\ finished' = finished \union {h}
      /\ queue' = [queue EXCEPT ![s] = Tail(queue[s])]
      /\ before' = [e \in Events |-> before[e] \ {h}]
      /\ UNCHANGED <<cell, handle, callbacks, repr, events, scope, call, runs, misuse>>
  BY <1>3 DEF StreamStep, objects
<1>5. /\ \A x : Has(queue[s], x) <=> x = h \/ Has(Tail(queue[s]), x)
      /\ Distinct(queue[s]) => Distinct(Tail(queue[s])) /\ ~ Has(Tail(queue[s]), h)
  BY <1>2, <1>3, TailFacts
<1>6. /\ queue'[s] = Tail(queue[s])
      /\ \A t \in Streams : t # s => queue'[t] = queue[t]
  BY <1>4 DEF TypeOK
<1>7. \A p : Started(p)' <=> Started(p)
  <2>1. \A p : Started(p)' <=> p \in finished' \/ \E t \in Streams : Has(queue'[t], p)
    BY <1>1, StartedNext
  <2>2. QED
    BY <1>4, <1>5, <1>6, <2>1, StartedFacts
<1>8. OwnInv'
  BY <1>4, <1>7 DEF OwnInv, Kept
<1>9. QueueInv'
  <2>1. ASSUME NEW t \in Streams PROVE Distinct(queue'[t]) /\ ~ Has(queue'[t], h)
    BY <1>5, <1>6 DEF QueueInv
  <2>2. ASSUME NEW t \in Streams, NEW o \in Ops, Has(queue'[t], o) PROVE Has(queue[t], o) /\ o # h
    BY <1>5, <1>6, <2>1, <2>2
  <2>3. QED
    BY <1>4, <2>1, <2>2 DEF QueueInv
<1>10. EventInv'
  BY <1>4 DEF EventInv, Kept, OwnInv, TypeOK
<1>11. CallInv' /\ ListInv' /\ NoDeadEvent'
  BY <1>4 DEF CallInv, ListInv, Kept, NoDeadEvent
<1>12. RunInv'
  BY <1>4, <1>7 DEF RunInv, Passed
<1>13. ScopeInv'
  BY <1>4 DEF ScopeInv
<1>14. QED
  BY <1>1, <1>8, <1>9, <1>10, <1>11, <1>12, <1>13

LEMMA RecaptureInv ==
  ASSUME Beyond = {}, IInv, NEW r \in Cells, Recapture(r) PROVE IInv'
<1> USE DEF IInv
<1>1. /\ UNCHANGED <<cell, callbacks, repr, queue, finished, scope, call, runs>>
      /\ call.stage = "idle" /\ cell[r] = "owner"
  BY DEF Recapture, Free
<1>2. handle[r] \in events /\ repr[r] \in Ops
  BY <1>1 DEF OwnInv, Kept
<1>3. PICK s \in Streams : s = Call[repr[r]].stream
  BY <1>2, NcclRequestAssumption DEF Calls
<1>4. PICK e \in (Events \ events) \union {handle[r]} :
        /\ events' = (events \ {handle[r]}) \union {e}
        /\ before' = [before EXCEPT ![handle[r]] = {}, ![e] = Range(queue[s])]
        /\ handle' = [handle EXCEPT ![r] = e]
  BY <1>2, <1>3 DEF Recapture, MayRecord
<1>5. misuse' = misuse /\ e \in Events /\ handle[r] \in Events
  BY <1>2, <1>4 DEF Recapture, TypeOK
<1>6. queue[s] \in Seq(Ops) /\ \A x : x \in Range(queue[s]) <=> Has(queue[s], x)
  <2>1. queue[s] \in Seq(Ops)
    BY DEF TypeOK
  <2>2. QED
    BY <2>1, RangeFacts
<1>7. Range(queue[s]) \subseteq Ops
  BY <1>6 DEF Has
<1>8. /\ before' \in [Events -> SUBSET Ops]
      /\ before'[e] = Range(queue[s])
      /\ \A d \in Events \ {e, handle[r]} : before'[d] = before[d]
  BY <1>4, <1>5, <1>7 DEF TypeOK
<1>9. /\ handle' \in [Cells -> Events \union {Null}] /\ handle'[r] = e
      /\ \A q \in Cells : q # r => handle'[q] = handle[q]
  BY <1>4, <1>5 DEF TypeOK
<1>10. CallInv' /\ CursorOK' /\ \A q, k : ~ Passed(q, k) /\ ~ Passed(q, k)'
  BY <1>1, AtRest
<1>11. TypeOK' /\ NoDeadEvent'
  BY <1>1, <1>4, <1>5, <1>8, <1>9, <1>10 DEF TypeOK, NoDeadEvent
<1>12. \A o : Started(o)' <=> Started(o)
  BY <1>1, SameStarted
<1>13. OwnInv'
  <2>1. ASSUME NEW q \in Cells, Kept(q), q # r PROVE handle[q] \in events /\ handle[q] # handle[r] /\ handle[q] # e
    BY <1>1, <1>4, <2>1 DEF OwnInv, Kept
  <2>2. \A q \in Cells : Kept(q)' <=> Kept(q)
    BY <1>1 DEF Kept
  <2>3. \A q \in Cells : Kept(q) => handle'[q] \in events'
    BY <1>4, <1>9, <2>1
  <2>4. \A p, q \in Cells : Kept(p) /\ Kept(q) => (handle'[p] = handle'[q] \/ repr[p] = repr[q] => p = q)
    BY <1>9, <2>1 DEF OwnInv
  <2>5. \A d \in events' : \E q \in Cells : Kept(q) /\ handle'[q] = d
    <3>1. ASSUME NEW d \in events', d # e PROVE \E q \in Cells : Kept(q) /\ handle'[q] = d
      <4>1. d \in events /\ d # handle[r]
        BY <1>4, <3>1
      <4>2. PICK q \in Cells : Kept(q) /\ handle[q] = d
        BY <4>1 DEF OwnInv
      <4>3. q # r
        BY <4>1, <4>2
      <4>4. QED
        BY <1>9, <4>2, <4>3
    <3>2. Kept(r)
      BY <1>1 DEF Kept
    <3>3. QED
      BY <1>9, <3>1, <3>2
  <2>6. QED
    BY <1>1, <1>12, <2>2, <2>3, <2>4, <2>5 DEF OwnInv
<1>14. QueueInv' /\ ListInv' /\ ScopeInv'
  BY <1>1 DEF QueueInv, ListInv, ScopeInv
<1>15. EventInv'
  <2>1. ASSUME NEW q \in Cells, Kept(q), repr[q] \notin finished PROVE repr[q] \in before'[handle'[q]]
    <3>1. CASE q = r
      <4>1. PICK t \in Streams : Has(queue[t], repr[r])
        BY <2>1, <3>1, StartedFacts DEF OwnInv
      <4>2. t = s
        BY <1>2, <1>3, <4>1 DEF QueueInv
      <4>3. QED
        BY <1>6, <1>8, <1>9, <3>1, <4>1, <4>2
    <3>2. CASE q # r
      <4>1. handle[q] \in events /\ handle[q] # handle[r] /\ handle[q] # e
        BY <1>1, <1>4, <2>1, <3>2 DEF OwnInv, Kept
      <4>2. repr[q] \in before[handle[q]] /\ handle[q] \in Events
        BY <2>1, <4>1 DEF EventInv, TypeOK
      <4>3. QED
        BY <1>8, <1>9, <3>2, <4>1, <4>2
    <3>3. QED
      BY <3>1, <3>2
  <2>2. QED
    BY <1>1, <2>1 DEF EventInv, Kept
<1>16. RunInv'
  BY <1>1, <1>10, <1>12 DEF RunInv
<1>17. QED
  BY <1>10, <1>11, <1>13, <1>14, <1>15, <1>16

LEMMA AddInv ==
  ASSUME IInv, NEW r \in Cells, AddCallback(r) PROVE IInv'
<1> USE DEF IInv
<1>1. /\ UNCHANGED <<cell, handle, repr, queue, finished, events, before, scope, call, runs, misuse>>
      /\ call.stage = "idle" /\ cell[r] = "owner"
      /\ callbacks' = [callbacks EXCEPT ![r] = Append(callbacks[r], "user")]
      /\ \A i \in DOMAIN callbacks[r] : callbacks[r][i] # "user"
  BY DEF AddCallback, Free, device
<1>2. callbacks[r] \in Seq(Kinds)
  BY DEF TypeOK
<1>3. Append(callbacks[r], "user") \in Seq(Kinds)
      /\ \A k : Has(Append(callbacks[r], "user"), k) <=> Has(callbacks[r], k) \/ k = "user"
  <2>1. "user" \in Kinds
    BY DEF Kinds
  <2>2. QED
    BY <1>2, <2>1, AppendFacts
<1>4. Increasing(Append(callbacks[r], "user"))
  BY <1>1, <1>2, UserFacts DEF ListInv
<1>5. /\ callbacks'[r] = Append(callbacks[r], "user")
      /\ \A q \in Cells : q # r => callbacks'[q] = callbacks[q]
  BY <1>1 DEF TypeOK
<1>6. CallInv' /\ CursorOK' /\ \A q, k : ~ Passed(q, k) /\ ~ Passed(q, k)'
  BY <1>1, AtRest
<1>7. TypeOK' /\ NoDeadEvent'
  BY <1>1, <1>3, <1>6 DEF TypeOK, NoDeadEvent
<1>8. \A o : Started(o)' <=> Started(o)
  BY <1>1, SameStarted
<1>9. OwnInv' /\ QueueInv' /\ EventInv' /\ ScopeInv'
  BY <1>1, <1>8 DEF OwnInv, QueueInv, EventInv, ScopeInv, Kept
<1>10. ListInv'
  BY <1>1, <1>3, <1>4, <1>5 DEF ListInv, RegSet
<1>11. RunInv'
  BY <1>1, <1>6, <1>8 DEF RunInv
<1>12. QED
  BY <1>6, <1>7, <1>9, <1>10, <1>11

LEMMA DropInv ==
  ASSUME IInv, NEW b \in Ops \X Bufs, DropView(b) PROVE IInv'
<1> USE DEF IInv
<1>1. /\ UNCHANGED <<cell, handle, callbacks, repr, queue, finished, events, before, call, runs, misuse>>
      /\ call.stage = "idle" /\ scope' = scope \ {b}
      /\ Call[b[1]].managed \/ \E r \in Cells : repr[r] = b[1] /\ cell[r] = "waited"
  BY DEF DropView, Free, objects, device
<1>2. CallInv' /\ CursorOK' /\ \A q, k : ~ Passed(q, k) /\ ~ Passed(q, k)'
  BY <1>1, AtRest
<1>3. TypeOK' /\ NoDeadEvent'
  BY <1>1, <1>2 DEF TypeOK, NoDeadEvent
<1>4. \A o : Started(o)' <=> Started(o)
  BY <1>1, SameStarted
<1>5. OwnInv' /\ QueueInv' /\ EventInv' /\ ListInv'
  BY <1>1, <1>4 DEF OwnInv, QueueInv, EventInv, ListInv, Kept
<1>6. RunInv'
  BY <1>1, <1>2, <1>4 DEF RunInv
<1>7. ScopeInv'
  <2>1. ASSUME NEW o \in Ops, ~ Call[o].managed,
               o \notin finished \/ \E r \in Cells : cell[r] = "owner" /\ repr[r] = o
        PROVE  {o} \X Views(o) \subseteq scope'
    <3>1. {o} \X Views(o) \subseteq scope
      BY <2>1 DEF ScopeInv
    <3>2. b[1] # o
      <4>1. ASSUME NEW r \in Cells, repr[r] = o, cell[r] = "waited" PROVE FALSE
        <5>1. o \in finished
          BY <4>1 DEF RunInv
        <5>2. PICK q \in Cells : cell[q] = "owner" /\ repr[q] = o
          BY <2>1, <5>1
        <5>3. q = r
          BY <4>1, <5>2 DEF OwnInv, Kept
        <5>4. QED
          BY <4>1, <5>2, <5>3
      <4>2. QED
        BY <1>1, <2>1, <4>1
    <3>3. QED
      BY <1>1, <3>1, <3>2
  <2>2. QED
    BY <1>1, <2>1 DEF ScopeInv
<1>8. QED
  BY <1>2, <1>3, <1>5, <1>6, <1>7

LEMMA DestroyInv ==
  ASSUME IInv, NEW r \in Cells, Destroy(r) PROVE IInv'
<1> USE DEF IInv
<1>1. cell[r] = "waited" /\ handle[r] \in events /\ repr[r] \in finished
  BY DEF Destroy, OwnInv, RunInv, Kept
<1>2. /\ events' = events \ {handle[r]}
      /\ before' = [before EXCEPT ![handle[r]] = {}]
      /\ misuse' = FALSE
      /\ cell' = [cell EXCEPT ![r] = "none"]
      /\ handle' = [handle EXCEPT ![r] = Null]
      /\ callbacks' = [callbacks EXCEPT ![r] = <<>>]
      /\ repr' = [repr EXCEPT ![r] = NoOp]
      /\ UNCHANGED <<queue, finished, scope, call, runs>>
      /\ call.stage = "idle"
  BY <1>1 DEF Destroy, Free
<1>3. CallInv' /\ CursorOK' /\ \A q, k : ~ Passed(q, k) /\ ~ Passed(q, k)'
  BY <1>2, AtRest
<1>4. /\ cell'[r] = "none"
      /\ \A q \in Cells : q # r => /\ cell'[q] = cell[q] /\ repr'[q] = repr[q]
                                   /\ handle'[q] = handle[q] /\ callbacks'[q] = callbacks[q]
  BY <1>2 DEF TypeOK
<1>5. TypeOK' /\ NoDeadEvent'
  <2>1. cell' \in [Cells -> {"none", "owner", "waited", "moved"}]
        /\ handle' \in [Cells -> Events \union {Null}]
        /\ callbacks' \in [Cells -> Seq(Kinds)] /\ repr' \in [Cells -> Ops \union {NoOp}]
    BY <1>2 DEF TypeOK
  <2>2. events' \subseteq Events /\ before' \in [Events -> SUBSET Ops]
    BY <1>2 DEF TypeOK
  <2>3. QED
    BY <1>2, <1>3, <2>1, <2>2 DEF TypeOK, NoDeadEvent
<1>6. \A o : Started(o)' <=> Started(o)
  BY <1>2, SameStarted
<1>7. OwnInv'
  <2>1. \A q \in Cells : Kept(q)' <=> Kept(q) /\ q # r
    BY <1>4 DEF Kept
  <2>2. ASSUME NEW q \in Cells, Kept(q), q # r PROVE handle[q] # handle[r]
    BY <1>1, <2>2 DEF OwnInv, Kept
  <2>3. \A d \in events' : \E q \in Cells : Kept(q)' /\ handle'[q] = d
    <3>1. ASSUME NEW d \in events' PROVE \E q \in Cells : Kept(q) /\ q # r /\ handle[q] = d
      BY <1>2 DEF OwnInv
    <3>2. QED
      BY <1>4, <2>1, <3>1
  <2>4. QED
    <3>1. repr'[r] = NoOp
      BY <1>2 DEF TypeOK
    <3>2. QED
      BY <1>2, <1>4, <1>6, <2>1, <2>2, <2>3, <3>1 DEF OwnInv
<1>8. QueueInv'
  BY <1>1, <1>2, <1>4 DEF QueueInv
<1>9. EventInv'
  <2>1. ASSUME NEW q \in Cells, Kept(q)', repr'[q] \notin finished PROVE repr'[q] \in before'[handle'[q]]
    <3>1. q # r /\ Kept(q)
      BY <1>4, <2>1 DEF Kept
    <3>2. handle[q] \in events /\ handle[q] # handle[r]
      BY <1>1, <3>1 DEF OwnInv, Kept
    <3>3. repr[q] \in before[handle[q]] /\ handle[q] \in Events
      BY <1>4, <2>1, <3>1, <3>2 DEF EventInv, TypeOK
    <3>4. before'[handle[q]] = before[handle[q]]
      BY <1>2, <3>2, <3>3 DEF TypeOK
    <3>5. QED
      BY <1>4, <3>1, <3>3, <3>4
  <2>2. QED
    BY <1>2, <2>1 DEF EventInv, Kept
<1>10. ListInv'
  BY <1>4 DEF ListInv
<1>11. RunInv'
  BY <1>2, <1>3, <1>4, <1>6 DEF RunInv
<1>12. ScopeInv'
  BY <1>2, <1>4 DEF ScopeInv
<1>13. QED
  BY <1>3, <1>5, <1>7, <1>8, <1>9, <1>10, <1>11, <1>12

-----------------------------------------------------------------------------
(* Steps inside a call.  What changes neither objects nor queues leaves    *)
(* these parts of the invariant as they are.                               *)
LEMMA Frame ==
  ASSUME IInv, UNCHANGED <<handle, repr, queue, finished, events, before, scope, misuse>>,
         \A r \in Cells : cell'[r] = cell[r]
  PROVE  /\ OwnInv' /\ QueueInv' /\ EventInv' /\ ScopeInv' /\ NoDeadEvent'
         /\ \A o : Started(o)' <=> Started(o)
<1>1. \A o : Started(o)' <=> Started(o)
  BY SameStarted
<1>2. QED
  BY <1>1 DEF IInv, OwnInv, QueueInv, EventInv, ScopeInv, NoDeadEvent, Kept

LEMMA EnterInv ==
  ASSUME IInv, NEW f \in {"wait", "test", "any", "all"}, NEW lo \in Cells, NEW hi \in Cells,
         f = "all" => lo = hi, Enter(f, lo, hi)
  PROVE  IInv'
<1> USE DEF IInv
<1>1. /\ UNCHANGED <<cell, handle, callbacks, repr, queue, finished, events, before, scope, runs, misuse>>
      /\ call.stage = "idle" /\ lo <= hi /\ call' = Polling(f, lo, hi)
      /\ \A r \in lo .. hi : Kept(r)
  BY DEF Enter, Free, objects, device, Kept
<1>2. lo \in Nat /\ hi \in Nat /\ hi - lo + 1 \in Int /\ (lo = hi => hi - lo + 1 = 1)
  BY NcclRequestAssumption DEF Cells
<1>3. /\ call' \in CallType /\ call'.stage = "poll" /\ call'.fn = f /\ call'.lo = lo
      /\ call'.hi = hi /\ call'.at = lo /\ call'.pos = 1 /\ call'.remaining = hi - lo + 1
  BY <1>1, <1>2 DEF Polling, CallType
<1>4. CursorOK' /\ CallInv'
  BY <1>1, <1>2, <1>3 DEF CursorOK, CallInv, Kept
<1>5. TypeOK'
  BY <1>1, <1>3, <1>4 DEF TypeOK
<1>6. /\ OwnInv' /\ QueueInv' /\ EventInv' /\ ScopeInv' /\ NoDeadEvent'
      /\ \A o : Started(o)' <=> Started(o)
  BY <1>1, Frame
<1>7. ListInv'
  BY <1>1 DEF ListInv
<1>8. RunInv'
  <2>1. \A r, k : ~ Passed(r, k) /\ ~ Passed(r, k)'
    BY <1>1, <1>3 DEF Passed
  <2>2. QED
    BY <1>1, <1>6, <2>1 DEF RunInv
<1>9. QED
  BY <1>4, <1>5, <1>6, <1>7, <1>8

(* Inside a call the cursor stands on an object that has an event.         *)
LEMMA CursorFacts ==
  ASSUME IInv, call.stage # "idle"
  PROVE  /\ call.at \in Cells /\ call.lo \in Cells /\ call.hi \in Cells /\ call.at \in Nat
         /\ call.lo <= call.at /\ call.at <= call.hi
         /\ Kept(call.at) /\ handle[call.at] \in events /\ repr[call.at] \in Ops
         /\ \A r \in call.lo .. call.hi : r \in Cells
<1>1. /\ call.at \in Cells /\ call.lo \in Cells /\ call.hi \in Cells
      /\ call.lo <= call.at /\ call.at <= call.hi
  BY DEF IInv, TypeOK, CursorOK
<1>2. \A r \in call.lo .. call.hi : r \in Cells
  BY <1>1, NcclRequestAssumption DEF Cells
<1>3. call.at \in call.lo .. call.hi /\ call.at \in Nat
  BY <1>1 DEF Cells
<1>4. Kept(call.at)
  BY <1>3 DEF IInv, CallInv
<1>5. QED
  BY <1>1, <1>2, <1>3, <1>4 DEF IInv, OwnInv

LEMMA NoError == ASSUME IInv PROVE ~ QueryError
BY CursorFacts DEF QueryError, Polled

LEMMA ReadyInv == ASSUME IInv, QueryReady PROVE IInv'
<1> USE DEF IInv
<1>1. /\ UNCHANGED <<cell, handle, callbacks, repr, queue, finished, events, before, scope, runs, misuse>>
      /\ call.stage = "poll" /\ call' = [call EXCEPT !.stage = "run"]
      /\ before[handle[call.at]] = {}
  BY DEF QueryReady, Reached, Polled, objects, device
<1>2. call \in CallType
  BY DEF TypeOK
<1>3. /\ call' \in CallType /\ call'.stage = "run" /\ call'.fn = call.fn /\ call'.lo = call.lo
      /\ call'.hi = call.hi /\ call'.at = call.at /\ call'.pos = call.pos
      /\ call'.remaining = call.remaining
  BY <1>1, <1>2 DEF CallType
<1>4. call.at \in Cells /\ Kept(call.at) /\ call.pos = 1
  BY <1>1, CursorFacts DEF CallInv
<1>5. repr[call.at] \in finished
  BY <1>1, <1>4 DEF EventInv
<1>6. CursorOK' /\ CallInv'
  <2>1. Len(callbacks[call.at]) \in Nat
    BY <1>4, LenProperties DEF TypeOK
  <2>2. CursorOK'
    BY <1>1, <1>3, <1>4, <2>1 DEF CursorOK, TypeOK
  <2>3. CallInv'
    BY <1>1, <1>3, <1>5 DEF CallInv, Kept
  <2>4. QED
    BY <2>2, <2>3
<1>7. TypeOK'
  BY <1>1, <1>3, <1>6 DEF TypeOK
<1>8. /\ OwnInv' /\ QueueInv' /\ EventInv' /\ ScopeInv' /\ NoDeadEvent'
      /\ \A o : Started(o)' <=> Started(o)
  BY <1>1, Frame
<1>9. ListInv'
  BY <1>1 DEF ListInv
<1>10. RunInv'
  <2>1. \A r, k : ~ Passed(r, k) /\ ~ Passed(r, k)'
    BY <1>1, <1>3, <1>4 DEF Passed
  <2>2. QED
    BY <1>1, <1>8, <2>1 DEF RunInv
<1>11. QED
  BY <1>6, <1>7, <1>8, <1>9, <1>10

(* The next turn of a loop stays inside the span.                          *)
LEMMA OnwardFacts ==
  ASSUME TypeOK, call.stage # "idle"
  PROVE  /\ Onward \in CallType /\ Onward.stage = "poll" /\ Onward.pos = 1
         /\ Onward.fn = call.fn /\ Onward.lo = call.lo /\ Onward.hi = call.hi
         /\ Onward.remaining = call.remaining
         /\ Onward.at \in Cells /\ call.lo <= Onward.at /\ Onward.at <= call.hi
<1> DEFINE next == IF call.at < call.hi THEN call.at + 1 ELSE call.lo
<1>1. call \in CallType
  BY DEF TypeOK
<1>2. next \in Cells /\ next \in Nat /\ call.lo <= next /\ next <= call.hi
  BY NcclRequestAssumption, SMTT(20) DEF TypeOK, CursorOK, Cells
<1>3. Onward = [call EXCEPT !.stage = "poll", !.pos = 1, !.at = next]
  BY DEF Onward
<1> HIDE DEF next
<1>4. [call EXCEPT !.stage = "poll", !.pos = 1, !.at = next] \in CallType
  <2>1. \A c \in CallType : [c EXCEPT !.stage = "poll"] \in CallType
    BY DEF CallType
  <2>2. \A c \in CallType : [c EXCEPT !.pos = 1] \in CallType
    BY DEF CallType
  <2>3. \A c \in CallType : [c EXCEPT !.at = next] \in CallType
    BY <1>2 DEF CallType
  <2>4. [call EXCEPT !.stage = "poll", !.pos = 1, !.at = next]
          = [[[call EXCEPT !.stage = "poll"] EXCEPT !.pos = 1] EXCEPT !.at = next]
    BY Zenon
  <2>5. QED
    BY <1>1, <2>1, <2>2, <2>3, <2>4
<1>5. /\ Onward.stage = "poll" /\ Onward.pos = 1 /\ Onward.at = next /\ Onward.fn = call.fn
      /\ Onward.lo = call.lo /\ Onward.hi = call.hi /\ Onward.remaining = call.remaining
  BY <1>1, <1>3 DEF CallType
<1>6. QED
  BY <1>2, <1>3, <1>4, <1>5

LEMMA NotReadyInv == ASSUME IInv, QueryNotReady PROVE IInv'
<1> USE DEF IInv
<1>1. /\ UNCHANGED <<handle, callbacks, repr, queue, finished, events, before, scope, runs, misuse>>
      /\ call.stage = "poll"
  BY DEF QueryNotReady, device
<1>2. call \in CallType /\ cell \in [Cells -> {"none", "owner", "waited", "moved"}]
  BY DEF TypeOK
<1>3. cell' = cell /\ (call' = Idle \/ call' = Onward)
  <2>1. CASE call.fn = "all" /\ AllNext(call.remaining)
    <3>1. call.remaining = 1
      BY <1>1, <2>1 DEF CallInv
    <3>2. call' = [Onward EXCEPT !.remaining = call.remaining] /\ cell' = cell
      BY <2>1, <3>1 DEF AllNext
    <3>3. [Onward EXCEPT !.remaining = call.remaining] = Onward
      BY <1>1, OnwardFacts DEF CallType
    <3>4. QED
      BY <3>2, <3>3
  <2>2. CASE call.fn = "any" /\ call' = Onward /\ UNCHANGED cell
    BY <2>2
  <2>3. CASE call.fn = "test" /\ Return({})
    BY <1>2, <2>3 DEF Return
  <2>4. QED
    BY <2>1, <2>2, <2>3 DEF QueryNotReady
<1>4. call' \in CallType /\ call'.stage # "run" /\ CursorOK' /\ CallInv'
  <2>1. CASE call' = Idle
    BY <2>1 DEF Idle, CallType, CursorOK, CallInv
  <2>2. CASE call' = Onward
    BY <1>1, <1>3, <2>2, OnwardFacts, CursorFacts DEF CursorOK, CallInv, Kept
  <2>3. QED
    BY <1>3, <2>1, <2>2
<1>5. TypeOK'
  BY <1>1, <1>3, <1>4 DEF TypeOK
<1>6. /\ OwnInv' /\ QueueInv' /\ EventInv' /\ ScopeInv' /\ NoDeadEvent'
      /\ \A o : Started(o)' <=> Started(o)
  BY <1>1, <1>3, Frame
<1>7. ListInv'
  BY <1>1, <1>3 DEF ListInv
<1>8. RunInv'
  <2>1. \A r, k : ~ Passed(r, k) /\ ~ Passed(r, k)'
    BY <1>1, <1>4 DEF Passed
  <2>2. QED
    BY <1>1, <1>3, <1>6, <2>1 DEF RunInv
<1>9. QED
  BY <1>4, <1>5, <1>6, <1>7, <1>8

LEMMA CallbackInv == ASSUME IInv, RunCallback PROVE IInv'
<1> USE DEF IInv
<1>1. PICK r \in Cells, o \in Ops : r = call.at /\ o = repr[r] /\ Kept(r) /\ call.stage = "run"
  BY CursorFacts DEF RunCallback
<1>2. PICK l \in Seq(Kinds) : l = callbacks[r]
  BY DEF TypeOK
<1>3. PICK p \in Nat \ {0} : p = call.pos
  BY DEF TypeOK, CallType
<1>4. p <= Len(l)
  BY <1>1, <1>2, <1>3 DEF RunCallback
<1>5. PICK k \in Kinds : k = l[p]
  BY <1>4
<1>6. /\ UNCHANGED <<cell, handle, callbacks, repr, queue, finished, events, before, scope, misuse>>
      /\ runs' = [runs EXCEPT ![o][k] = runs[o][k] + 1]
      /\ call' = [call EXCEPT !.pos = p + 1]
  BY <1>1, <1>2, <1>3, <1>5 DEF RunCallback, objects, device
<1>7. cell[r] = "owner"
  <2>1. cell[r] # "waited"
    BY <1>2, <1>4 DEF ListInv
  <2>2. QED
    BY <1>1, <2>1 DEF OwnInv, Kept, TypeOK
<1>8. Increasing(l) /\ o \in finished
  BY <1>1, <1>2, <1>7 DEF ListInv, CallInv
<1>9. \A i \in 1 .. p - 1 : l[i] # k
  <2>1. Rank[k] \in Int
    BY DEF Kinds, Rank
  <2>2. \A i \in 1 .. p - 1 : Rank[l[i]] < Rank[k]
    BY <1>4, <1>5, <1>8 DEF Increasing
  <2>3. QED
    BY <2>1, <2>2
<1>10. ~ Passed(r, k)
  BY <1>1, <1>2, <1>3, <1>9 DEF Passed
<1>11. runs[o][k] = 0
  BY <1>1, <1>7, <1>10 DEF RunInv
<1>12. /\ runs' \in [Ops -> [Kinds -> Nat]] /\ runs'[o][k] = 1
       /\ \A u \in Ops, c \in Kinds : u # o \/ c # k => runs'[u][c] = runs[u][c]
  BY <1>6, <1>11 DEF TypeOK
<1>13. /\ call' \in CallType /\ call'.stage = "run" /\ call'.fn = call.fn /\ call'.lo = call.lo
       /\ call'.hi = call.hi /\ call'.at = r /\ call'.pos = p + 1
       /\ call'.remaining = call.remaining
  <2>1. call \in CallType
    BY DEF TypeOK
  <2>2. QED
    BY <1>1, <1>6, <2>1, SMTT(20) DEF CallType
<1>14. CursorOK' /\ CallInv'
  BY <1>1, <1>2, <1>4, <1>6, <1>8, <1>13 DEF CursorOK, CallInv, Kept, TypeOK
<1>15. TypeOK'
  BY <1>6, <1>12, <1>13, <1>14 DEF TypeOK
<1>16. /\ OwnInv' /\ QueueInv' /\ EventInv' /\ ScopeInv' /\ NoDeadEvent'
       /\ \A u : Started(u)' <=> Started(u)
  BY <1>6, Frame
<1>17. ListInv'
  BY <1>6 DEF ListInv
<1>18. RunInv'
  <2>1. Started(o)
    BY <1>8, StartedFacts
  <2>2. \A u \in Ops, c \in Kinds : runs'[u][c] \in {0, 1} /\ (~ Started(u)' => runs'[u][c] = 0)
    BY <1>12, <1>16, <2>1, SMTT(20) DEF RunInv
  <2>3. ASSUME NEW q \in Cells, Kept(q), q # r PROVE repr[q] \in Ops /\ repr[q] # o
    BY <1>1, <2>3 DEF OwnInv
  <2>4. ASSUME NEW q \in Cells, cell[q] = "owner", NEW c \in Kinds
        PROVE runs'[repr[q]][c] = 1 <=> Passed(q, c)'
    <3>1. CASE q = r
      <4>1. Passed(r, c)' <=> Passed(r, c) \/ c = k
        <5>1. Passed(r, c) <=> \E i \in 1 .. p - 1 : l[i] = c
          BY <1>1, <1>2, <1>3 DEF Passed
        <5>2. Passed(r, c)' <=> \E i \in 1 .. p : l[i] = c
          BY <1>2, <1>6, <1>13 DEF Passed
        <5>3. \A i : i \in 1 .. p <=> i \in 1 .. p - 1 \/ i = p
          OBVIOUS
        <5>4. QED
          BY <1>5, <5>1, <5>2, <5>3
      <4>2. runs[o][c] = 1 <=> Passed(r, c)
        BY <1>1, <1>7 DEF RunInv
      <4>3. QED
        BY <1>1, <1>12, <3>1, <4>1, <4>2
    <3>2. CASE q # r
      <4>1. repr[q] \in Ops /\ repr[q] # o
        BY <2>3, <2>4, <3>2 DEF Kept
      <4>2. ~ Passed(q, c) /\ ~ Passed(q, c)'
        BY <1>1, <1>13, <3>2 DEF Passed
      <4>3. QED
        BY <1>12, <2>4, <4>1, <4>2 DEF RunInv
    <3>3. QED
      BY <3>1, <3>2
  <2>5. ASSUME NEW q \in Cells, cell[q] = "waited", NEW c \in Kinds
        PROVE runs'[repr[q]][c] = runs[repr[q]][c]
    <3>1. Kept(q) /\ q # r
      BY <1>7, <2>5 DEF Kept
    <3>2. QED
      BY <1>12, <2>3, <3>1
  <2>6. QED
    BY <1>6, <2>2, <2>4, <2>5 DEF RunInv
<1>19. QED
  BY <1>14, <1>15, <1>16, <1>17, <1>18

LEMMA ClearInv == ASSUME IInv, ClearCallbacks PROVE IInv'
<1> USE DEF IInv
<1>1. PICK r \in Cells : /\ r = call.at /\ Kept(r) /\ call.stage = "run"
                        /\ call.lo <= r /\ r <= call.hi /\ r \in Nat
  BY CursorFacts DEF ClearCallbacks
<1>2. PICK l \in Seq(Kinds) : l = callbacks[r]
  BY DEF TypeOK
<1>3. /\ call.pos = Len(l) + 1
      /\ callbacks' = [callbacks EXCEPT ![r] = <<>>]
      /\ UNCHANGED <<handle, repr, queue, finished, events, before, scope, runs, misuse>>
  BY <1>1, <1>2 DEF ClearCallbacks, device
<1>4. call' = Idle /\ cell' = [q \in Cells |-> IF q = r THEN "waited" ELSE cell[q]]
  <2>1. CASE call.fn = "all"
    <3>1. call.lo = r /\ call.hi = r /\ call.remaining = 1
      BY <1>1, <2>1 DEF CallInv, TypeOK, CallType
    <3>2. call.lo .. call.hi = {r}
      BY <1>1, <3>1
    <3>3. Return({r})
      BY <1>1, <2>1, <3>1, <3>2 DEF ClearCallbacks, AllNext
    <3>4. QED
      BY <3>3 DEF Return
  <2>2. CASE call.fn # "all"
    BY <1>1, <2>2 DEF ClearCallbacks, Return
  <2>3. QED
    BY <2>1, <2>2
<1>5. /\ cell'[r] = "waited" /\ callbacks'[r] = <<>>
      /\ \A q \in Cells : q # r => cell'[q] = cell[q] /\ callbacks'[q] = callbacks[q]
      /\ \A q \in Cells : Kept(q)' <=> Kept(q)
  BY <1>1, <1>3, <1>4 DEF TypeOK, Kept
<1>6. repr[r] \in finished /\ repr[r] \in Ops
  BY <1>1 DEF CallInv, OwnInv
<1>7. /\ cell' \in [Cells -> {"none", "owner", "waited", "moved"}]
      /\ callbacks' \in [Cells -> Seq(Kinds)]
  BY <1>3, <1>4 DEF TypeOK
<1>8. call' \in CallType /\ call'.stage = "idle" /\ CursorOK' /\ CallInv'
  BY <1>4 DEF Idle, CallType, CursorOK, CallInv
<1>9. TypeOK' /\ NoDeadEvent' /\ ScopeInv'
  BY <1>3, <1>5, <1>7, <1>8 DEF TypeOK, NoDeadEvent, ScopeInv
<1>10. \A o : Started(o)' <=> Started(o)
  BY <1>3, SameStarted
<1>11. OwnInv' /\ EventInv'
  <2>1. EventInv'
    BY <1>3, <1>5 DEF EventInv
  <2>2. OwnInv'
    BY <1>3, <1>5, <1>10 DEF OwnInv
  <2>3. QED
    BY <2>1, <2>2
<1>12. QueueInv'
  BY <1>3, <1>5, <1>6 DEF QueueInv
<1>13. ListInv'
  BY <1>3, <1>5 DEF ListInv
<1>14. \A q, k : ~ Passed(q, k)' /\ (Passed(q, k) => q = r)
  BY <1>1, <1>8 DEF Passed
<1>15. \A k \in Kinds \ {"user"} : runs[repr[r]][k] = 1 <=> k \in RegSet(repr[r])
  <2>1. CASE cell[r] = "owner"
    <3>1. ASSUME NEW k \in Kinds \ {"user"} PROVE Passed(r, k) <=> Has(l, k)
      <4>1. Len(l) \in Nat /\ call.pos - 1 = Len(l)
        BY <1>3
      <4>2. QED
        BY <1>1, <1>2, <4>1 DEF Passed, Has
    <3>2. \A k \in Kinds \ {"user"} : Has(l, k) <=> k \in RegSet(repr[r])
      BY <1>2, <2>1 DEF ListInv
    <3>3. QED
      BY <2>1, <3>1, <3>2 DEF RunInv
  <2>2. CASE cell[r] = "waited"
    BY <2>2 DEF RunInv
  <2>3. cell[r] \in {"owner", "waited"}
    BY <1>1 DEF OwnInv, Kept, TypeOK
  <2>4. QED
    BY <2>1, <2>2, <2>3
<1>16. RunInv'
  <2>1. \A o \in Ops, k \in Kinds : runs'[o][k] \in {0, 1} /\ (~ Started(o)' => runs'[o][k] = 0)
    BY <1>3, <1>10 DEF RunInv
  <2>2. ASSUME NEW q \in Cells, cell'[q] = "owner", NEW k \in Kinds
        PROVE runs'[repr'[q]][k] = 1 <=> Passed(q, k)'
    BY <1>3, <1>5, <1>14, <2>2 DEF RunInv
  <2>3. ASSUME NEW q \in Cells, cell'[q] = "waited"
        PROVE /\ repr'[q] \in finished'
              /\ \A k \in Kinds \ {"user"} : runs'[repr'[q]][k] = 1 <=> k \in RegSet(repr'[q])
    <3>1. CASE q = r
      BY <1>3, <1>6, <1>15, <3>1
    <3>2. CASE q # r
      BY <1>3, <1>5, <2>3, <3>2 DEF RunInv
    <3>3. QED
      BY <3>1, <3>2
  <2>4. \A o : RegSet(o)' = RegSet(o)
    BY DEF RegSet
  <2>5. QED
    BY <2>1, <2>2, <2>3, <2>4 DEF RunInv
<1>17. QED
  BY <1>8, <1>9, <1>11, <1>12, <1>13, <1>16

-----------------------------------------------------------------------------
LEMMA NextInv ==
  ASSUME Beyond = {}, IInv, [Next]_vars PROVE IInv'
<1>1. CASE UNCHANGED vars
  <2>1. UNCHANGED <<cell, handle, callbacks, repr, queue, finished, events, before,
                    scope, call, runs, misuse>>
    BY <1>1 DEF vars, objects, device
  <2>2. /\ OwnInv' /\ QueueInv' /\ EventInv' /\ ScopeInv' /\ NoDeadEvent'
        /\ \A o : Started(o)' <=> Started(o)
    BY <2>1, Frame
  <2>3. TypeOK' /\ CallInv' /\ ListInv'
    BY <2>1 DEF IInv, TypeOK, CursorOK, CallInv, ListInv, Kept
  <2>4. RunInv'
    BY <2>1, <2>2 DEF IInv, RunInv, Passed
  <2>5. QED
    BY <2>2, <2>3, <2>4 DEF IInv
<1>2. CASE Program
  <2>1. ASSUME NEW lo \in Cells, NEW hi \in Cells, WaitAllCall(lo, hi) PROVE IInv'
    BY <2>1, EnterInv DEF WaitAllCall
  <2>2. ASSUME NEW lo \in Cells, NEW hi \in Cells, NEW f \in {"wait", "test", "any"},
               Enter(f, lo, hi)
        PROVE IInv'
    BY <2>2, EnterInv
  <2>3. ASSUME NEW s \in Cells, NEW d \in Cells, Move(s, d) PROVE FALSE
    BY <2>3 DEF Move
  <2>4. QED
    BY <1>2, <2>1, <2>2, <2>3, PostInv, AddInv, RecaptureInv, DestroyInv, DropInv
       DEF Program, MoveConstruct, MoveAssign
<1>3. CASE Inside
  BY <1>3, NoError, ReadyInv, NotReadyInv, CallbackInv, ClearInv DEF Inside
<1>4. CASE \E s \in Streams : StreamStep(s)
  BY <1>4, StreamInv
<1>5. QED
  BY <1>1, <1>2, <1>3, <1>4 DEF Next

(* A program that neither moves Requests nor waits for more than one in a  *)
(* wait_all keeps the inductive invariant, and with it the types, whatever *)
(* the streams do and in whatever order the program calls the library.     *)
THEOREM Invariance == ASSUME Beyond = {} PROVE Spec => []IInv
<1>1. IInv /\ [Next]_vars => IInv'
  BY NextInv
<1>2. QED
  BY InitInv, <1>1, PTL DEF Spec

(* What a stream still uses is held by the program or by a callback of the *)
(* Request that belongs to the operation.                                  *)
LEMMA Covered == ASSUME IInv PROVE BuffersOutliveOperation
<1> SUFFICES ASSUME NEW s \in Streams, NEW o \in Range(queue[s]), NEW b \in StreamUses(o)
             PROVE  <<o, b>> \in Allocated
  BY DEF BuffersOutliveOperation
<1>1. queue[s] \in Seq(Ops)
  BY DEF IInv, TypeOK
<1>2. o \in Ops /\ Has(queue[s], o)
  BY <1>1, RangeFacts DEF Has
<1>3. PICK r \in Cells : cell[r] = "owner" /\ repr[r] = o /\ o \notin finished
  BY <1>2 DEF IInv, QueueInv
<1>4. PICK l \in Seq(Kinds) : l = callbacks[r]
  BY DEF IInv, TypeOK
<1>5. ASSUME NEW k \in Kinds \ {"user"}, k \in RegSet(o), NEW v \in Bufs, v \in Captures(o, k)
      PROVE  <<o, v>> \in Allocated
  <2>1. Has(l, k)
    BY <1>3, <1>4, <1>5 DEF IInv, ListInv
  <2>2. k \in Range(callbacks[r])
    BY <1>4, <2>1, RangeFacts
  <2>3. <<o, v>> \in Ops \X Bufs /\ <<o, v>>[1] = o /\ <<o, v>>[2] = v
    BY <1>2
  <2>4. QED
    BY <1>3, <1>5, <2>2, <2>3 DEF Allocated
<1>6. \A k \in Kinds : k \in RegSet(o) <=>
        \/ k = "unpack" /\ PacksRecv(o)
        \/ k = "keep_psv" /\ PacksSend(o)
        \/ k = "keep_sv" /\ Call[o].managed /\ "sv" \in Views(o)
        \/ k = "keep_rv" /\ Call[o].managed /\ "rv" \in Views(o)
  BY <1>2, RegisteredFacts
<1>7. \/ b = "psv" /\ PacksSend(o)
      \/ b = "prv" /\ PacksRecv(o)
      \/ b \in {"sv", "rv"} /\ b \in Views(o)
  BY DEF StreamUses
<1>8. CASE b = "psv" /\ PacksSend(o)
  <2>1. "keep_psv" \in Kinds \ {"user"} /\ "psv" \in Bufs /\ "psv" \in Captures(o, "keep_psv")
    BY DEF Kinds, Bufs, Captures
  <2>2. QED
    BY <1>5, <1>6, <1>8, <2>1
<1>9. CASE b = "prv" /\ PacksRecv(o)
  <2>1. "unpack" \in Kinds \ {"user"} /\ "prv" \in Bufs /\ "prv" \in Captures(o, "unpack")
    BY DEF Kinds, Bufs, Captures
  <2>2. QED
    BY <1>5, <1>6, <1>9, <2>1
<1>10. CASE b \in {"sv", "rv"} /\ b \in Views(o) /\ Call[o].managed
  <2>1. /\ {"keep_sv", "keep_rv"} \subseteq Kinds \ {"user"} /\ {"sv", "rv"} \subseteq Bufs
        /\ "sv" \in Captures(o, "keep_sv") /\ "rv" \in Captures(o, "keep_rv")
    BY DEF Kinds, Bufs, Captures
  <2>2. QED
    BY <1>5, <1>6, <1>10, <2>1
<1>11. CASE b \in Views(o) /\ ~ Call[o].managed
  BY <1>2, <1>3, <1>11 DEF IInv, ScopeInv, Allocated
<1>12. QED
  BY <1>7, <1>8, <1>9, <1>10, <1>11

(* While a stream has still to read or write a buffer, its memory is held. *)
THEOREM BuffersSafe == ASSUME Beyond = {} PROVE Spec => []BuffersOutliveOperation
BY Invariance, Covered, PTL

(* CUDA is never given an event that has been destroyed.                   *)
THEOREM EventsAlive == ASSUME Beyond = {} PROVE Spec => []NoDeadEvent
<1>1. IInv => NoDeadEvent
  BY DEF IInv
<1>2. QED
  BY Invariance, <1>1, PTL

(* Every event has one Request that will destroy it: none is shared, none  *)
(* is leaked.                                                              *)
THEOREM EventsOwned == ASSUME Beyond = {} PROVE Spec => []OneOwner
<1>1. IInv => OneOwner
  BY DEF IInv, OwnInv, OneOwner, Kept
<1>2. QED
  BY Invariance, <1>1, PTL

(* When a completion call is back, the operation is finished and each      *)
(* callback it was started with has run exactly once.                      *)
THEOREM WaitDelivers == ASSUME Beyond = {} PROVE Spec => []WaitMeansDelivered
<1>1. ASSUME IInv PROVE WaitMeansDelivered
  <2>1. ASSUME NEW r \in Cells, cell[r] = "waited" PROVE repr[r] \in finished /\ Delivered(repr[r])
    <3>1. PICK o \in Ops : o = repr[r]
      BY <1>1, <2>1 DEF IInv, OwnInv, Kept
    <3>2. /\ o \in finished
          /\ \A k \in Kinds \ {"user"} : runs[o][k] \in {0, 1} /\ (runs[o][k] = 1 <=> k \in RegSet(o))
      BY <1>1, <2>1, <3>1 DEF IInv, RunInv
    <3>3. \A k \in Kinds : k \in Range(Registered(o)) <=> k \in RegSet(o)
      BY RegisteredFacts, RangeFacts DEF RegSet
    <3>4. QED
      BY <3>1, <3>2, <3>3 DEF Delivered
  <2>2. QED
    BY <2>1 DEF WaitMeansDelivered
<1>2. QED
  BY Invariance, <1>1, PTL

-----------------------------------------------------------------------------
(***************************************************************************)
(* The events, streams and callback lists implement RequestContract.       *)
(***************************************************************************)

(* What the contract sees of the callbacks that have run.                  *)
RunSets == [o \in Ops |-> {k \in Kinds : runs[o][k] > 0}]

(* No memory appears, and no operation or callback moves on.               *)
OnlyReleases == Phase' = Phase /\ RunSets' = RunSets /\ Allocated' \subseteq Allocated

-----------------------------------------------------------------------------
QueuedIsPending ==
  \A o \in Ops : Phase[o] = "pending" => \E s \in Streams : o \in Range(queue[s])

LEMMA QueuedLemma == ASSUME IInv PROVE QueuedIsPending
BY DEF QueuedIsPending, Phase, Started

(* What the objects keep is kept afterwards only by an object that kept it *)
(* before.                                                                 *)
LEMMA AllocatedShrinks ==
  ASSUME scope' \subseteq scope,
         \A r \in Cells : repr'[r] = NoOp \/ repr'[r] = repr[r],
         \A r \in Cells, o \in Ops : repr'[r] = o =>
           \A k \in Range(callbacks'[r]) : Captures(o, k) = {} \/ k \in Range(callbacks[r])
  PROVE  Allocated' \subseteq Allocated
<1> SUFFICES ASSUME NEW b \in Ops \X Bufs, b \in Allocated', b \notin scope'
             PROVE  b \in Allocated
  BY DEF Allocated
<1>1. PICK r \in Cells : repr'[r] = b[1] /\ \E k \in Range(callbacks'[r]) : b[2] \in Captures(b[1], k)
  BY DEF Allocated
<1>2. PICK k \in Range(callbacks'[r]) : b[2] \in Captures(b[1], k)
  BY <1>1
<1>3. b[1] \in Ops /\ b[1] # NoOp
  BY NcclRequestAssumption
<1>4. repr[r] = b[1] /\ k \in Range(callbacks[r])
  BY <1>1, <1>2, <1>3
<1>5. QED
  BY <1>2, <1>4 DEF Allocated

(* A step that only releases is one of the contract, because what pending  *)
(* operations use is allocated afterwards too.                             *)
LEMMA ReleaseStep == ASSUME IInv, IInv', OnlyReleases PROVE Contract!Release
<1>1. BuffersOutliveOperation'
  BY Covered, PTL
<1>2. ASSUME NEW o \in Ops, Phase[o] = "pending"
      PROVE  {o} \X StreamUses(o) \subseteq Allocated'
  <2>1. Phase'[o] = "pending"
    BY <1>2 DEF OnlyReleases
  <2>2. QueuedIsPending'
    BY QueuedLemma, PTL
  <2>3. PICK s \in Streams : o \in Range(queue'[s])
    BY <2>1, <2>2 DEF QueuedIsPending
  <2>4. QED
    BY <1>1, <2>3 DEF BuffersOutliveOperation
<1>3. QED
  BY <1>2 DEF OnlyReleases, RunSets, Contract!Release

LEMMA SamePhase ==
  ASSUME UNCHANGED <<queue, finished>> PROVE Phase' = Phase
BY SameStarted DEF Phase

-----------------------------------------------------------------------------
(* One lemma for each kind of step.                                        *)
LEMMA PostStep ==
  ASSUME IInv, IInv', NEW o \in Ops, NEW r \in Cells, Post(o, r)
  PROVE  Contract!Post(o)
<1>1. PICK s \in Streams : s = Call[o].stream
  BY NcclRequestAssumption DEF Calls
<1>2. /\ queue' = [queue EXCEPT ![s] = Append(queue[s], o)]
      /\ callbacks' = [callbacks EXCEPT ![r] = Registered(o)]
      /\ repr' = [repr EXCEPT ![r] = o]
      /\ scope' = scope /\ runs' = runs /\ finished' = finished
      /\ ~ Started(o) /\ cell[r] = "none"
  BY <1>1 DEF Post
<1>3. queue[s] \in Seq(Ops) /\ queue' \in [Streams -> Seq(Ops)] /\ queue'[s] = Append(queue[s], o)
      /\ \A t \in Streams : t # s => queue'[t] = queue[t]
  BY <1>2 DEF IInv, TypeOK
<1>4. \A y : Has(Append(queue[s], o), y) <=> Has(queue[s], y) \/ y = o
  BY <1>3, AppendFacts
<1>5. \A p : Started(p)' <=> Started(p) \/ p = o
  <2>1. \A p : Started(p)' <=> p \in finished' \/ \E t \in Streams : Has(queue'[t], p)
    BY StartedNext DEF IInv
  <2>2. \A p : Started(p) <=> p \in finished \/ \E t \in Streams : Has(queue[t], p)
    BY StartedFacts DEF IInv
  <2>3. QED
    BY <1>2, <1>3, <1>4, <2>1, <2>2
<1>6. o \notin finished
  BY <1>2 DEF Started
<1>7. Phase[o] = "idle" /\ Phase' = [Phase EXCEPT ![o] = "pending"]
  BY <1>2, <1>5, <1>6 DEF Phase
<1>8. Allocated \subseteq Allocated'
  <2> SUFFICES ASSUME NEW b \in Ops \X Bufs, b \in Allocated, b \notin scope
               PROVE  b \in Allocated'
    BY <1>2 DEF Allocated, IInv, TypeOK
  <2>1. PICK q \in Cells : /\ repr[q] = b[1]
                           /\ \E k \in Range(callbacks[q]) : b[2] \in Captures(b[1], k)
    BY DEF Allocated
  <2>2. repr[r] = NoOp
    BY <1>2 DEF IInv, OwnInv
  <2>3. q # r
    BY <2>1, <2>2, NcclRequestAssumption
  <2>4. repr'[q] = repr[q] /\ callbacks'[q] = callbacks[q]
    BY <1>2, <2>3 DEF IInv, TypeOK
  <2>5. QED
    BY <2>1, <2>4 DEF Allocated
<1>9. {o} \X StreamUses(o) \subseteq Allocated'
  <2>1. BuffersOutliveOperation'
    BY Covered, PTL
  <2>2. Has(queue'[s], o) /\ queue'[s] \in Seq(Ops)
    BY <1>3, <1>4
  <2>3. o \in Range(queue'[s])
    BY <2>2, RangeFacts
  <2>4. QED
    BY <2>1, <2>3 DEF BuffersOutliveOperation
<1>10. RunSets' = RunSets
  BY <1>2 DEF RunSets
<1>11. QED
  BY <1>7, <1>8, <1>9, <1>10 DEF RunSets, Contract!Post

LEMMA FinishStep ==
  ASSUME IInv, IInv', NEW s \in Streams, StreamStep(s)
  PROVE  \E o \in Ops : Contract!Finish(o)
<1>1. queue[s] \in Seq(Ops) /\ queue[s] # <<>>
  BY DEF IInv, TypeOK, StreamStep
<1>2. PICK h \in Ops : h = Head(queue[s])
  BY <1>1, TailFacts
<1>3. /\ finished' = finished \union {h}
      /\ queue' = [queue EXCEPT ![s] = Tail(queue[s])]
      /\ UNCHANGED <<repr, callbacks, scope, runs>>
  BY <1>2 DEF StreamStep, objects
<1>4. \A x : Has(queue[s], x) <=> x = h \/ Has(Tail(queue[s]), x)
  BY <1>1, <1>2, TailFacts
<1>5. queue'[s] = Tail(queue[s]) /\ \A t \in Streams : t # s => queue'[t] = queue[t]
  BY <1>3 DEF IInv, TypeOK
<1>6. \A p : Started(p)' <=> Started(p)
  <2>1. \A p : Started(p)' <=> p \in finished' \/ \E t \in Streams : Has(queue'[t], p)
    BY StartedNext DEF IInv
  <2>2. \A p : Started(p) <=> p \in finished \/ \E t \in Streams : Has(queue[t], p)
    BY StartedFacts DEF IInv
  <2>3. QED
    BY <1>3, <1>4, <1>5, <2>1, <2>2
<1>7. h \notin finished /\ Started(h)
  <2>1. Has(queue[s], h)
    BY <1>4
  <2>2. QED
    BY <2>1, StartedFacts DEF IInv, QueueInv
<1>8. Phase[h] = "pending" /\ Phase' = [Phase EXCEPT ![h] = "over"]
  BY <1>3, <1>6, <1>7 DEF Phase
<1>9. Allocated' = Allocated /\ RunSets' = RunSets
  BY <1>3 DEF Allocated, RunSets
<1>10. QED
  BY <1>8, <1>9 DEF RunSets, Contract!Finish

LEMMA RunStep ==
  ASSUME IInv, RunCallback
  PROVE  \E o \in Ops, k \in Kinds : Contract!Run(o, k)
<1>1. PICK r \in Cells, o \in Ops : r = call.at /\ o = repr[r] /\ Kept(r) /\ call.stage = "run"
  BY CursorFacts DEF RunCallback
<1>2. PICK l \in Seq(Kinds) : l = callbacks[r]
  BY DEF IInv, TypeOK
<1>3. PICK p \in Nat \ {0} : p = call.pos
  BY DEF IInv, TypeOK, CallType
<1>4. p <= Len(l)
  BY <1>1, <1>2, <1>3 DEF RunCallback
<1>5. PICK k \in Kinds : k = l[p]
  BY <1>4
<1>6. /\ UNCHANGED <<repr, callbacks, queue, finished, scope>>
      /\ runs' = [runs EXCEPT ![o][k] = runs[o][k] + 1]
  BY <1>1, <1>2, <1>3, <1>5 DEF RunCallback, objects, device
<1>7. cell[r] = "owner"
  <2>1. cell[r] # "waited"
    BY <1>2, <1>4 DEF IInv, ListInv
  <2>2. QED
    BY <1>1, <2>1 DEF IInv, OwnInv, Kept, TypeOK
<1>8. Increasing(l) /\ o \in finished
  BY <1>1, <1>2, <1>7 DEF IInv, ListInv, CallInv
<1>9. ~ Passed(r, k)
  <2>1. Rank[k] \in Int
    BY DEF Kinds, Rank
  <2>2. \A i \in 1 .. p - 1 : Rank[l[i]] < Rank[k]
    BY <1>4, <1>5, <1>8 DEF Increasing
  <2>3. \A i \in 1 .. p - 1 : l[i] # k
    BY <2>1, <2>2
  <2>4. QED
    BY <1>1, <1>2, <1>3, <2>3 DEF Passed
<1>10. runs[o][k] = 0
  BY <1>1, <1>7, <1>9 DEF IInv, RunInv
<1>11. Phase' = Phase /\ Allocated' = Allocated /\ Phase[o] = "over"
  BY <1>6, <1>8, SamePhase DEF Phase, Allocated
<1>12. RunSets' = [RunSets EXCEPT ![o] = @ \union {k}] /\ k \notin RunSets[o]
  <2>1. ASSUME NEW q \in Ops, NEW j \in Kinds
        PROVE  runs'[q][j] = IF q = o /\ j = k THEN 1 ELSE runs[q][j]
    BY <1>6, <1>10 DEF IInv, TypeOK
  <2>2. ASSUME NEW q \in Ops
        PROVE  {j \in Kinds : runs'[q][j] > 0} =
                 IF q = o THEN {j \in Kinds : runs[q][j] > 0} \union {k}
                 ELSE {j \in Kinds : runs[q][j] > 0}
    BY <2>1
  <2>3. \A q \in Ops : RunSets'[q] = IF q = o THEN RunSets[q] \union {k} ELSE RunSets[q]
    BY <2>2 DEF RunSets
  <2>4. RunSets = [q \in Ops |-> RunSets[q]] /\ RunSets' = [q \in Ops |-> RunSets'[q]]
    BY DEF RunSets
  <2>5. k \notin RunSets[o]
    BY <1>10 DEF RunSets
  <2>6. QED
    BY <2>3, <2>4, <2>5
<1>13. {o} \X TouchedBy(o, k) \subseteq Allocated
  <2>1. CASE k # "unpack"
    BY <2>1 DEF TouchedBy
  <2>2. CASE k = "unpack"
    <3>1. k \in Range(callbacks[r]) /\ Has(l, k)
      <4>1. Has(l, k)
        BY <1>3, <1>4, <1>5 DEF Has
      <4>2. QED
        BY <1>2, <4>1, RangeFacts
    <3>2. k \in RegSet(o)
      BY <1>1, <1>2, <1>7, <2>2, <3>1 DEF IInv, ListInv
    <3>3. PacksRecv(o) /\ "rv" \in Views(o)
      <4>1. PacksRecv(o)
        BY <2>2, <3>2, RegisteredFacts
      <4>2. QED
        BY <4>1 DEF PacksRecv, Views
    <3>4. ASSUME NEW v \in Bufs, v \in Captures(o, k) PROVE <<o, v>> \in Allocated
      <4>1. <<o, v>> \in Ops \X Bufs /\ <<o, v>>[1] = o /\ <<o, v>>[2] = v
        OBVIOUS
      <4>2. QED
        BY <1>1, <3>1, <3>4, <4>1 DEF Allocated
    <3>5. <<o, "prv">> \in Allocated
      BY <2>2, <3>4 DEF Captures, Bufs
    <3>6. <<o, "rv">> \in Allocated
      <4>1. CASE Call[o].managed
        BY <2>2, <3>4, <4>1 DEF Captures, Bufs
      <4>2. CASE ~ Call[o].managed
        BY <1>1, <1>7, <3>3, <4>2 DEF IInv, ScopeInv, Allocated
      <4>3. QED
        BY <4>1, <4>2
    <3>7. QED
      BY <2>2, <3>5, <3>6 DEF TouchedBy
  <2>3. QED
    BY <2>1, <2>2
<1>14. Contract!Run(o, k)
  BY <1>11, <1>12, <1>13 DEF RunSets, Contract!Run
<1>15. QED
  BY <1>14

(* The other steps only release memory, or nothing.                        *)
LEMMA ProgramStep ==
  ASSUME IInv, IInv', Beyond = {}, Program
  PROVE  (\E o \in Ops : Contract!Post(o)) \/ OnlyReleases
<1>1. ASSUME NEW r \in Cells, AddCallback(r) PROVE OnlyReleases
  <2>1. /\ callbacks' = [callbacks EXCEPT ![r] = Append(callbacks[r], "user")]
        /\ UNCHANGED <<repr, scope, runs, queue, finished>>
    BY <1>1 DEF AddCallback, device
  <2>2. "user" \in Kinds /\ callbacks[r] \in Seq(Kinds)
    BY DEF Kinds, IInv, TypeOK
  <2>3. /\ Append(callbacks[r], "user") \in Seq(Kinds)
        /\ \A k : Has(Append(callbacks[r], "user"), k) <=> Has(callbacks[r], k) \/ k = "user"
    BY <2>2, AppendFacts
  <2>4. /\ \A k : k \in Range(Append(callbacks[r], "user")) <=> Has(Append(callbacks[r], "user"), k)
        /\ \A k : k \in Range(callbacks[r]) <=> Has(callbacks[r], k)
    BY <2>2, <2>3, RangeFacts
  <2>5. \A o \in Ops : Captures(o, "user") = {}
    BY DEF Captures
  <2>6. \A q \in Cells : \/ callbacks'[q] = callbacks[q]
                         \/ q = r /\ callbacks'[q] = Append(callbacks[r], "user")
    <3>1. callbacks \in [Cells -> Seq(Kinds)]
      BY DEF IInv, TypeOK
    <3>2. \A q \in Cells : callbacks'[q] = IF q = r THEN Append(callbacks[r], "user") ELSE callbacks[q]
      BY <2>1, <3>1
    <3>3. QED
      BY <3>2, Zenon
  <2>7. \A q \in Cells, o \in Ops : repr'[q] = o =>
          \A k \in Range(callbacks'[q]) : Captures(o, k) = {} \/ k \in Range(callbacks[q])
    BY <2>3, <2>4, <2>5, <2>6
  <2>8. Allocated' \subseteq Allocated
    BY <2>1, <2>7, AllocatedShrinks
  <2>9. QED
    BY <2>1, <2>8, SamePhase DEF OnlyReleases, RunSets
<1>2. ASSUME NEW f, NEW lo \in Cells, NEW hi \in Cells, Enter(f, lo, hi) PROVE OnlyReleases
  <2>1. UNCHANGED <<repr, callbacks, scope, runs, queue, finished>>
    BY <1>2 DEF Enter, objects, device
  <2>2. QED
    BY <2>1, SamePhase DEF OnlyReleases, RunSets, Allocated
<1>3. ASSUME NEW r \in Cells, Recapture(r) PROVE OnlyReleases
  <2>1. UNCHANGED <<repr, callbacks, scope, runs, queue, finished>>
    BY <1>3 DEF Recapture
  <2>2. QED
    BY <2>1, SamePhase DEF OnlyReleases, RunSets, Allocated
<1>4. ASSUME NEW r \in Cells, Destroy(r) PROVE OnlyReleases
  <2>1. /\ callbacks' = [callbacks EXCEPT ![r] = <<>>] /\ repr' = [repr EXCEPT ![r] = NoOp]
        /\ UNCHANGED <<scope, runs, queue, finished>>
    BY <1>4 DEF Destroy
  <2>2. \A q \in Cells : \/ repr'[q] = NoOp
                         \/ repr'[q] = repr[q] /\ callbacks'[q] = callbacks[q]
    BY <2>1 DEF IInv, TypeOK
  <2>3. Allocated' \subseteq Allocated
    BY <2>1, <2>2, NcclRequestAssumption, AllocatedShrinks
  <2>4. QED
    BY <2>1, <2>3, SamePhase DEF OnlyReleases, RunSets
<1>5. ASSUME NEW b \in Ops \X Bufs, DropView(b) PROVE OnlyReleases
  <2>1. UNCHANGED <<repr, callbacks, runs, queue, finished>> /\ scope' \subseteq scope
    BY <1>5 DEF DropView, objects, device
  <2>2. QED
    BY <2>1, SamePhase DEF OnlyReleases, RunSets, Allocated
<1>6. ASSUME NEW s \in Cells, NEW d \in Cells, Move(s, d) PROVE FALSE
  BY <1>6 DEF Move
<1>7. QED
  BY <1>1, <1>2, <1>3, <1>4, <1>5, <1>6, PostStep
  DEF Program, WaitAllCall, MoveConstruct, MoveAssign

LEMMA InsideStep ==
  ASSUME IInv, Inside
  PROVE  (\E o \in Ops, k \in Kinds : Contract!Run(o, k)) \/ OnlyReleases
<1>1. CASE QueryReady \/ QueryNotReady
  <2>1. UNCHANGED <<repr, callbacks, scope, runs, queue, finished>>
    BY <1>1 DEF QueryReady, QueryNotReady, objects, device
  <2>2. QED
    BY <2>1, SamePhase DEF OnlyReleases, RunSets, Allocated
<1>2. CASE ClearCallbacks
  <2>1. /\ callbacks' = [callbacks EXCEPT ![call.at] = <<>>]
        /\ UNCHANGED <<repr, scope, runs, queue, finished>>
    BY <1>2 DEF ClearCallbacks, device
  <2>2. \A q \in Cells : callbacks'[q] = <<>> \/ callbacks'[q] = callbacks[q]
    BY <2>1 DEF IInv, TypeOK
  <2>3. Range(<<>>) = {}
    BY DEF Range
  <2>4. Allocated' \subseteq Allocated
    BY <2>1, <2>2, <2>3, AllocatedShrinks
  <2>5. QED
    BY <2>1, <2>4, SamePhase DEF OnlyReleases, RunSets
<1>3. QED
  BY <1>1, <1>2, NoError, RunStep DEF Inside

LEMMA NextStep ==
  ASSUME IInv, IInv', Beyond = {}, [Next]_vars
  PROVE  [Contract!Next]_(Contract!vars)
<1>1. CASE Program
  BY <1>1, ProgramStep, ReleaseStep DEF Contract!Next
<1>2. CASE Inside
  BY <1>2, InsideStep, ReleaseStep DEF Contract!Next
<1>3. CASE \E s \in Streams : StreamStep(s)
  BY <1>3, FinishStep DEF Contract!Next
<1>4. CASE UNCHANGED vars
  <2>1. UNCHANGED <<queue, finished, repr, callbacks, scope, runs>>
    BY <1>4 DEF vars, objects, device
  <2>2. QED
    BY <2>1, SamePhase DEF Contract!vars, Allocated
<1>5. QED
  BY <1>1, <1>2, <1>3, <1>4 DEF Next

LEMMA InitStep == Init => Contract!Init
<1> SUFFICES ASSUME Init PROVE Contract!Init
  OBVIOUS
<1>1. IInv /\ finished = {} /\ \A s \in Streams : queue[s] = <<>>
  BY InitInv DEF Init
<1>2. \A o \in Ops : ~ Started(o)
  BY <1>1 DEF Started, Range
<1>3. Phase = [o \in Ops |-> "idle"]
  BY <1>1, <1>2 DEF Phase
<1>4. RunSets = [o \in Ops |-> {}]
  BY DEF RunSets, Init
<1>5. Allocated \subseteq Ops \X Bufs
  BY <1>1 DEF Allocated, IInv, TypeOK
<1>6. QED
  BY <1>3, <1>4, <1>5 DEF RunSets, Contract!Init

(* The detailed specification implements the contract of a Request, the    *)
(* same that the Requests over MPI implement.                              *)
THEOREM Refinement == ASSUME Beyond = {} PROVE Spec => KeepsContract
<1>1. IInv /\ IInv' /\ [Next]_vars => [Contract!Next]_(Contract!vars)
  BY NextStep
<1>2. QED
  BY <1>1, Invariance, InitStep, PTL DEF Spec, KeepsContract, Contract!Spec

-----------------------------------------------------------------------------
(***************************************************************************)
(* Any Beyond: types, and that every callback runs at most once, although  *)
(* Requests then destroy each other's events and wait_all may be back too  *)
(* early.                                                                  *)
(***************************************************************************)

(* Does the object still stand for an operation?                           *)
Active(r) == cell[r] \in {"owner", "waited"}

(* Has the loop over the callbacks of r gone past the i-th?                *)
Behind(r, i) == call.stage = "run" /\ call.at = r /\ i < call.pos

HomeInv ==
  /\ \A r \in Cells : Active(r) => repr[r] \in Ops /\ Started(repr[r])
  /\ \A q, r \in Cells : Active(q) /\ Active(r) /\ repr[q] = repr[r] => q = r

LoopInv ==
  /\ call.stage # "run" => call.pos = 1
  /\ call.stage # "idle" => \A r \in call.lo .. call.hi : Active(r)

CountInv == \A o \in Ops, k \in Kinds : runs[o][k] \in {0, 1} /\ (~Started(o) => runs[o][k] = 0)

(* What stands in a list has not run, unless the loop is past it.          *)
AheadInv ==
  \A r \in Cells : Active(r) =>
    /\ Increasing(callbacks[r])
    /\ \A i \in 1 .. Len(callbacks[r]) : ~Behind(r, i) => runs[repr[r]][callbacks[r][i]] = 0

(* The program can still register a callback of its own only where it has  *)
(* not run one.                                                            *)
UserInv ==
  \A r \in Cells : cell[r] = "owner" /\ runs[repr[r]]["user"] # 0 =>
    /\ call.stage # "idle" /\ r \in call.lo .. call.hi
    /\ call.fn = "all" \/ (call.stage = "run" /\ call.at = r)

OnceInv == TypeOK /\ HomeInv /\ LoopInv /\ CountInv /\ AheadInv /\ UserInv

-----------------------------------------------------------------------------
LEMMA InitOnce == Init => OnceInv
<1> SUFFICES ASSUME Init PROVE OnceInv
  OBVIOUS
<1>1. TypeOK
  BY InitInv DEF IInv
<1>2. \A r \in Cells : ~ Active(r)
  BY DEF Init, Active
<1>3. HomeInv /\ LoopInv /\ CountInv /\ AheadInv /\ UserInv
  BY <1>2 DEF Init, Idle, Active, HomeInv, LoopInv, CountInv, AheadInv, UserInv
<1>4. QED
  BY <1>1, <1>3 DEF OnceInv

(* A step outside every call that touches neither streams nor counts.      *)
LEMMA Resting ==
  ASSUME OnceInv, call.stage = "idle", UNCHANGED <<queue, finished, call, runs>>
  PROVE  /\ LoopInv' /\ CursorOK' /\ CountInv'
         /\ \A r, i : ~ Behind(r, i) /\ ~ Behind(r, i)'
         /\ \A o : Started(o)' <=> Started(o)
<1>1. \A o : Started(o)' <=> Started(o)
  BY SameStarted
<1>2. QED
  BY <1>1 DEF OnceInv, LoopInv, CursorOK, CountInv, Behind

LEMMA PostOnce ==
  ASSUME OnceInv, NEW o \in Ops, NEW r \in Cells, Post(o, r) PROVE OnceInv'
<1> USE DEF OnceInv
<1>1. TypeOK'
  BY PostType
<1>2. PICK s \in Streams : s = Call[o].stream
  BY NcclRequestAssumption DEF Calls
<1>3. /\ queue' = [queue EXCEPT ![s] = Append(queue[s], o)]
      /\ callbacks' = [callbacks EXCEPT ![r] = Registered(o)]
      /\ cell' = [cell EXCEPT ![r] = "owner"]
      /\ repr' = [repr EXCEPT ![r] = o]
      /\ UNCHANGED <<finished, call, runs>>
      /\ call.stage = "idle" /\ ~ Started(o) /\ cell[r] = "none"
  BY <1>2 DEF Post, Free
<1>4. queue[s] \in Seq(Ops)
  BY DEF TypeOK
<1>5. \A y : Has(Append(queue[s], o), y) <=> Has(queue[s], y) \/ y = o
  BY <1>4, AppendFacts
<1>6. queue'[s] = Append(queue[s], o) /\ \A t \in Streams : t # s => queue'[t] = queue[t]
  BY <1>3 DEF TypeOK
<1>7. \A p : Started(p)' <=> Started(p) \/ p = o
  <2>1. \A p : Started(p)' <=> p \in finished' \/ \E t \in Streams : Has(queue'[t], p)
    BY <1>1, StartedNext
  <2>2. QED
    BY <1>3, <1>5, <1>6, <2>1, StartedFacts
<1>8. /\ cell'[r] = "owner" /\ repr'[r] = o /\ callbacks'[r] = Registered(o)
      /\ \A q \in Cells : q # r => /\ cell'[q] = cell[q] /\ repr'[q] = repr[q]
                                   /\ callbacks'[q] = callbacks[q]
  BY <1>3 DEF TypeOK
<1>9. HomeInv'
  BY <1>3, <1>7, <1>8 DEF HomeInv, Active
<1>10. LoopInv' /\ \A q, i : ~ Behind(q, i) /\ ~ Behind(q, i)'
  BY <1>3 DEF LoopInv, Behind
<1>11. CountInv'
  BY <1>3, <1>7 DEF CountInv
<1>12. AheadInv'
  <2>1. Registered(o) \in Seq(Kinds) /\ Increasing(Registered(o))
    BY RegisteredFacts
  <2>2. \A k \in Kinds : runs[o][k] = 0
    BY <1>3 DEF CountInv
  <2>3. \A i \in 1 .. Len(Registered(o)) : runs[o][Registered(o)[i]] = 0
    BY <2>1, <2>2
  <2>4. QED
    BY <1>3, <1>8, <1>10, <2>1, <2>3 DEF AheadInv, Active
<1>13. UserInv'
  <2>1. runs[o]["user"] = 0
    BY <1>3 DEF CountInv, Kinds
  <2>2. QED
    BY <1>3, <1>8, <2>1 DEF UserInv
<1>14. QED
  BY <1>1, <1>9, <1>10, <1>11, <1>12, <1>13

LEMMA StreamOnce ==
  ASSUME OnceInv, NEW s \in Streams, StreamStep(s) PROVE OnceInv'
<1> USE DEF OnceInv
<1>1. TypeOK'
  BY StreamType
<1>2. queue[s] \in Seq(Ops) /\ queue[s] # <<>>
  BY DEF TypeOK, StreamStep
<1>3. /\ finished' = finished \union {Head(queue[s])}
      /\ queue' = [queue EXCEPT ![s] = Tail(queue[s])]
      /\ UNCHANGED <<cell, callbacks, repr, call, runs>>
  BY DEF StreamStep, objects
<1>4. \A x : Has(queue[s], x) <=> x = Head(queue[s]) \/ Has(Tail(queue[s]), x)
  BY <1>2, TailFacts
<1>5. queue'[s] = Tail(queue[s]) /\ \A t \in Streams : t # s => queue'[t] = queue[t]
  BY <1>3 DEF TypeOK
<1>6. \A p : Started(p)' <=> Started(p)
  <2>1. \A p : Started(p)' <=> p \in finished' \/ \E t \in Streams : Has(queue'[t], p)
    BY <1>1, StartedNext
  <2>2. QED
    BY <1>3, <1>4, <1>5, <2>1, StartedFacts
<1>7. HomeInv' /\ LoopInv' /\ CountInv'
  BY <1>3, <1>6 DEF HomeInv, LoopInv, CountInv, Active
<1>8. AheadInv' /\ UserInv'
  BY <1>3 DEF AheadInv, UserInv, Active, Behind
<1>9. QED
  BY <1>1, <1>7, <1>8

LEMMA AddOnce ==
  ASSUME OnceInv, NEW r \in Cells, AddCallback(r) PROVE OnceInv'
<1> USE DEF OnceInv
<1>1. /\ UNCHANGED <<cell, handle, repr, queue, finished, events, before, scope, call, runs, misuse>>
      /\ call.stage = "idle" /\ cell[r] = "owner"
      /\ callbacks' = [callbacks EXCEPT ![r] = Append(callbacks[r], "user")]
      /\ \A i \in DOMAIN callbacks[r] : callbacks[r][i] # "user"
  BY DEF AddCallback, Free, device
<1>2. PICK l \in Seq(Kinds) : l = callbacks[r]
  BY DEF TypeOK
<1>3. /\ callbacks'[r] = Append(l, "user") /\ Append(l, "user") \in Seq(Kinds)
      /\ \A q \in Cells : q # r => callbacks'[q] = callbacks[q]
  <2>1. "user" \in Kinds
    BY DEF Kinds
  <2>2. QED
    BY <1>1, <1>2, <2>1, AppendFacts DEF TypeOK
<1>4. /\ LoopInv' /\ CursorOK' /\ CountInv'
      /\ \A q, i : ~ Behind(q, i) /\ ~ Behind(q, i)'
      /\ \A o : Started(o)' <=> Started(o)
  BY <1>1, Resting
<1>5. TypeOK'
  BY <1>1, <1>2, <1>3, <1>4 DEF TypeOK
<1>6. HomeInv' /\ UserInv'
  BY <1>1, <1>4 DEF HomeInv, UserInv, Active
<1>7. AheadInv'
  <2>1. Increasing(l) /\ \A i \in 1 .. Len(l) : runs[repr[r]][l[i]] = 0
    BY <1>1, <1>2, <1>4 DEF AheadInv, Active
  <2>2. Increasing(Append(l, "user"))
    BY <1>1, <1>2, <2>1, UserFacts
  <2>3. runs[repr[r]]["user"] = 0
    BY <1>1 DEF UserInv
  <2>4. ASSUME NEW i \in 1 .. Len(Append(l, "user"))
        PROVE runs[repr[r]][Append(l, "user")[i]] = 0
    <3>1. /\ Len(Append(l, "user")) = Len(l) + 1 /\ Append(l, "user")[Len(l) + 1] = "user"
          /\ \A j \in 1 .. Len(l) : Append(l, "user")[j] = l[j]
          /\ Len(l) \in Nat
      BY AppendProperties
    <3>2. CASE i = Len(l) + 1
      BY <2>3, <3>1, <3>2
    <3>3. CASE i # Len(l) + 1
      <4>1. i \in 1 .. Len(l)
        BY <3>1, <3>3
      <4>2. QED
        BY <2>1, <3>1, <4>1
    <3>4. QED
      BY <3>2, <3>3
  <2>5. ASSUME NEW q \in Cells, Active(q)'
        PROVE /\ Increasing(callbacks'[q])
              /\ \A i \in 1 .. Len(callbacks'[q]) : runs'[repr'[q]][callbacks'[q][i]] = 0
    <3>1. CASE q = r
      <4>1. callbacks'[q] = Append(l, "user") /\ repr'[q] = repr[r] /\ runs' = runs
        BY <1>1, <1>3, <3>1
      <4>2. QED
        BY <2>2, <2>4, <4>1, Zenon
    <3>2. CASE q # r
      <4>1. Active(q) /\ callbacks'[q] = callbacks[q] /\ repr' = repr /\ runs' = runs
        BY <1>1, <1>3, <2>5, <3>2 DEF Active
      <4>2. QED
        BY <1>4, <4>1 DEF AheadInv
    <3>3. QED
      BY <3>1, <3>2
  <2>6. QED
    BY <2>5 DEF AheadInv
<1>8. QED
  BY <1>4, <1>5, <1>6, <1>7

LEMMA RecaptureOnce ==
  ASSUME OnceInv, NEW r \in Cells, Recapture(r) PROVE OnceInv'
<1> USE DEF OnceInv
<1>1. /\ UNCHANGED <<cell, callbacks, repr, queue, finished, scope, call, runs>>
      /\ call.stage = "idle" /\ cell[r] = "owner"
  BY DEF Recapture, Free
<1>2. /\ LoopInv' /\ CursorOK' /\ CountInv'
      /\ \A q, i : ~ Behind(q, i) /\ ~ Behind(q, i)'
      /\ \A o : Started(o)' <=> Started(o)
  BY <1>1, Resting
<1>3. /\ events' \subseteq Events /\ before' \in [Events -> SUBSET Ops]
      /\ handle' \in [Cells -> Events \union {Null}] /\ misuse' \in BOOLEAN
  <2>1. CASE handle[r] \notin events
    BY <2>1 DEF Recapture, TypeOK
  <2>2. CASE handle[r] \in events
    <3>3. PICK e \in (Events \ events) \union {handle[r]}, s \in Streams :
            /\ events' = (events \ {handle[r]}) \union {e}
            /\ before' = [before EXCEPT ![handle[r]] = {}, ![e] = Range(queue[s])]
            /\ handle' = [handle EXCEPT ![r] = e]
      BY <2>2 DEF Recapture, MayRecord
    <3>4. e \in Events /\ misuse' = misuse
      BY <2>2, <3>3 DEF TypeOK, Recapture
    <3>5. Range(queue[s]) \subseteq Ops
      BY DEF Range, TypeOK
    <3>6. QED
      BY <3>3, <3>4, <3>5 DEF TypeOK
  <2>3. QED
    BY <2>1, <2>2
<1>4. TypeOK'
  BY <1>1, <1>2, <1>3 DEF TypeOK
<1>5. HomeInv' /\ AheadInv' /\ UserInv'
  BY <1>1, <1>2 DEF HomeInv, AheadInv, UserInv, Active
<1>6. QED
  BY <1>2, <1>4, <1>5

LEMMA DropOnce ==
  ASSUME OnceInv, NEW b \in Ops \X Bufs, DropView(b) PROVE OnceInv'
<1> USE DEF OnceInv
<1>1. /\ UNCHANGED <<cell, handle, callbacks, repr, queue, finished, events, before, call, runs, misuse>>
      /\ call.stage = "idle" /\ scope' = scope \ {b}
  BY DEF DropView, Free, objects, device
<1>2. /\ LoopInv' /\ CursorOK' /\ CountInv'
      /\ \A q, i : ~ Behind(q, i) /\ ~ Behind(q, i)'
      /\ \A o : Started(o)' <=> Started(o)
  BY <1>1, Resting
<1>3. TypeOK'
  BY <1>1, <1>2 DEF TypeOK
<1>4. HomeInv' /\ AheadInv' /\ UserInv'
  BY <1>1, <1>2 DEF HomeInv, AheadInv, UserInv, Active
<1>5. QED
  BY <1>2, <1>3, <1>4

LEMMA DestroyOnce ==
  ASSUME OnceInv, NEW r \in Cells, Destroy(r) PROVE OnceInv'
<1> USE DEF OnceInv
<1>1. /\ events' = events \ {handle[r]}
      /\ before' = [before EXCEPT ![handle[r]] = {}]
      /\ misuse' \in BOOLEAN
      /\ cell' = [cell EXCEPT ![r] = "none"]
      /\ handle' = [handle EXCEPT ![r] = Null]
      /\ callbacks' = [callbacks EXCEPT ![r] = <<>>]
      /\ repr' = [repr EXCEPT ![r] = NoOp]
      /\ UNCHANGED <<queue, finished, scope, call, runs>>
      /\ call.stage = "idle"
  BY DEF Destroy, Free
<1>2. /\ LoopInv' /\ CursorOK' /\ CountInv'
      /\ \A q, i : ~ Behind(q, i) /\ ~ Behind(q, i)'
      /\ \A o : Started(o)' <=> Started(o)
  BY <1>1, Resting
<1>3. TypeOK'
  <2>1. cell' \in [Cells -> {"none", "owner", "waited", "moved"}]
        /\ handle' \in [Cells -> Events \union {Null}]
        /\ callbacks' \in [Cells -> Seq(Kinds)] /\ repr' \in [Cells -> Ops \union {NoOp}]
    BY <1>1 DEF TypeOK
  <2>2. events' \subseteq Events /\ before' \in [Events -> SUBSET Ops]
    BY <1>1 DEF TypeOK
  <2>3. QED
    BY <1>1, <1>2, <2>1, <2>2 DEF TypeOK
<1>4. /\ cell'[r] = "none"
      /\ \A q \in Cells : q # r => /\ cell'[q] = cell[q] /\ repr'[q] = repr[q]
                                   /\ callbacks'[q] = callbacks[q]
  BY <1>1 DEF TypeOK
<1>5. HomeInv' /\ AheadInv' /\ UserInv'
  BY <1>1, <1>2, <1>4 DEF HomeInv, AheadInv, UserInv, Active
<1>6. QED
  BY <1>2, <1>3, <1>5

(* A move takes operation and callbacks along.                             *)
LEMMA MoveOnce ==
  ASSUME OnceInv, NEW s \in Cells, NEW d \in Cells, s # d, Move(s, d) PROVE OnceInv'
<1> USE DEF OnceInv
<1>1. /\ call.stage = "idle" /\ Active(s)
      /\ cell' = [cell EXCEPT ![d] = cell[s], ![s] = "moved"]
      /\ handle' = [handle EXCEPT ![d] = handle[s]]
      /\ callbacks' = [callbacks EXCEPT ![d] = callbacks[s], ![s] = <<>>]
      /\ repr' = [repr EXCEPT ![d] = repr[s], ![s] = NoOp]
      /\ UNCHANGED <<queue, finished, events, before, scope, call, runs, misuse>>
  BY DEF Move, Free, Active, device
<1>2. /\ LoopInv' /\ CursorOK' /\ CountInv'
      /\ \A q, i : ~ Behind(q, i) /\ ~ Behind(q, i)'
      /\ \A o : Started(o)' <=> Started(o)
  BY <1>1, Resting
<1>3. TypeOK'
  <2>1. cell' \in [Cells -> {"none", "owner", "waited", "moved"}]
        /\ handle' \in [Cells -> Events \union {Null}]
    BY <1>1 DEF TypeOK
  <2>2. repr' \in [Cells -> Ops \union {NoOp}]
    BY <1>1 DEF TypeOK
  <2>3. callbacks' \in [Cells -> Seq(Kinds)]
    <3>1. callbacks \in [Cells -> Seq(Kinds)] /\ <<>> \in Seq(Kinds) /\ callbacks[s] \in Seq(Kinds)
      BY DEF TypeOK
    <3>2. QED
      BY <1>1, <3>1
  <2>4. QED
    BY <1>1, <1>2, <2>1, <2>2, <2>3 DEF TypeOK
<1>4. /\ cell'[s] = "moved" /\ cell'[d] = cell[s] /\ repr'[d] = repr[s]
      /\ callbacks'[d] = callbacks[s]
      /\ \A q \in Cells \ {s, d} : /\ cell'[q] = cell[q] /\ repr'[q] = repr[q]
                                   /\ callbacks'[q] = callbacks[q]
  BY <1>1 DEF TypeOK
<1>5. PICK from \in [Cells -> Cells] : from = [q \in Cells |-> IF q = d THEN s ELSE q]
  OBVIOUS
<1>6. \A q \in Cells : Active(q)' =>
        /\ q # s /\ Active(from[q]) /\ cell'[q] = cell[from[q]]
        /\ repr'[q] = repr[from[q]] /\ callbacks'[q] = callbacks[from[q]]
  BY <1>1, <1>4, <1>5, ZenonT(30) DEF Active
<1>7. HomeInv'
  <2>1. \A p, q \in Cells : p # s /\ q # s /\ from[p] = from[q] => p = q
    BY <1>5
  <2>2. QED
    BY <1>2, <1>6, <2>1 DEF HomeInv
<1>8. AheadInv'
  <2>1. ASSUME NEW q \in Cells, Active(q)'
        PROVE /\ Increasing(callbacks'[q])
              /\ \A i \in 1 .. Len(callbacks'[q]) : runs'[repr'[q]][callbacks'[q][i]] = 0
    <3>1. PICK p \in Cells : Active(p) /\ repr'[q] = repr[p] /\ callbacks'[q] = callbacks[p]
      BY <1>6, <2>1
    <3>2. runs' = runs
      BY <1>1
    <3>3. QED
      BY <1>2, <3>1, <3>2 DEF AheadInv
  <2>2. QED
    BY <2>1 DEF AheadInv
<1>9. UserInv'
  <2>1. \A q \in Cells : cell[q] = "owner" => runs[repr[q]]["user"] = 0
    BY <1>1 DEF UserInv
  <2>2. \A q \in Cells : cell'[q] = "owner" => cell[from[q]] = "owner" /\ repr'[q] = repr[from[q]]
    BY <1>6 DEF Active
  <2>3. QED
    BY <1>1, <2>1, <2>2 DEF UserInv
<1>10. QED
  BY <1>2, <1>3, <1>7, <1>8, <1>9

-----------------------------------------------------------------------------
(* Steps inside a call.                                                    *)
LEMMA Inner ==
  ASSUME TypeOK, call.stage # "idle"
  PROVE  /\ call \in CallType
         /\ call.at \in Cells /\ call.lo \in Cells /\ call.hi \in Cells /\ call.at \in call.lo .. call.hi
         /\ \A r \in call.lo .. call.hi : r \in Cells
<1>1. /\ call.at \in Cells /\ call.lo \in Cells /\ call.hi \in Cells
      /\ call.lo <= call.at /\ call.at <= call.hi /\ call \in CallType
  BY DEF TypeOK, CursorOK
<1>2. QED
  BY <1>1, NcclRequestAssumption DEF Cells

(* The call goes on with the next object, which it does after running      *)
(* callbacks only in a wait_all.                                           *)
GoesOn ==
  /\ call' \in CallType /\ call'.stage = "poll" /\ call'.pos = 1 /\ cell' = cell
  /\ call'.fn = call.fn /\ call'.lo = call.lo /\ call'.hi = call.hi
  /\ call'.at \in Cells /\ call.lo <= call'.at /\ call'.at <= call.hi
  /\ call.stage = "run" => call.fn = "all"

(* The call returns for S: all of the span in a wait_all, and any object   *)
(* whose callbacks have just run.                                          *)
Returns(S) ==
  /\ call' = Idle /\ cell' = [r \in Cells |-> IF r \in S THEN "waited" ELSE cell[r]]
  /\ S \subseteq call.lo .. call.hi
  /\ call.fn = "all" => call.lo .. call.hi \subseteq S
  /\ call.stage = "run" => call.at \in S

LEMMA AllNextFacts ==
  ASSUME TypeOK, call.stage # "idle", call.fn = "all", NEW n \in Int, AllNext(n)
  PROVE  GoesOn \/ \E S \in SUBSET (call.lo .. call.hi) : Returns(S)
<1>1. CASE call.at = call.hi /\ n <= 0
  <2>1. Returns(call.lo .. call.hi)
    BY <1>1, Inner DEF AllNext, Return, Returns
  <2>2. QED
    BY <2>1
<1>2. CASE ~(call.at = call.hi /\ n <= 0)
  <2>1. call' = [Onward EXCEPT !.remaining = n] /\ cell' = cell
    BY <1>2 DEF AllNext
  <2>2. PICK c \in CallType : c = Onward
    BY OnwardFacts
  <2>3. [c EXCEPT !.remaining = n] \in CallType
    BY DEF CallType
  <2>4. /\ call'.stage = c.stage /\ call'.pos = c.pos /\ call'.fn = c.fn /\ call'.lo = c.lo
        /\ call'.hi = c.hi /\ call'.at = c.at /\ call' \in CallType
    BY <2>1, <2>2, <2>3 DEF CallType
  <2>5. QED
    BY <2>1, <2>2, <2>4, OnwardFacts DEF GoesOn
<1>3. QED
  BY <1>1, <1>2

LEMMA LoopOnce ==
  ASSUME OnceInv, call.stage # "idle",
         UNCHANGED <<handle, repr, queue, finished, events, before, scope, runs, misuse>>,
         callbacks' \in [Cells -> Seq(Kinds)],
         \A r \in Cells : callbacks'[r] = callbacks[r] \/ callbacks'[r] = <<>>,
         call.stage = "run" => callbacks'[call.at] = <<>>,
         GoesOn \/ \E S \in SUBSET (call.lo .. call.hi) : Returns(S)
  PROVE  OnceInv'
<1> USE DEF OnceInv
<1>1. PICK S \in SUBSET (call.lo .. call.hi) : GoesOn \/ Returns(S)
  OBVIOUS
<1>2. \A r \in call.lo .. call.hi : r \in Cells /\ Active(r)
  BY Inner DEF LoopInv
<1>3. /\ cell' \in [Cells -> {"none", "owner", "waited", "moved"}]
      /\ \A r \in Cells : Active(r)' <=> Active(r)
      /\ \A r \in Cells : cell'[r] = "owner" => cell[r] = "owner"
  <2>1. CASE GoesOn
    BY <2>1 DEF GoesOn, TypeOK, Active
  <2>2. CASE Returns(S)
    BY <1>2, <2>2 DEF Returns, TypeOK, Active
  <2>3. QED
    BY <1>1, <2>1, <2>2
<1>4. call' \in CallType /\ call'.stage # "run" /\ CursorOK' /\ LoopInv'
  <2>1. CASE GoesOn
    BY <1>2, <2>1, Inner DEF GoesOn, CursorOK, LoopInv, Active
  <2>2. CASE Returns(S)
    BY <2>2 DEF Returns, Idle, CallType, CursorOK, LoopInv
  <2>3. QED
    BY <1>1, <2>1, <2>2
<1>5. TypeOK'
  BY <1>3, <1>4 DEF TypeOK
<1>6. \A o : Started(o)' <=> Started(o)
  BY SameStarted
<1>7. HomeInv' /\ CountInv'
  BY <1>3, <1>6 DEF HomeInv, CountInv
<1>8. AheadInv'
  <2>1. ASSUME NEW r \in Cells, Active(r)
        PROVE /\ Increasing(callbacks'[r])
              /\ \A i \in 1 .. Len(callbacks'[r]) : runs[repr[r]][callbacks'[r][i]] = 0
    <3>1. CASE callbacks'[r] = <<>>
      BY <3>1 DEF Increasing
    <3>2. CASE callbacks'[r] = callbacks[r] /\ callbacks'[r] # <<>>
      <4>1. ~(call.stage = "run" /\ call.at = r)
        BY <3>2
      <4>2. QED
        BY <2>1, <3>2, <4>1 DEF AheadInv, Behind
    <3>3. QED
      BY <3>1, <3>2
  <2>2. QED
    BY <1>3, <2>1 DEF AheadInv
<1>9. UserInv'
  <2>1. ASSUME NEW r \in Cells, cell'[r] = "owner", runs[repr[r]]["user"] # 0
        PROVE call'.stage # "idle" /\ r \in call'.lo .. call'.hi /\ call'.fn = "all"
    <3>1. /\ cell[r] = "owner" /\ r \in call.lo .. call.hi
          /\ call.fn = "all" \/ (call.stage = "run" /\ call.at = r)
      BY <1>3, <2>1 DEF UserInv
    <3>2. CASE GoesOn
      BY <3>1, <3>2 DEF GoesOn
    <3>3. CASE Returns(S)
      BY <2>1, <3>1, <3>3 DEF Returns
    <3>4. QED
      BY <1>1, <3>2, <3>3
  <2>2. QED
    BY <2>1 DEF UserInv
<1>10. QED
  BY <1>4, <1>5, <1>7, <1>8, <1>9

LEMMA EnterOnce ==
  ASSUME OnceInv, NEW f \in {"wait", "test", "any", "all"}, NEW lo \in Cells, NEW hi \in Cells,
         Enter(f, lo, hi)
  PROVE  OnceInv'
<1> USE DEF OnceInv
<1>1. /\ UNCHANGED <<cell, handle, callbacks, repr, queue, finished, events, before, scope, runs, misuse>>
      /\ call.stage = "idle" /\ lo <= hi /\ call' = Polling(f, lo, hi)
      /\ \A r \in lo .. hi : Active(r)
  BY DEF Enter, Free, objects, device, Active
<1>2. lo \in Nat /\ hi \in Nat /\ hi - lo + 1 \in Int
  BY NcclRequestAssumption DEF Cells
<1>3. /\ call' \in CallType /\ call'.stage = "poll" /\ call'.fn = f /\ call'.lo = lo
      /\ call'.hi = hi /\ call'.at = lo /\ call'.pos = 1
  BY <1>1, <1>2 DEF Polling, CallType
<1>4. CursorOK' /\ LoopInv'
  BY <1>1, <1>2, <1>3 DEF CursorOK, LoopInv, Active
<1>5. TypeOK'
  BY <1>1, <1>3, <1>4 DEF TypeOK
<1>6. \A o : Started(o)' <=> Started(o)
  BY <1>1, SameStarted
<1>7. \A r, i : ~ Behind(r, i) /\ ~ Behind(r, i)'
  BY <1>1, <1>3 DEF Behind
<1>8. HomeInv' /\ CountInv' /\ AheadInv'
  BY <1>1, <1>6, <1>7 DEF HomeInv, CountInv, AheadInv, Active
<1>9. UserInv'
  BY <1>1 DEF UserInv
<1>10. QED
  BY <1>4, <1>5, <1>8, <1>9

LEMMA ErrorOnce == ASSUME OnceInv, QueryError PROVE OnceInv'
<1> USE DEF OnceInv
<1>1. /\ UNCHANGED <<cell, handle, callbacks, repr, queue, finished, events, before, scope, call, runs>>
      /\ misuse' = TRUE
  BY DEF QueryError, objects, device
<1>2. \A o : Started(o)' <=> Started(o)
  BY <1>1, SameStarted
<1>3. TypeOK' /\ LoopInv'
  BY <1>1 DEF TypeOK, CursorOK, LoopInv, Active
<1>4. HomeInv' /\ CountInv' /\ AheadInv' /\ UserInv'
  BY <1>1, <1>2 DEF HomeInv, CountInv, AheadInv, UserInv, Active, Behind
<1>5. QED
  BY <1>3, <1>4

LEMMA ReadyOnce == ASSUME OnceInv, QueryReady PROVE OnceInv'
<1> USE DEF OnceInv
<1>1. /\ UNCHANGED <<cell, handle, callbacks, repr, queue, finished, events, before, scope, runs, misuse>>
      /\ call.stage = "poll" /\ call' = [call EXCEPT !.stage = "run"]
  BY DEF QueryReady, objects, device
<1>2. call \in CallType /\ call.pos = 1 /\ call.at \in Cells
  BY <1>1, Inner DEF LoopInv
<1>3. /\ call' \in CallType /\ call'.stage = "run" /\ call'.fn = call.fn /\ call'.lo = call.lo
      /\ call'.hi = call.hi /\ call'.at = call.at /\ call'.pos = 1
  BY <1>1, <1>2 DEF CallType
<1>4. CursorOK' /\ LoopInv'
  <2>1. Len(callbacks[call.at]) \in Nat
    BY <1>2, LenProperties DEF TypeOK
  <2>2. QED
    BY <1>1, <1>3, <2>1 DEF CursorOK, LoopInv, Active, TypeOK
<1>5. TypeOK'
  BY <1>1, <1>3, <1>4 DEF TypeOK
<1>6. \A o : Started(o)' <=> Started(o)
  BY <1>1, SameStarted
<1>7. HomeInv' /\ CountInv'
  BY <1>1, <1>6 DEF HomeInv, CountInv, Active
<1>8. AheadInv'
  <2>1. ASSUME NEW r \in Cells, Active(r), NEW i \in 1 .. Len(callbacks[r])
        PROVE runs[repr[r]][callbacks[r][i]] = 0
    <3>1. ~ Behind(r, i)
      BY <1>1 DEF Behind
    <3>2. QED
      BY <2>1, <3>1 DEF AheadInv
  <2>2. QED
    BY <1>1, <2>1 DEF AheadInv, Active
<1>9. UserInv'
  BY <1>1, <1>3 DEF UserInv
<1>10. QED
  BY <1>4, <1>5, <1>7, <1>8, <1>9

LEMMA NotReadyOnce == ASSUME OnceInv, QueryNotReady PROVE OnceInv'
<1> USE DEF OnceInv
<1>1. /\ UNCHANGED <<handle, callbacks, repr, queue, finished, events, before, scope, runs, misuse>>
      /\ call.stage = "poll"
  BY DEF QueryNotReady, device
<1>2. GoesOn \/ \E S \in SUBSET (call.lo .. call.hi) : Returns(S)
  <2>1. CASE call.fn = "all" /\ AllNext(call.remaining)
    <3>1. call.remaining \in Int
      BY <1>1, Inner DEF CallType
    <3>2. QED
      BY <1>1, <2>1, <3>1, AllNextFacts
  <2>2. CASE call.fn = "any" /\ call' = Onward /\ UNCHANGED cell
    BY <1>1, <2>2, OnwardFacts DEF GoesOn
  <2>3. CASE call.fn = "test" /\ Return({})
    <3>1. Returns({})
      BY <1>1, <2>3 DEF Return, Returns
    <3>2. QED
      BY <3>1
  <2>4. QED
    BY <2>1, <2>2, <2>3 DEF QueryNotReady
<1>3. callbacks' \in [Cells -> Seq(Kinds)]
  BY <1>1 DEF TypeOK
<1>4. QED
  BY <1>1, <1>2, <1>3, LoopOnce

LEMMA ClearOnce == ASSUME OnceInv, ClearCallbacks PROVE OnceInv'
<1> USE DEF OnceInv
<1>1. /\ UNCHANGED <<handle, repr, queue, finished, events, before, scope, runs, misuse>>
      /\ call.stage = "run" /\ callbacks' = [callbacks EXCEPT ![call.at] = <<>>]
  BY DEF ClearCallbacks, device
<1>2. /\ callbacks' \in [Cells -> Seq(Kinds)] /\ callbacks'[call.at] = <<>>
      /\ \A r \in Cells : callbacks'[r] = callbacks[r] \/ callbacks'[r] = <<>>
  BY <1>1, Inner DEF TypeOK
<1>3. GoesOn \/ \E S \in SUBSET (call.lo .. call.hi) : Returns(S)
  <2>1. CASE call.fn = "all"
    <3>1. call.remaining - 1 \in Int /\ AllNext(call.remaining - 1)
      BY <1>1, <2>1, Inner DEF CallType, ClearCallbacks
    <3>2. QED
      BY <1>1, <2>1, <3>1, AllNextFacts
  <2>2. CASE call.fn # "all"
    <3>1. {call.at} \in SUBSET (call.lo .. call.hi)
      BY <1>1, Inner
    <3>2. Returns({call.at})
      BY <2>2, <3>1 DEF ClearCallbacks, Return, Returns
    <3>3. QED
      BY <3>1, <3>2
  <2>3. QED
    BY <2>1, <2>2
<1>4. QED
  BY <1>1, <1>2, <1>3, LoopOnce

LEMMA RunOnce == ASSUME OnceInv, RunCallback PROVE OnceInv'
<1> USE DEF OnceInv
<1>1. PICK r \in Cells : r = call.at /\ call.stage = "run" /\ r \in call.lo .. call.hi /\ Active(r)
  BY Inner DEF RunCallback, LoopInv
<1>2. PICK o \in Ops : o = repr[r] /\ Started(o)
  BY <1>1 DEF HomeInv
<1>3. PICK l \in Seq(Kinds) : l = callbacks[r]
  BY DEF TypeOK
<1>4. PICK p \in Nat \ {0} : p = call.pos
  BY <1>1, Inner DEF CallType
<1>5. p \in 1 .. Len(l)
  BY <1>1, <1>3, <1>4 DEF RunCallback
<1>6. PICK k \in Kinds : k = l[p]
  BY <1>5
<1>7. /\ UNCHANGED <<cell, handle, callbacks, repr, queue, finished, events, before, scope, misuse>>
      /\ runs' = [runs EXCEPT ![o][k] = runs[o][k] + 1]
      /\ call' = [call EXCEPT !.pos = p + 1]
  BY <1>1, <1>2, <1>3, <1>4, <1>6 DEF RunCallback, objects, device
<1>8. Increasing(l) /\ \A i \in 1 .. Len(l) : i >= p => runs[o][l[i]] = 0
  <2>1. \A i \in 1 .. Len(l) : i >= p => ~ Behind(r, i)
    BY <1>4 DEF Behind
  <2>2. QED
    BY <1>1, <1>2, <1>3, <2>1 DEF AheadInv
<1>9. \A i \in 1 .. Len(l) : i > p => l[i] # k
  <2>1. Rank[k] \in Int
    BY DEF Kinds, Rank
  <2>2. \A i \in 1 .. Len(l) : i > p => Rank[k] < Rank[l[i]]
    BY <1>5, <1>6, <1>8 DEF Increasing
  <2>3. QED
    BY <2>1, <2>2
<1>10. runs[o][k] = 0
  BY <1>5, <1>6, <1>8
<1>11. /\ runs' \in [Ops -> [Kinds -> Nat]] /\ runs'[o][k] = 1
       /\ \A u \in Ops, c \in Kinds : u # o \/ c # k => runs'[u][c] = runs[u][c]
  BY <1>7, <1>10 DEF TypeOK
<1>12. /\ call' \in CallType /\ call'.stage = "run" /\ call'.fn = call.fn /\ call'.lo = call.lo
       /\ call'.hi = call.hi /\ call'.at = r /\ call'.pos = p + 1
  <2>1. call \in CallType
    BY DEF TypeOK
  <2>2. QED
    BY <1>1, <1>7, <2>1 DEF CallType
<1>13. CursorOK' /\ LoopInv'
  BY <1>1, <1>3, <1>5, <1>7, <1>12 DEF CursorOK, LoopInv, Active, TypeOK
<1>14. TypeOK'
  BY <1>7, <1>11, <1>12, <1>13 DEF TypeOK
<1>15. \A u : Started(u)' <=> Started(u)
  BY <1>7, SameStarted
<1>16. HomeInv' /\ CountInv'
  BY <1>2, <1>7, <1>11, <1>15 DEF HomeInv, CountInv, Active
<1>17. \A q \in Cells : Active(q) /\ q # r => repr[q] \in Ops /\ repr[q] # o
  BY <1>1, <1>2 DEF HomeInv
<1>18. AheadInv'
  <2>1. ASSUME NEW q \in Cells, Active(q), NEW i \in 1 .. Len(callbacks[q]), ~ Behind(q, i)'
        PROVE runs'[repr[q]][callbacks[q][i]] = 0
    <3>1. callbacks[q][i] \in Kinds
      BY DEF TypeOK
    <3>2. CASE q = r
      <4>1. i \in 1 .. Len(l) /\ i > p
        BY <1>3, <1>4, <1>12, <2>1, <3>2 DEF Behind
      <4>2. runs[o][l[i]] = 0 /\ l[i] # k
        BY <1>4, <1>8, <1>9, <4>1
      <4>3. QED
        BY <1>2, <1>3, <1>11, <3>1, <3>2, <4>2
    <3>3. CASE q # r
      <4>1. runs[repr[q]][callbacks[q][i]] = 0
        BY <1>1, <2>1, <3>3 DEF AheadInv, Behind
      <4>2. QED
        BY <1>11, <1>17, <2>1, <3>1, <3>3, <4>1
    <3>4. QED
      BY <3>2, <3>3
  <2>2. QED
    BY <1>7, <2>1 DEF AheadInv, Active
<1>19. UserInv'
  <2>1. ASSUME NEW q \in Cells, cell[q] = "owner", runs'[repr[q]]["user"] # 0
        PROVE /\ q \in call'.lo .. call'.hi
              /\ call'.fn = "all" \/ call'.at = q
    <3>1. CASE q = r
      BY <1>1, <1>12, <3>1
    <3>2. CASE q # r
      <4>1. runs[repr[q]]["user"] # 0
        BY <1>11, <1>17, <2>1, <3>2 DEF Active, Kinds
      <4>2. QED
        BY <1>1, <1>12, <2>1, <3>2, <4>1 DEF UserInv
    <3>3. QED
      BY <3>1, <3>2
  <2>2. QED
    BY <1>7, <1>12, <2>1 DEF UserInv
<1>20. QED
  BY <1>13, <1>14, <1>16, <1>18, <1>19

-----------------------------------------------------------------------------
LEMMA NextOnce == OnceInv /\ [Next]_vars => OnceInv'
<1> SUFFICES ASSUME OnceInv, [Next]_vars PROVE OnceInv'
  OBVIOUS
<1>1. CASE UNCHANGED vars
  <2>1. UNCHANGED <<cell, handle, callbacks, repr, queue, finished, events, before,
                    scope, call, runs, misuse>>
    BY <1>1 DEF vars, objects, device
  <2>2. \A o : Started(o)' <=> Started(o)
    BY <2>1, SameStarted
  <2>3. TypeOK' /\ LoopInv'
    BY <2>1 DEF OnceInv, TypeOK, CursorOK, LoopInv, Active
  <2>4. HomeInv' /\ CountInv' /\ AheadInv' /\ UserInv'
    BY <2>1, <2>2 DEF OnceInv, HomeInv, CountInv, AheadInv, UserInv, Active, Behind
  <2>5. QED
    BY <2>3, <2>4 DEF OnceInv
<1>2. CASE Program
  <2>1. ASSUME NEW lo \in Cells, NEW hi \in Cells, NEW f \in {"wait", "test", "any", "all"},
               Enter(f, lo, hi)
        PROVE OnceInv'
    BY <2>1, EnterOnce
  <2>2. ASSUME NEW s \in Cells, NEW d \in Cells, MoveConstruct(s, d) \/ MoveAssign(s, d)
        PROVE OnceInv'
    <3>1. s # d /\ Move(s, d)
      BY <2>2 DEF MoveConstruct, MoveAssign, Move
    <3>2. QED
      BY <3>1, MoveOnce
  <2>3. QED
    BY <1>2, <2>1, <2>2, PostOnce, AddOnce, RecaptureOnce, DestroyOnce, DropOnce
       DEF Program, WaitAllCall
<1>3. CASE Inside
  BY <1>3, ErrorOnce, ReadyOnce, NotReadyOnce, RunOnce, ClearOnce DEF Inside
<1>4. CASE \E s \in Streams : StreamStep(s)
  BY <1>4, StreamOnce
<1>5. QED
  BY <1>1, <1>2, <1>3, <1>4 DEF Next

LEMMA AlwaysOnce == Spec => []OnceInv
BY InitOnce, NextOnce, PTL DEF Spec

(* Every reachable state is well typed, and the loops over the span and    *)
(* over callbacks_ stay inside them, whatever the program does.            *)
THEOREM TypeCorrect == Spec => []TypeOK
<1>1. OnceInv => TypeOK
  BY DEF OnceInv
<1>2. QED
  BY AlwaysOnce, <1>1, PTL

(* Every callback runs at most once, also where a moved-from Request has   *)
(* destroyed the event or wait_all is back too early.                      *)
THEOREM CallbacksOnce == Spec => []CallbackOnce
<1>1. OnceInv => CallbackOnce
  BY DEF OnceInv, CountInv, CallbackOnce
<1>2. QED
  BY AlwaysOnce, <1>1, PTL
=============================================================================
