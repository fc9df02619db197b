---------------------------- MODULE NcclRequest ----------------------------
(***************************************************************************)
(* `Request<NcclSpace>` (nccl/request.hpp) and the NCCL functions that     *)
(* return one.  A call enqueues its packing and its NCCL operation on a    *)
(* CUDA stream, which executes in order behind the program's back, records *)
(* an event there and puts it into a Request, with the callbacks that keep *)
(* views alive and unpack received data.  Nothing is nulled on completion: *)
(* an event lives until a Request destroys it, and its value may then be   *)
(* given to a later event.                                                 *)
(***************************************************************************)
EXTENDS Integers, Sequences, FiniteSets, Functions

CONSTANTS
  N,          \* the Request objects live in cells 1..N (a span is lo..hi)
  Ops,        \* the operations the program starts
  Streams,    \* the CUDA streams
  Events,     \* the values CUDA has for a cudaEvent_t
  Null,       \* a null event handle
  NoOp,       \* stands where no operation is
  Call,       \* Call[o]: the library call that starts o
  Beyond      \* what the program does beyond what the passing runs allow:
              \*   "many"  waits for more than one Request in a wait_all
              \*   "move"  moves Requests
              \*   "other" captures a stream that is not the operation's

Cells == 1 .. N

Calls == [fn : {"send", "recv", "reduce", "bcast", "coll"},
          stream : Streams,
          svc : BOOLEAN, rvc : BOOLEAN,     \* is sv, rv contiguous?
          root : BOOLEAN,                   \* reduce: is this rank the root?
          managed : BOOLEAN]                \* do the views own their memory?

(* The collectives other than reduce abort on a non-contiguous view, so    *)
(* such a call starts nothing.                                             *)
Accepted(c) == c.fn \in {"bcast", "coll"} => c.svc /\ c.rvc

ASSUME NcclRequestAssumption ==
  /\ N \in Nat
  /\ Null \notin Events
  /\ NoOp \notin Ops
  /\ Call \in [Ops -> Calls]
  /\ \A o \in Ops : Accepted(Call[o])
  /\ Beyond \subseteq {"many", "move", "other"}

Kinds == {"unpack", "keep_psv", "keep_sv", "keep_rv", "user"}
Bufs == {"sv", "rv", "psv", "prv"}

VARIABLES
  cell,       \* cell[r]: "none" (no object), "owner", "waited" (a completion
              \* call has returned for it) or "moved" (moved-from)
  handle,     \* handle[r]: request_
  callbacks,  \* callbacks[r]: callbacks_, in the order of registration
  repr,       \* repr[r]: the operation whose Request the object is
  queue,      \* queue[s]: the operations stream s has still to finish
  finished,   \* the operations that are finished
  events,     \* the events that exist
  before,     \* before[e]: the unfinished operations that e was recorded behind
  scope,      \* the <<o, view>> pairs the program itself still holds
  call,       \* the library call the program is inside
  runs,       \* runs[o][k]: how often callback k of o has run
  misuse      \* has CUDA been given an event that does not exist?

objects == <<cell, handle, callbacks, repr>>
device == <<queue, finished, events, before>>
vars == <<objects, device, scope, call, runs, misuse>>

-----------------------------------------------------------------------------
(* The calls that start an operation.                                      *)

Views(o) == CASE Call[o].fn = "send" -> {"sv"}
              [] Call[o].fn \in {"recv", "bcast"} -> {"rv"}
              [] OTHER -> {"sv", "rv"}

PacksSend(o) == Call[o].fn \in {"send", "reduce"} /\ ~Call[o].svc

(* A reduce uses rv itself only where the rank is not the root and rv is   *)
(* contiguous.                                                             *)
PacksRecv(o) == \/ Call[o].fn = "recv" /\ ~Call[o].rvc
                \/ Call[o].fn = "reduce" /\ ~(~Call[o].root /\ Call[o].rvc)

(* The buffers the stream reads or writes for o: the send view itself also *)
(* where it is packed, because the packing is only enqueued.  NCCL ignores *)
(* the receive buffer of a reduce where the rank is not the root.          *)
StreamUses(o) ==
  (Views(o) \intersect {"sv"}) \union
  (IF PacksSend(o) THEN {"psv"} ELSE {}) \union
  (IF "rv" \notin Views(o) \/ (Call[o].fn = "reduce" /\ ~Call[o].root) THEN {}
   ELSE IF PacksRecv(o) THEN {"prv"} ELSE {"rv"})

(* Faulty variant: the send view is dropped once it is packed.             *)
Registered_PackedOnly(o) ==
  (IF PacksRecv(o) THEN <<"unpack">> ELSE <<>>) \o
  (IF PacksSend(o) THEN <<"keep_psv">> ELSE <<>>) \o
  (IF Call[o].managed /\ "sv" \in Views(o) /\ ~PacksSend(o) THEN <<"keep_sv">> ELSE <<>>) \o
  (IF Call[o].managed /\ "rv" \in Views(o) THEN <<"keep_rv">> ELSE <<>>)

(* The callbacks a fresh Request carries.  extend_view_lifetime adds one   *)
(* only for a view that owns its memory; a packed view always does.        *)
Registered(o) ==
  (IF PacksRecv(o) THEN <<"unpack">> ELSE <<>>) \o
  (IF PacksSend(o) THEN <<"keep_psv">> ELSE <<>>) \o
  (IF Call[o].managed /\ "sv" \in Views(o) THEN <<"keep_sv">> ELSE <<>>) \o
  (IF Call[o].managed /\ "rv" \in Views(o) THEN <<"keep_rv">> ELSE <<>>)

(* The buffers whose memory a callback owns a share of.                    *)
Captures(o, k) ==
  CASE k = "unpack" -> IF Call[o].managed THEN {"prv", "rv"} ELSE {"prv"}
    [] k = "keep_psv" -> {"psv"}
    [] k = "keep_sv" -> {"sv"}
    [] k = "keep_rv" -> {"rv"}
    [] OTHER -> {}

(* The buffers a callback reads or writes.                                 *)
TouchedBy(o, k) == IF k = "unpack" THEN {"prv", "rv"} ELSE {}

(* A reference count is positive while the program or a callback of a      *)
(* Request object holds the view.                                          *)
Allocated ==
  scope \union
  {b \in Ops \X Bufs :
     \E r \in Cells : repr[r] = b[1] /\ \E k \in Range(callbacks[r]) : b[2] \in Captures(b[1], k)}

-----------------------------------------------------------------------------
Idle == [stage |-> "idle", fn |-> "none", lo |-> 1, hi |-> 1, at |-> 1, pos |-> 1,
         remaining |-> 0]

(* A call that queries the events of the cells lo..hi, one after the other. *)
Polling(f, lo, hi) ==
  [stage |-> "poll", fn |-> f, lo |-> lo, hi |-> hi, at |-> lo, pos |-> 1,
   remaining |-> hi - lo + 1]

Init ==
  /\ cell = [r \in Cells |-> "none"]
  /\ handle = [r \in Cells |-> Null]
  /\ callbacks = [r \in Cells |-> <<>>]
  /\ repr = [r \in Cells |-> NoOp]
  /\ queue = [s \in Streams |-> <<>>]
  /\ finished = {}
  /\ events = {}
  /\ before = [e \in Events |-> {}]
  /\ scope = {b \in Ops \X Bufs : b[2] \in Views(b[1])}
  /\ call = Idle
  /\ runs = [o \in Ops |-> [k \in Kinds |-> 0]]
  /\ misuse = FALSE

Free == call.stage = "idle" /\ ~misuse

Started(o) == o \in finished \union UNION {Range(queue[s]) : s \in Streams}

(* Faulty variant: the event is recorded before the operation is enqueued. *)
Post_CaptureFirst(o, r) ==
  LET s == Call[o].stream IN
  /\ Free
  /\ ~Started(o)
  /\ cell[r] = "none"
  /\ {o} \X Views(o) \subseteq scope
  /\ \E e \in Events \ events :
       /\ events' = events \union {e}
       /\ before' = [before EXCEPT ![e] = Range(queue[s])]
       /\ handle' = [handle EXCEPT ![r] = e]
  /\ queue' = [queue EXCEPT ![s] = Append(@, o)]
  /\ callbacks' = [callbacks EXCEPT ![r] = Registered(o)]
  /\ cell' = [cell EXCEPT ![r] = "owner"]
  /\ repr' = [repr EXCEPT ![r] = o]
  /\ UNCHANGED <<finished, scope, call, runs, misuse>>

(* send, recv, reduce, broadcast, allgather, allreduce, alltoall: a fresh  *)
(* Request in cell r captures the stream behind the operation.             *)
Post(o, r) ==
  LET s == Call[o].stream IN
  /\ Free
  /\ ~Started(o)
  /\ cell[r] = "none"
  /\ {o} \X Views(o) \subseteq scope
  /\ \E e \in Events \ events :
       /\ events' = events \union {e}
       /\ before' = [before EXCEPT ![e] = Range(queue[s]) \union {o}]
       /\ handle' = [handle EXCEPT ![r] = e]
  /\ queue' = [queue EXCEPT ![s] = Append(@, o)]
  /\ callbacks' = [callbacks EXCEPT ![r] = Registered(o)]
  /\ cell' = [cell EXCEPT ![r] = "owner"]
  /\ repr' = [repr EXCEPT ![r] = o]
  /\ UNCHANGED <<finished, scope, call, runs, misuse>>

(* A stream finishes the operation at its head.                            *)
StreamStep(s) ==
  /\ queue[s] # <<>>
  /\ finished' = finished \union {Head(queue[s])}
  /\ queue' = [queue EXCEPT ![s] = Tail(@)]
  /\ before' = [e \in Events |-> before[e] \ {Head(queue[s])}]
  /\ UNCHANGED <<objects, events, scope, call, runs, misuse>>

(* Faulty variants: the previous event is not destroyed; it is destroyed   *)
(* and kept.                                                               *)
Recapture_Leaks(r) ==
  /\ Free
  /\ cell[r] = "owner"
  /\ \E e \in Events \ events :
       /\ events' = events \union {e}
       /\ before' = [before EXCEPT ![e] = Range(queue[Call[repr[r]].stream])]
       /\ handle' = [handle EXCEPT ![r] = e]
  /\ UNCHANGED <<cell, callbacks, repr, queue, finished, scope, call, runs, misuse>>

Recapture_DestroyedOnly(r) ==
  /\ Free
  /\ cell[r] = "owner"
  /\ handle[r] \in events
  /\ events' = events \ {handle[r]}
  /\ UNCHANGED <<objects, before, queue, finished, scope, call, runs, misuse>>

(* capture_stream_state on a Request that has an event: the old event is   *)
(* destroyed, a new one, which may get its value, records the stream it is *)
(* given as that is now.  The code takes any stream; of another than the   *)
(* operation's own, the Request then says nothing of the operation.        *)
MayRecord(r) == {s \in Streams : s = Call[repr[r]].stream \/ "other" \in Beyond}

Recapture(r) ==
  /\ Free
  /\ cell[r] = "owner"
  /\ IF handle[r] \notin events
     THEN misuse' = TRUE /\ UNCHANGED <<events, before, handle>>
     ELSE /\ \E e \in (Events \ events) \union {handle[r]}, s \in MayRecord(r) :
               /\ events' = (events \ {handle[r]}) \union {e}
               /\ before' = [before EXCEPT ![handle[r]] = {}, ![e] = Range(queue[s])]
               /\ handle' = [handle EXCEPT ![r] = e]
          /\ UNCHANGED misuse
  /\ UNCHANGED <<cell, callbacks, repr, queue, finished, scope, call, runs>>

(* add_callback: the program registers one callback of its own.            *)
AddCallback(r) ==
  /\ Free
  /\ cell[r] = "owner"
  /\ \A i \in DOMAIN callbacks[r] : callbacks[r][i] # "user"
  /\ callbacks' = [callbacks EXCEPT ![r] = Append(@, "user")]
  /\ UNCHANGED <<cell, handle, repr, device, scope, call, runs, misuse>>

(* The program lets go of a view.  One that does not own its memory it     *)
(* keeps until it has waited for the operation.                            *)
DropView(b) ==
  /\ Free
  /\ b \in scope
  /\ Started(b[1])
  /\ Call[b[1]].managed \/ \E r \in Cells : repr[r] = b[1] /\ cell[r] = "waited"
  /\ scope' = scope \ {b}
  /\ UNCHANGED <<objects, device, call, runs, misuse>>

-----------------------------------------------------------------------------
(* Completion.  wait blocks in CUDA until its event is reached; test,      *)
(* wait_all and wait_any query.                                            *)

Reached(e) == before[e] = {}

Enter(f, lo, hi) ==
  /\ Free
  /\ lo <= hi
  /\ \A r \in lo .. hi : cell[r] \in {"owner", "waited"}
  /\ call' = Polling(f, lo, hi)
  /\ UNCHANGED <<objects, device, scope, runs, misuse>>

WaitAllCall(lo, hi) == (lo = hi \/ "many" \in Beyond) /\ Enter("all", lo, hi)

(* The next turn of the loop over the span, and of the loop around it.     *)
Onward == [call EXCEPT !.stage = "poll", !.pos = 1,
                       !.at = IF @ < call.hi THEN @ + 1 ELSE call.lo]

(* The call returns, and the program takes the requests S as complete.     *)
Return(S) ==
  /\ call' = Idle
  /\ cell' = [r \in Cells |-> IF r \in S THEN "waited" ELSE cell[r]]

(* wait_all leaves the outer loop at the end of a pass.                    *)
AllNext(remaining) ==
  IF call.at = call.hi /\ remaining <= 0
  THEN Return(call.lo .. call.hi)
  ELSE call' = [Onward EXCEPT !.remaining = remaining] /\ UNCHANGED cell

Polled == handle[call.at]

QueryError ==
  /\ call.stage = "poll" /\ ~misuse
  /\ Polled \notin events
  /\ misuse' = TRUE
  /\ UNCHANGED <<objects, device, scope, call, runs>>

(* Faulty variant: wait_any takes a pending event for a reached one.       *)
QueryReady_Any ==
  /\ call.stage = "poll" /\ Polled \in events
  /\ Reached(Polled) \/ call.fn = "any"
  /\ call' = [call EXCEPT !.stage = "run"]
  /\ UNCHANGED <<objects, device, scope, runs, misuse>>

QueryReady ==
  /\ call.stage = "poll" /\ Polled \in events
  /\ Reached(Polled)
  /\ call' = [call EXCEPT !.stage = "run"]
  /\ UNCHANGED <<objects, device, scope, runs, misuse>>

QueryNotReady ==
  /\ call.stage = "poll" /\ Polled \in events
  /\ ~Reached(Polled)
  /\ \/ call.fn = "all" /\ AllNext(call.remaining)
     \/ call.fn = "any" /\ call' = Onward /\ UNCHANGED cell
     \/ call.fn = "test" /\ Return({})
  /\ UNCHANGED <<handle, callbacks, repr, device, scope, runs, misuse>>

(* execute_all_callbacks.  The fence after the unpacking waits for all     *)
(* that is on the stream, later operations included.                       *)
RunCallback ==
  LET o == repr[call.at]
      k == callbacks[call.at][call.pos]
  IN  /\ call.stage = "run" /\ call.pos <= Len(callbacks[call.at])
      /\ k = "unpack" => queue[Call[o].stream] = <<>>
      /\ runs' = [runs EXCEPT ![o][k] = @ + 1]
      /\ call' = [call EXCEPT !.pos = @ + 1]
      /\ UNCHANGED <<objects, device, scope, misuse>>

(* Faulty variants: wait_all forgets to count; wait_any goes on to the     *)
(* next request.                                                           *)
ClearCallbacks_NoCount ==
  /\ call.stage = "run" /\ call.pos = Len(callbacks[call.at]) + 1
  /\ callbacks' = [callbacks EXCEPT ![call.at] = <<>>]
  /\ IF call.fn = "all" THEN AllNext(call.remaining) ELSE Return({call.at})
  /\ UNCHANGED <<handle, repr, device, scope, runs, misuse>>

ClearCallbacks_OneTooFar ==
  /\ call.stage = "run" /\ call.pos = Len(callbacks[call.at]) + 1
  /\ callbacks' = [callbacks EXCEPT ![call.at] = <<>>]
  /\ IF call.fn = "all" THEN AllNext(call.remaining - 1)
     ELSE IF call.fn = "any" /\ call.at = call.lo
     THEN call' = [call EXCEPT !.stage = "poll", !.at = @ + 1, !.pos = 1] /\ UNCHANGED cell
     ELSE Return({call.at})
  /\ UNCHANGED <<handle, repr, device, scope, runs, misuse>>

(* ... the clear() after the loop.  wait_all counts a request down each    *)
(* time it finds it complete; the other calls return.                      *)
ClearCallbacks ==
  /\ call.stage = "run" /\ call.pos = Len(callbacks[call.at]) + 1
  /\ callbacks' = [callbacks EXCEPT ![call.at] = <<>>]
  /\ IF call.fn = "all" THEN AllNext(call.remaining - 1) ELSE Return({call.at})
  /\ UNCHANGED <<handle, repr, device, scope, runs, misuse>>

-----------------------------------------------------------------------------
(* Moves and destruction.                                                  *)

(* Faulty variant: the callbacks are copied.                               *)
Move_Copies(s, d) ==
  /\ Free
  /\ "move" \in Beyond
  /\ cell[s] \in {"owner", "waited"}
  /\ cell' = [cell EXCEPT ![d] = cell[s]]
  /\ handle' = [handle EXCEPT ![d] = handle[s]]
  /\ callbacks' = [callbacks EXCEPT ![d] = callbacks[s]]
  /\ repr' = [repr EXCEPT ![d] = repr[s]]
  /\ UNCHANGED <<device, scope, call, runs, misuse>>

(* A defaulted move: the vector of callbacks is moved out, the event is    *)
(* copied and stays in the source as well; the target's is overwritten.    *)
Move(s, d) ==
  /\ Free
  /\ "move" \in Beyond
  /\ cell[s] \in {"owner", "waited"}
  /\ cell' = [cell EXCEPT ![d] = cell[s], ![s] = "moved"]
  /\ handle' = [handle EXCEPT ![d] = handle[s]]
  /\ callbacks' = [callbacks EXCEPT ![d] = callbacks[s], ![s] = <<>>]
  /\ repr' = [repr EXCEPT ![d] = repr[s], ![s] = NoOp]
  /\ UNCHANGED <<device, scope, call, runs, misuse>>

MoveConstruct(s, d) == cell[d] = "none" /\ Move(s, d)

MoveAssign(s, d) == s # d /\ cell[d] \in {"waited", "moved"} /\ Move(s, d)

(* ~Request destroys the event it holds.                                   *)
Destroy(r) ==
  /\ Free
  /\ cell[r] \in {"waited", "moved"}
  /\ events' = events \ {handle[r]}
  /\ before' = [before EXCEPT ![handle[r]] = {}]
  /\ misuse' = (handle[r] \notin events)
  /\ cell' = [cell EXCEPT ![r] = "none"]
  /\ handle' = [handle EXCEPT ![r] = Null]
  /\ callbacks' = [callbacks EXCEPT ![r] = <<>>]
  /\ repr' = [repr EXCEPT ![r] = NoOp]
  /\ UNCHANGED <<queue, finished, scope, call, runs>>

-----------------------------------------------------------------------------
Program ==
  \/ \E o \in Ops, r \in Cells : Post(o, r)
  \/ \E r \in Cells : AddCallback(r) \/ Recapture(r) \/ Destroy(r)
  \/ \E r \in Cells : Enter("wait", r, r) \/ Enter("test", r, r)
  \/ \E lo, hi \in Cells : WaitAllCall(lo, hi) \/ Enter("any", lo, hi)
  \/ \E s, d \in Cells : MoveConstruct(s, d) \/ MoveAssign(s, d)
  \/ \E b \in Ops \X Bufs : DropView(b)

Inside == QueryError \/ QueryReady \/ QueryNotReady \/ RunCallback \/ ClearCallbacks

Next == Program \/ Inside \/ \E s \in Streams : StreamStep(s)

Spec == Init /\ [][Next]_vars

(* The thread that is inside a call goes on, and the streams make progress. *)
FairSpec == Spec /\ WF_vars(Inside) /\ \A s \in Streams : WF_vars(StreamStep(s))

-----------------------------------------------------------------------------
CallType == [stage : {"idle", "poll", "run"}, fn : {"none", "wait", "test", "all", "any"},
             lo : Nat, hi : Nat, at : Nat, pos : Nat \ {0}, remaining : Int]

CursorOK ==
  /\ call.stage # "idle" => /\ {call.lo, call.hi, call.at} \subseteq Cells
                            /\ call.lo <= call.at /\ call.at <= call.hi
  /\ call.stage = "run" => call.pos <= Len(callbacks[call.at]) + 1

(* Types, and that the loops over the span and over callbacks_ stay inside *)
(* them.                                                                   *)
TypeOK ==
  /\ cell \in [Cells -> {"none", "owner", "waited", "moved"}]
  /\ handle \in [Cells -> Events \union {Null}]
  /\ callbacks \in [Cells -> Seq(Kinds)]
  /\ repr \in [Cells -> Ops \union {NoOp}]
  /\ queue \in [Streams -> Seq(Ops)]
  /\ finished \subseteq Ops
  /\ events \subseteq Events
  /\ before \in [Events -> SUBSET Ops]
  /\ scope \subseteq Ops \X Bufs
  /\ call \in CallType
  /\ CursorOK
  /\ runs \in [Ops -> [Kinds -> Nat]]
  /\ misuse \in BOOLEAN

(* While the stream has still to read or write a buffer, somebody holds    *)
(* its memory: the program may drop its views once the call has returned.  *)
BuffersOutliveOperation ==
  \A s \in Streams : \A o \in Range(queue[s]) : {o} \X StreamUses(o) \subseteq Allocated

(* CUDA is never given an event that has been destroyed.                   *)
NoDeadEvent == ~misuse

(* Every event has one Request that will destroy it, and every Request has *)
(* an event of its own: none is shared, none is leaked.                    *)
OneOwner ==
  /\ events = {handle[r] : r \in {q \in Cells : cell[q] # "none"}}
  /\ \A q, r \in Cells : cell[q] # "none" /\ cell[r] # "none" /\ handle[q] = handle[r] => q = r

(* When wait, wait_all, wait_any or a successful test is back, each        *)
(* operation it was called for is finished and each callback it was        *)
(* started with has run exactly once.                                      *)
Delivered(o) ==
  \A k \in Kinds \ {"user"} :
    runs[o][k] = IF k \in Range(Registered(o)) THEN 1 ELSE 0

WaitMeansDelivered ==
  \A r \in Cells : cell[r] = "waited" => repr[r] \in finished /\ Delivered(repr[r])

(* Every callback runs at most once, also where a moved-from Request has   *)
(* destroyed the event or wait_all is back too early (docs/api/core.rst:   *)
(* it is impossible for the same callback to be executed more than once).  *)
CallbackOnce == \A o \in Ops, k \in Kinds : runs[o][k] <= 1

(* A completion call returns.                                              *)
CallsReturn == call.stage # "idle" ~> call.stage = "idle"

(* On a rank that is not the root of a reduction, the receive view is left *)
(* alone (collective.hpp: it is ignored for all other ranks).              *)
OnlyRootReceives ==
  \A o \in Ops : Call[o].fn = "reduce" /\ ~Call[o].root => runs[o]["unpack"] = 0

-----------------------------------------------------------------------------
(* The objects, events and streams implement the contract of a Request.    *)
Phase == [o \in Ops |-> IF o \in finished THEN "over" ELSE IF Started(o) THEN "pending" ELSE "idle"]

Contract == INSTANCE RequestContract WITH
  Uses <- [o \in Ops |-> StreamUses(o)],
  Touches <- [o \in Ops |-> [k \in Kinds |-> TouchedBy(o, k)]],
  phase <- Phase,
  done <- [o \in Ops |-> {k \in Kinds : runs[o][k] > 0}],
  held <- Allocated

KeepsContract == Contract!Spec
=============================================================================
