----------------------------- MODULE MpiRequest -----------------------------
(***************************************************************************)
(* `Request<MpiSpace>` (mpi/request.hpp) and the non-blocking functions    *)
(* that return one, as one rank sees them: Request objects in storage      *)
(* cells, the MPI_Request handles they hold, the callbacks that keep views *)
(* alive and unpack received data, and the MPI library that completes      *)
(* operations behind the program's back.                                   *)
(*                                                                         *)
(* The program is one thread, so while it is inside wait, wait_all or      *)
(* wait_any only the MPI library moves.  A handle value that MPI has freed *)
(* may be given to a later operation.                                      *)
(***************************************************************************)
EXTENDS Integers, Sequences

CONSTANTS
  N,         \* the Request objects live in cells 1..N (a span is lo..hi)
  Ops,       \* the operations the program starts
  Handles,   \* the values MPI has for an MPI_Request
  Null,      \* MPI_REQUEST_NULL
  NoOp,      \* stands where no operation is
  Call,      \* Call[o]: the library call that starts o
  Beyond     \* what the program does beyond documented use:
             \*   "stale"  uses a Request again after wait_all or wait_any
             \*   "drop"   destroys or overwrites a Request that is active
             \*   "throw"  registers a callback that throws

Cells == 1 .. N

Calls == [fn : {"send", "recv", "reduce", "bcast", "coll"},
          svc : BOOLEAN, rvc : BOOLEAN,     \* is sv, rv contiguous?
          root : BOOLEAN,                   \* reduce: is this rank the root?
          managed : BOOLEAN]                \* do the views own their memory?

(* The collectives other than reduce abort on a non-contiguous view, so    *)
(* such a call starts nothing.                                             *)
Accepted(c) == c.fn \in {"bcast", "coll"} => c.svc /\ c.rvc

ASSUME MpiRequestAssumption ==
  /\ N \in Nat
  /\ Null \notin Handles
  /\ NoOp \notin Ops
  /\ Call \in [Ops -> Calls]
  /\ \A o \in Ops : Accepted(Call[o])
  /\ Beyond \subseteq {"stale", "drop", "throw"}

Kinds == {"unpack", "keep_psv", "keep_sv", "keep_rv", "user"}
Bufs == {"sv", "rv", "psv", "prv"}

VARIABLES
  cell,       \* cell[r]: "none" (no object), "owner" of an operation or null,
              \* "moved" (moved-from), "stale" (completed through a copy)
  handle,     \* handle[r]: request_
  callbacks,  \* callbacks[r]: callbacks_, in the order of registration
  repr,       \* repr[r]: the operation whose Request the object is
  opState,    \* opState[o]: "idle", "active", "complete", "freed"
  bound,      \* bound[h]: the operation MPI's handle h stands for
  scope,      \* the <<o, view>> pairs the program itself still holds
  call,       \* the library call the program is inside
  runs,       \* runs[o][k]: how often callback k of o has run
  misuse      \* has a freed handle been passed to MPI?

objects == <<cell, handle, callbacks, repr>>
mpi == <<opState, bound>>
vars == <<objects, mpi, scope, call, runs, misuse>>

-----------------------------------------------------------------------------
(* The calls that start an operation.                                      *)

Views(o) == CASE Call[o].fn = "send" -> {"sv"}
              [] Call[o].fn \in {"recv", "bcast"} -> {"rv"}
              [] OTHER -> {"sv", "rv"}

PacksSend(o) == Call[o].fn \in {"send", "reduce"} /\ ~Call[o].svc

PacksRecv(o) == /\ Call[o].fn = "recv" \/ (Call[o].fn = "reduce" /\ Call[o].root)
                /\ ~Call[o].rvc

(* The buffers handed to the MPI function.  MPI ignores the receive buffer *)
(* of a reduce where the rank is not the root.                             *)
MpiUses(o) ==
  (IF "sv" \notin Views(o) THEN {} ELSE IF PacksSend(o) THEN {"psv"} ELSE {"sv"})
    \union
  (IF "rv" \notin Views(o) \/ (Call[o].fn = "reduce" /\ ~Call[o].root) THEN {}
   ELSE IF PacksRecv(o) THEN {"prv"} ELSE {"rv"})

(* Faulty variant: the packed send buffer is not kept.                     *)
Registered_NoPacked(o) ==
  (IF PacksRecv(o) THEN <<"unpack">> ELSE <<>>) \o
  (IF Call[o].managed /\ "sv" \in Views(o) THEN <<"keep_sv">> ELSE <<>>) \o
  (IF Call[o].managed /\ "rv" \in Views(o) /\ ~(Call[o].fn = "recv" /\ PacksRecv(o))
   THEN <<"keep_rv">> ELSE <<>>)

(* The callbacks a fresh Request carries.  extend_view_lifetime adds one   *)
(* only for a view that owns its memory; a packed view always does.  irecv *)
(* relies on the capture of the unpacking callback for rv.                 *)
Registered(o) ==
  (IF PacksRecv(o) THEN <<"unpack">> ELSE <<>>) \o
  (IF PacksSend(o) THEN <<"keep_psv">> ELSE <<>>) \o
  (IF Call[o].managed /\ "sv" \in Views(o) THEN <<"keep_sv">> ELSE <<>>) \o
  (IF Call[o].managed /\ "rv" \in Views(o) /\ ~(Call[o].fn = "recv" /\ PacksRecv(o))
   THEN <<"keep_rv">> ELSE <<>>)

(* The buffers whose memory a callback owns a share of.                    *)
Captures(o, k) ==
  CASE k = "unpack" -> IF Call[o].managed THEN {"prv", "rv"} ELSE {"prv"}
    [] k = "keep_psv" -> {"psv"}
    [] k = "keep_sv" -> {"sv"}
    [] k = "keep_rv" -> {"rv"}
    [] OTHER -> {}

(* The buffers a callback reads or writes.                                 *)
TouchedBy(o, k) == IF k = "unpack" THEN {"prv", "rv"} ELSE {}

(* A reference count is positive while the program or a callback of a      *)
(* Request object holds the view.                                          *)
Allocated ==
  scope \union
  {b \in Ops \X Bufs : \E r \in Cells : /\ repr[r] = b[1]
                                        /\ \E i \in DOMAIN callbacks[r] :
                                             b[2] \in Captures(b[1], callbacks[r][i])}

-----------------------------------------------------------------------------
Idle == [stage |-> "idle", fn |-> "none", lo |-> 1, hi |-> 1, at |-> 1, pos |-> 1]

Blocked(f, lo, hi) ==
  [stage |-> "mpi", fn |-> f, lo |-> lo, hi |-> hi, at |-> lo, pos |-> 1]

Running(f, lo, hi) ==
  [stage |-> "run", fn |-> f, lo |-> lo, hi |-> hi, at |-> lo, pos |-> 1]

Init ==
  /\ cell = [r \in Cells |-> "none"]
  /\ handle = [r \in Cells |-> Null]
  /\ callbacks = [r \in Cells |-> <<>>]
  /\ repr = [r \in Cells |-> NoOp]
  /\ opState = [o \in Ops |-> "idle"]
  /\ bound = [h \in Handles |-> NoOp]
  /\ scope = {b \in Ops \X Bufs : b[2] \in Views(b[1])}
  /\ call = Idle
  /\ runs = [o \in Ops |-> [k \in Kinds |-> 0]]
  /\ misuse = FALSE

Free == call.stage = "idle" /\ ~misuse

(* isend, irecv, ireduce, ibroadcast, iallgather, iallreduce, ialltoall:   *)
(* the operation starts with a handle MPI is not using, and the Request is *)
(* constructed in cell r.                                                  *)
Post(o, r) ==
  /\ Free
  /\ opState[o] = "idle"
  /\ cell[r] = "none"
  /\ {o} \X Views(o) \subseteq scope
  /\ \E h \in Handles :
       /\ bound[h] = NoOp
       /\ bound' = [bound EXCEPT ![h] = o]
       /\ handle' = [handle EXCEPT ![r] = h]
  /\ opState' = [opState EXCEPT ![o] = "active"]
  /\ callbacks' = [callbacks EXCEPT ![r] = Registered(o)]
  /\ cell' = [cell EXCEPT ![r] = "owner"]
  /\ repr' = [repr EXCEPT ![r] = o]
  /\ UNCHANGED <<scope, call, runs, misuse>>

(* The MPI library finishes an operation.                                  *)
MpiComplete(o) ==
  /\ opState[o] = "active"
  /\ opState' = [opState EXCEPT ![o] = "complete"]
  /\ UNCHANGED <<objects, bound, scope, call, runs, misuse>>

(* Faulty variant: the callback goes to the front of the list.             *)
AddCallback_Front(r) ==
  /\ Free
  /\ cell[r] = "owner"
  /\ repr[r] # NoOp
  /\ runs[repr[r]]["user"] = 0
  /\ \A i \in DOMAIN callbacks[r] : callbacks[r][i] # "user"
  /\ callbacks' = [callbacks EXCEPT ![r] = <<"user">> \o @]
  /\ UNCHANGED <<cell, handle, repr, mpi, scope, call, runs, misuse>>

(* add_callback: the program registers one callback of its own.            *)
AddCallback(r) ==
  /\ Free
  /\ cell[r] = "owner"
  /\ repr[r] # NoOp
  /\ runs[repr[r]]["user"] = 0
  /\ \A i \in DOMAIN callbacks[r] : callbacks[r][i] # "user"
  /\ callbacks' = [callbacks EXCEPT ![r] = Append(@, "user")]
  /\ UNCHANGED <<cell, handle, repr, mpi, scope, call, runs, misuse>>

(* The program lets go of a view.  One that does not own its memory it     *)
(* keeps until the operation is over.                                      *)
DropView(b) ==
  /\ Free
  /\ b \in scope
  /\ opState[b[1]] # "idle"
  /\ Call[b[1]].managed \/ opState[b[1]] = "freed"
  /\ scope' = scope \ {b}
  /\ UNCHANGED <<objects, mpi, call, runs, misuse>>

-----------------------------------------------------------------------------
(* Completion.  MPI takes a null handle as complete, and an active one when *)
(* its operation is; a handle it has already freed is an error.            *)

Done(h) == h # Null => bound[h] # NoOp /\ opState[bound[h]] = "complete"

Dangling(h) == h # Null /\ bound[h] = NoOp

(* MPI frees the handles in H and forgets their operations.                *)
MpiFree(H) ==
  /\ bound' = [h \in Handles |-> IF h \in H THEN NoOp ELSE bound[h]]
  /\ opState' = [o \in Ops |-> IF \E h \in H : bound[h] = o THEN "freed" ELSE opState[o]]

MayUse(r) == cell[r] = "owner" \/ (cell[r] = "stale" /\ "stale" \in Beyond)

(* The program enters wait, wait_all or wait_any on the cells lo..hi.      *)
Enter(f, lo, hi) ==
  /\ Free
  /\ \A r \in lo .. hi : MayUse(r)
  /\ IF \E r \in lo .. hi : Dangling(handle[r])
     THEN misuse' = TRUE /\ UNCHANGED call
     ELSE call' = Blocked(f, lo, hi) /\ UNCHANGED misuse
  /\ UNCHANGED <<objects, mpi, scope, runs>>

WaitCall(r) == Enter("wait", r, r)

WaitAllCall(lo, hi) == lo <= hi /\ Enter("all", lo, hi)

WaitAnyCall(lo, hi) == lo <= hi /\ Enter("any", lo, hi)

(* Faulty variant: MPI gets a copy of request_, which keeps its value.     *)
CompleteOwn_OnCopy(f, r) ==
  /\ Done(handle[r])
  /\ MpiFree({handle[r]} \ {Null})
  /\ call' = Running(f, r, r)
  /\ UNCHANGED <<objects, scope, runs, misuse>>

(* MPI_Wait and MPI_Test get the address of request_, and null it.         *)
CompleteOwn(f, r) ==
  /\ Done(handle[r])
  /\ MpiFree({handle[r]} \ {Null})
  /\ handle' = [handle EXCEPT ![r] = Null]
  /\ call' = Running(f, r, r)
  /\ UNCHANGED <<cell, callbacks, repr, scope, runs, misuse>>

WaitReturn ==
  /\ call.stage = "mpi" /\ call.fn = "wait"
  /\ CompleteOwn("wait", call.lo)

(* test: MPI_Test is given the handle, whatever it holds, and sets the     *)
(* flag.  When it does not, test returns false and changes nothing.        *)
Test(r) ==
  /\ Free
  /\ MayUse(r)
  /\ IF Dangling(handle[r])
     THEN misuse' = TRUE /\ UNCHANGED <<objects, mpi, scope, call, runs>>
     ELSE CompleteOwn("test", r)

(* MPI_Waitall and MPI_Waitany get an array of copies.  What they free and  *)
(* null there stays in request_.                                           *)
CompleteCopies(S, f, lo, hi) ==
  /\ MpiFree({handle[r] : r \in S})
  /\ cell' = [r \in Cells |-> IF r \in S THEN "stale" ELSE cell[r]]
  /\ call' = Running(f, lo, hi)
  /\ UNCHANGED <<handle, callbacks, repr, scope, runs, misuse>>

(* Faulty variants: a null request is waited for; only the first request's *)
(* callbacks are run.                                                      *)
WaitAllReturn_NullBlocks ==
  /\ call.stage = "mpi" /\ call.fn = "all"
  /\ \A r \in call.lo .. call.hi : handle[r] # Null /\ Done(handle[r])
  /\ CompleteCopies(call.lo .. call.hi, "all", call.lo, call.hi)

WaitAllReturn_FirstOnly ==
  /\ call.stage = "mpi" /\ call.fn = "all"
  /\ \A r \in call.lo .. call.hi : Done(handle[r])
  /\ CompleteCopies({r \in call.lo .. call.hi : handle[r] # Null}, "all", call.lo, call.lo)

WaitAllReturn ==
  /\ call.stage = "mpi" /\ call.fn = "all"
  /\ \A r \in call.lo .. call.hi : Done(handle[r])
  /\ CompleteCopies({r \in call.lo .. call.hi : handle[r] # Null}, "all", call.lo, call.hi)

(* Faulty variant: the callbacks of the whole span are run.                *)
WaitAnyReturn_WholeSpan ==
  /\ call.stage = "mpi" /\ call.fn = "any"
  /\ \E r \in call.lo .. call.hi :
       /\ handle[r] # Null
       /\ Done(handle[r])
       /\ CompleteCopies({r}, "any", call.lo, call.hi)

(* MPI_Waitany picks any one complete operation.                           *)
WaitAnyReturn ==
  /\ call.stage = "mpi" /\ call.fn = "any"
  /\ \E r \in call.lo .. call.hi :
       /\ handle[r] # Null
       /\ Done(handle[r])
       /\ CompleteCopies({r}, "any", r, r)

(* All handles are null: MPI_UNDEFINED, and wait_any returns nullopt.      *)
WaitAnyNone ==
  /\ call.stage = "mpi" /\ call.fn = "any"
  /\ \A r \in call.lo .. call.hi : handle[r] = Null
  /\ call' = Idle
  /\ UNCHANGED <<objects, mpi, scope, runs, misuse>>

(* execute_all_callbacks: the loop over callbacks_ of the object in hand,  *)
Current == callbacks[call.at][call.pos]

RunCallback ==
  /\ call.stage = "run"
  /\ call.pos <= Len(callbacks[call.at])
  /\ runs' = [runs EXCEPT ![repr[call.at]][Current] = @ + 1]
  /\ call' = [call EXCEPT !.pos = @ + 1]
  /\ UNCHANGED <<objects, mpi, scope, misuse>>

(* Faulty variant: the loop runs one object too far.                       *)
ClearCallbacks_OneTooFar ==
  /\ call.stage = "run"
  /\ call.pos = Len(callbacks[call.at]) + 1
  /\ callbacks' = [callbacks EXCEPT ![call.at] = <<>>]
  /\ call' = IF call.at <= call.hi
             THEN [call EXCEPT !.at = @ + 1, !.pos = 1]
             ELSE Idle
  /\ UNCHANGED <<cell, handle, repr, mpi, scope, runs, misuse>>

(* Faulty variant: the list is not cleared.                                *)
ClearCallbacks_Keeps ==
  /\ call.stage = "run"
  /\ call.pos = Len(callbacks[call.at]) + 1
  /\ call' = IF call.at < call.hi THEN [call EXCEPT !.at = @ + 1, !.pos = 1] ELSE Idle
  /\ UNCHANGED <<objects, mpi, scope, runs, misuse>>

(* ... the clear() after it, and the next object of wait_all.              *)
ClearCallbacks ==
  /\ call.stage = "run"
  /\ call.pos = Len(callbacks[call.at]) + 1
  /\ callbacks' = [callbacks EXCEPT ![call.at] = <<>>]
  /\ call' = IF call.at < call.hi
             THEN [call EXCEPT !.at = @ + 1, !.pos = 1]
             ELSE Idle
  /\ UNCHANGED <<cell, handle, repr, mpi, scope, runs, misuse>>

(* Faulty variant: the lists of the whole span are cleared on the way out. *)
CallbackThrows_ClearsSpan ==
  /\ "throw" \in Beyond
  /\ call.stage = "run"
  /\ call.pos <= Len(callbacks[call.at])
  /\ Current = "user"
  /\ runs[repr[call.at]]["user"] = 0
  /\ runs' = [runs EXCEPT ![repr[call.at]]["user"] = @ + 1]
  /\ callbacks' = [r \in Cells |-> IF r \in call.lo .. call.hi THEN <<>> ELSE callbacks[r]]
  /\ call' = Idle
  /\ UNCHANGED <<cell, handle, repr, mpi, scope, misuse>>

(* A callback of the program throws (the first time it runs; this bounds   *)
(* the counts): the exception leaves the loop, the clear() is not reached, *)
(* and the program goes on after the call.                                 *)
CallbackThrows ==
  /\ "throw" \in Beyond
  /\ call.stage = "run"
  /\ call.pos <= Len(callbacks[call.at])
  /\ Current = "user"
  /\ runs[repr[call.at]]["user"] = 0
  /\ runs' = [runs EXCEPT ![repr[call.at]]["user"] = @ + 1]
  /\ call' = Idle
  /\ UNCHANGED <<objects, mpi, scope, misuse>>

-----------------------------------------------------------------------------
(* Moves and destruction.                                                  *)

(* May the program destroy or overwrite the object in cell r?              *)
MayLose(r) ==
  \/ cell[r] \in {"moved", "stale"}
  \/ cell[r] = "owner" /\ (handle[r] = Null \/ "drop" \in Beyond)

(* A defaulted move: the vector of callbacks is moved out, the MPI_Request *)
(* is copied and stays in the source as well.                              *)
Move(s, d) ==
  /\ cell' = [cell EXCEPT ![d] = "owner", ![s] = "moved"]
  /\ handle' = [handle EXCEPT ![d] = handle[s]]
  /\ callbacks' = [callbacks EXCEPT ![d] = callbacks[s], ![s] = <<>>]
  /\ repr' = [repr EXCEPT ![d] = repr[s], ![s] = NoOp]
  /\ UNCHANGED <<mpi, scope, call, runs, misuse>>

MoveConstruct(s, d) == Free /\ cell[s] = "owner" /\ cell[d] = "none" /\ Move(s, d)

(* The callbacks of the target are destroyed without having run.           *)
MoveAssign(s, d) == Free /\ cell[s] = "owner" /\ s # d /\ MayLose(d) /\ Move(s, d)

(* ~Request is defaulted: callbacks_ goes, MPI is told nothing.            *)
Destroy(r) ==
  /\ Free
  /\ MayLose(r)
  /\ cell' = [cell EXCEPT ![r] = "none"]
  /\ handle' = [handle EXCEPT ![r] = Null]
  /\ callbacks' = [callbacks EXCEPT ![r] = <<>>]
  /\ repr' = [repr EXCEPT ![r] = NoOp]
  /\ UNCHANGED <<mpi, scope, call, runs, misuse>>

-----------------------------------------------------------------------------
Program ==
  \/ \E o \in Ops, r \in Cells : Post(o, r)
  \/ \E r \in Cells : AddCallback(r) \/ Test(r) \/ WaitCall(r) \/ Destroy(r)
  \/ \E lo, hi \in Cells : WaitAllCall(lo, hi) \/ WaitAnyCall(lo, hi)
  \/ \E s, d \in Cells : MoveConstruct(s, d) \/ MoveAssign(s, d)
  \/ \E b \in Ops \X Bufs : DropView(b)

Inside ==
  \/ WaitReturn \/ WaitAllReturn \/ WaitAnyReturn \/ WaitAnyNone
  \/ RunCallback \/ ClearCallbacks \/ CallbackThrows

Next == Program \/ Inside \/ \E o \in Ops : MpiComplete(o)

Spec == Init /\ [][Next]_vars

(* The thread that is inside a call goes on, and the MPI library completes *)
(* every operation it has started.                                         *)
FairSpec == Spec /\ WF_vars(Inside) /\ \A o \in Ops : WF_vars(MpiComplete(o))

-----------------------------------------------------------------------------
(* The cursor of a completion call is inside its span and its list.        *)
CursorOK ==
  /\ call.stage # "idle" => /\ {call.lo, call.hi, call.at} \subseteq Cells
                            /\ call.lo <= call.at /\ call.at <= call.hi
  /\ call.stage = "run" => call.pos <= Len(callbacks[call.at]) + 1

CallType == [stage : {"idle", "mpi", "run"}, fn : {"none", "wait", "test", "all", "any"},
             lo : Nat, hi : Nat, at : Nat, pos : Nat \ {0}]

(* Types: execute_all_callbacks never indexes outside callbacks_ or the    *)
(* span it was given.                                                      *)
TypeOK ==
  /\ cell \in [Cells -> {"none", "owner", "moved", "stale"}]
  /\ handle \in [Cells -> Handles \union {Null}]
  /\ callbacks \in [Cells -> Seq(Kinds)]
  /\ repr \in [Cells -> Ops \union {NoOp}]
  /\ opState \in [Ops -> {"idle", "active", "complete", "freed"}]
  /\ bound \in [Handles -> Ops \union {NoOp}]
  /\ scope \subseteq Ops \X Bufs
  /\ call \in CallType
  /\ CursorOK
  /\ runs \in [Ops -> [Kinds -> Nat]]
  /\ misuse \in BOOLEAN

(* While MPI reads or writes a buffer, somebody holds its memory: the      *)
(* program may drop its views as soon as the call has returned.            *)
BuffersOutliveOperation ==
  \A o \in Ops : opState[o] = "active" => {o} \X MpiUses(o) \subseteq Allocated

(* No MPI call is given a handle that MPI has freed.                       *)
NoFreedHandle == ~misuse

(* Once the program is back from a completion call, every callback that    *)
(* the library registered for a finished operation has run exactly once:   *)
(* received data is in the program's view.  The program's own callback,    *)
(* which it may add or not, is not counted here.                           *)
Delivered(o) ==
  \A k \in Kinds \ {"user"} :
    runs[o][k] = IF \E i \in DOMAIN Registered(o) : Registered(o)[i] = k THEN 1 ELSE 0

FinishedMeansDelivered ==
  call.stage = "idle" => \A o \in Ops : opState[o] = "freed" => Delivered(o)

(* The program's own callback finds the data unpacked.                     *)
UnpackBeforeUser ==
  [][\A o \in Ops :
       runs'[o]["user"] > runs[o]["user"] /\ PacksRecv(o) => runs[o]["unpack"] >= 1]_vars

(* Every callback runs at most once (docs/api/core.rst: it is impossible   *)
(* for the same callback to be executed more than once).                   *)
CallbackOnce == \A o \in Ops, k \in Kinds : runs[o][k] <= 1

(* Also with exceptions, only the operation whose own callback has run,    *)
(* and may have thrown, has callbacks that run again: wait_all repeats     *)
(* nothing of the other requests of its span.                              *)
RepeatsOnlyOwn ==
  \A o \in Ops, k \in Kinds : runs[o][k] > 1 => runs[o]["user"] >= 1

(* A completion call loses no callback, and with it no buffer, before it   *)
(* has run: what an exception makes wait_all skip stays with its Request.  *)
Listed(o, k) ==
  \E r \in Cells : repr[r] = o /\ \E i \in DOMAIN callbacks[r] : callbacks[r][i] = k

KeptUntilRun ==
  [][call.stage # "idle" =>
       \A o \in Ops, k \in Kinds : Listed(o, k) => Listed(o, k)' \/ runs'[o][k] >= 1]_vars

(* A completion call returns.                                              *)
CallsReturn == call.stage # "idle" ~> call.stage = "idle"

-----------------------------------------------------------------------------
(* The objects, handles and moves implement the contract.                  *)
Phase == [o \in Ops |-> CASE opState[o] = "idle" -> "idle"
                          [] opState[o] = "active" -> "pending"
                          [] OTHER -> "over"]

Contract == INSTANCE RequestContract WITH
  Uses <- [o \in Ops |-> MpiUses(o)],
  Touches <- [o \in Ops |-> [k \in Kinds |-> TouchedBy(o, k)]],
  phase <- Phase,
  done <- [o \in Ops |-> {k \in Kinds : runs[o][k] > 0}],
  held <- Allocated

KeepsContract == Contract!Spec
=============================================================================
