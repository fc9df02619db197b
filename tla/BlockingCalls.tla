---------------------------- MODULE BlockingCalls ----------------------------
(***************************************************************************)
(* The blocking functions of KokkosComm::mpi, the non-blocking ones for    *)
(* messages and what they do around MPI: refuse views they do not support, *)
(* pack, fence the execution space, call MPI, unpack.                      *)
(*                                                                         *)
(* Each rank has a host thread, which runs the calls of its program, and   *)
(* one execution space, whose kernels run later and in order: those of the *)
(* program, which produce the data of a call before it and consume what it *)
(* brought after it, and those of the library, which pack and unpack.  A   *)
(* function is the list of the steps its code takes; each step is one      *)
(* action.  MPI is external: it may or may not buffer a standard send, and *)
(* lets a rank leave a collective as early as the data allows.             *)
(*                                                                         *)
(* Of the program it is assumed that all ranks call collectives in one     *)
(* order and with one root, and are refused a scan alike (FitsAssumption), *)
(* that it does not use the views of an operation it has to wait for       *)
(* (BlockingCallsAssumption), that a ready send finds its receive posted,  *)
(* and that it fences itself before the low-level overloads, which know no *)
(* execution space.                                                        *)
(***************************************************************************)
EXTENDS Integers, Sequences, FiniteSets, Functions

CONSTANTS
  Ranks,      \* 0 .. N - 1
  Programs,   \* the programs, functions from Ranks to sequences of calls
  Views       \* pairs of a send view and a receive view

VARIABLES
  program,
  at,       \* at[p]: the number of the call p is in, or was in last
  todo,     \* todo[p]: the steps that are left of it
  queue,    \* queue[p]: the kernels in p's execution space
  buf,      \* buf[p]: the data in the memory of p
  entered,  \* entered[p]: what p contributed to each collective it entered
  posted,   \* posted[p]: the messages p has asked MPI to send or receive
  got, aborted

vars == <<program, at, todo, queue, buf, entered, posted, got, aborted>>

Promise == INSTANCE Delivery WITH begun <- at

CallRecords ==
  [fn : Promise!Senders \union Promise!Receivers \union Promise!Gathers \union Promise!Broadcasts
          \union Promise!Reductions \union Promise!Scans \union {"barrier", "wait"},
   s : {"dense", "strided"}, r : {"dense", "strided"}, sext : Nat, rext : Nat,
   sendCount : Nat, recvCount : Nat,
   root : Ranks, peer : Ranks, tag : Nat, mode : {"standard", "ready", "synchronous"},
   v : Views, of : Nat]

WaitsFor(calls, i, j) == calls[i].fn = "wait" /\ calls[i].of = j

(* A program waits at most once for an operation it has started, and uses   *)
(* its views again only after that.                                        *)
ASSUME BlockingCallsAssumption ==
  \A prog \in Programs :
    /\ prog \in [Ranks -> Seq(CallRecords)]
    /\ \A p \in Ranks : \A i \in DOMAIN prog[p] :
         LET c == prog[p][i] IN
         /\ c.fn = "wait" =>
              /\ c.of \in 1 .. i - 1 /\ prog[p][c.of].fn \in Promise!Posts
              /\ \A h \in 1 .. i - 1 : ~ WaitsFor(prog[p], h, c.of)
         /\ c.fn \notin {"wait", "barrier"} =>
              \A j \in 1 .. i - 1 :
                prog[p][j].fn \in Promise!Posts /\ prog[p][j].v = c.v =>
                  \E h \in j + 1 .. i - 1 : WaitsFor(prog[p], h, j)

Calls(p) == DOMAIN program[p]
Current(p) == program[p][at[p]]

-----------------------------------------------------------------------------
(* The functions.  Names ending in _low are overloads without an execution *)
(* space, those with _inplace have one view for both directions.           *)

Packs(c) == c.fn \in {"send", "isend", "reduce"} /\ c.s = "strided"
Unpacks(p, c) ==
  /\ c.fn \in {"recv", "irecv", "reduce"} /\ c.r = "strided"
  /\ c.fn = "reduce" => p = c.root

allgather_low == <<"contiguous", "collective", "leave">>
allgather_inplace == <<"contiguous", "fence", "collective", "leave">>
allgather == <<"contiguous", "fence">> \o allgather_low

allreduce_low == <<"contiguous", "equal", "collective", "leave">>
allreduce_inplace_low == <<"contiguous", "collective", "leave">>
allreduce == <<"contiguous", "fence">> \o allreduce_low
allreduce_inplace == <<"contiguous", "fence">> \o allreduce_inplace_low

alltoall == <<"fence", "contiguous", "fit", "collective", "leave">>
alltoall_inplace == <<"fence", "contiguous", "fit", "collective", "leave">>

broadcast_low == <<"contiguous", "collective", "leave">>
broadcast == <<"fence">> \o broadcast_low

barrier == <<"collective", "leave">>

(* Faulty variant: the fence comes before the packing.                     *)
reduce_FenceFirst(p, c) ==
  <<"fence">> \o (IF Packs(c) THEN <<"pack">> ELSE <<>>) \o <<"collective", "leave">>
    \o (IF Unpacks(p, c) THEN <<"unpack">> ELSE <<>>)

reduce_low == <<"contiguous", "collective", "leave">>

reduce(p, c) ==
  (IF Packs(c) THEN <<"pack">> ELSE <<>>)
    \o <<"fence", "collective", "leave">>
    \o (IF Unpacks(p, c) THEN <<"unpack">> ELSE <<>>)

inclusive_scan_low == <<"contiguous", "equal", "collective", "leave">>
exclusive_scan_low == <<"contiguous", "equal", "collective", "leave">>
inclusive_scan == <<"contiguous", "fence">> \o inclusive_scan_low
exclusive_scan == <<"contiguous", "fence">> \o exclusive_scan_low

send(c) == (IF Packs(c) THEN <<"pack">> ELSE <<>>) \o <<"fence", "message", "finish">>

(* Faulty variants: a receive that does not fence, one that does not wait. *)
recv_NoFence(p, c) ==
  <<"message", "finish">> \o (IF Unpacks(p, c) THEN <<"unpack">> ELSE <<>>)
recv_Posts(p, c) == <<"fence", "message">> \o (IF Unpacks(p, c) THEN <<"unpack">> ELSE <<>>)

recv_low == <<"contiguous", "message", "finish">>

recv(p, c) ==
  <<"fence", "message", "finish">> \o (IF Unpacks(p, c) THEN <<"unpack">> ELSE <<>>)

isend(c) == (IF Packs(c) THEN <<"pack">> ELSE <<>>) \o <<"fence", "message">>
isend_low == <<"contiguous", "message">>
irecv == <<"fence", "message">>
irecv_low == <<"contiguous", "message">>

(* Request::wait with the callback that irecv registers for a strided view. *)
wait(p, c) ==
  <<"finish">> \o (IF Unpacks(p, program[p][c.of]) THEN <<"unpack", "fence">> ELSE <<>>)

Function(p, c) ==
  CASE c.fn = "allgather_low" -> allgather_low
    [] c.fn = "allgather_inplace" -> allgather_inplace
    [] c.fn = "allgather" -> allgather
    [] c.fn = "allreduce_low" -> allreduce_low
    [] c.fn = "allreduce_inplace_low" -> allreduce_inplace_low
    [] c.fn = "allreduce" -> allreduce
    [] c.fn = "allreduce_inplace" -> allreduce_inplace
    [] c.fn = "alltoall" -> alltoall
    [] c.fn = "alltoall_inplace" -> alltoall_inplace
    [] c.fn = "broadcast_low" -> broadcast_low
    [] c.fn = "broadcast" -> broadcast
    [] c.fn = "barrier" -> barrier
    [] c.fn = "reduce_low" -> reduce_low
    [] c.fn = "reduce" -> reduce(p, c)
    [] c.fn = "inclusive_scan_low" -> inclusive_scan_low
    [] c.fn = "exclusive_scan_low" -> exclusive_scan_low
    [] c.fn = "inclusive_scan" -> inclusive_scan
    [] c.fn = "exclusive_scan" -> exclusive_scan
    [] c.fn = "send" -> send(c)
    [] c.fn = "recv_low" -> recv_low
    [] c.fn = "recv" -> recv(p, c)
    [] c.fn = "isend" -> isend(c)
    [] c.fn = "isend_low" -> isend_low
    [] c.fn = "irecv" -> irecv
    [] c.fn = "irecv_low" -> irecv_low
    [] c.fn = "wait" -> wait(p, c)

(* The low-level overloads know no execution space: the program fences.    *)
(* Whatever the function, the program then uses what it brought.           *)
Low == {"allgather_low", "allreduce_low", "allreduce_inplace_low", "broadcast_low", "reduce_low",
        "inclusive_scan_low", "exclusive_scan_low", "recv_low", "isend_low", "irecv_low"}

Steps(p, c) ==
  LET steps == Function(p, c) \o <<"consume">>
  IN  IF c.fn \in Low THEN <<"fence">> \o steps ELSE steps

(* Faulty variant: a standard send becomes a ready one.                    *)
SendFunction_Ready(c) == IF c.mode = "synchronous" THEN "MPI_Ssend" ELSE "MPI_Rsend"

(* Which MPI call carries out a send.                                      *)
SendFunction(c) ==
  CASE c.mode = "standard" -> "MPI_Send"
    [] c.mode = "ready" -> "MPI_Rsend"
    [] c.mode = "synchronous" -> "MPI_Ssend"

(* Generic operations have one tag; the others take it from the program.   *)
POINTTOPOINT_TAG == 17
Tag(c) == IF c.fn = "irecv" THEN POINTTOPOINT_TAG ELSE c.tag

-----------------------------------------------------------------------------
(* Memory.  A packed copy belongs to the call that allocated it.           *)

InPlace(c) ==
  c.fn \in {"allgather_inplace", "alltoall_inplace", "allreduce_inplace", "allreduce_inplace_low"}
           \union Promise!Broadcasts

(* Whether call i has data of p's own, and in which view it is.            *)
Contributes(p, c) ==
  \/ c.fn \in Promise!Senders \union Promise!Gathers \union Promise!Reductions \union Promise!Scans
  \/ c.fn \in Promise!Broadcasts /\ p = c.root

OwnView(c) == <<IF InPlace(c) THEN "rv" ELSE "sv", c.v>>
RecvView(c) == <<"rv", c.v>>

(* The buffers that MPI is given.                                          *)
SendBuffer(p, i) == IF Packs(program[p][i]) THEN <<"packed sv", i>> ELSE OwnView(program[p][i])
RecvBuffer(p, i) ==
  IF Unpacks(p, program[p][i]) THEN <<"packed rv", i>> ELSE RecvView(program[p][i])

Buffers(p) ==
  ({"sv", "rv"} \X Views) \union ({"packed sv", "packed rv"} \X Calls(p))

(* What a kernel reads and writes.  What was received is read in the views *)
(* of the operation that a wait is about.                                  *)
Reads(p, k) ==
  LET c == program[p][k.call] IN
  CASE k.op = "pack" -> {OwnView(c)}
    [] k.op = "unpack" -> {<<"packed rv", Promise!Subject(p, k.call)>>}
    [] k.op = "consume" /\ Promise!From(p, k.call) # {} ->
         {RecvView(program[p][Promise!Subject(p, k.call)])}
    [] OTHER -> {}

Writes(p, k) ==
  LET c == program[p][k.call] IN
  CASE k.op = "pack" -> {<<"packed sv", k.call>>}
    [] k.op = "unpack" -> {RecvView(program[p][Promise!Subject(p, k.call)])}
    [] k.op = "produce" -> {RecvView(c)} \union (IF Contributes(p, c) THEN {OwnView(c)} ELSE {})
    [] OTHER -> {}

(* What MPI may read and write on behalf of p at this moment.              *)
MpiReads(p) ==
  {SendBuffer(p, m.call) : m \in {n \in Range(posted[p]) : n.open /\ n.kind = "send"}}
  \union IF todo[p] # <<>> /\ Head(todo[p]) = "leave" /\ Contributes(p, Current(p))
         THEN {SendBuffer(p, at[p])} ELSE {}

MpiWrites(p) ==
  {RecvBuffer(p, m.call) : m \in {n \in Range(posted[p]) : n.open /\ n.kind = "recv"}}
  \union IF todo[p] # <<>> /\ Head(todo[p]) = "leave" /\ Promise!From(p, at[p]) # {}
         THEN {RecvBuffer(p, at[p])} ELSE {}

-----------------------------------------------------------------------------
(* Which views the functions take.                                         *)

is_contiguous(c) == c.s = "dense" /\ c.r = "dense"

fits(c) ==
  LET size == Cardinality(Ranks)
  IN  /\ c.fn = "alltoall" => c.sendCount * size <= c.sext
      /\ c.recvCount * size <= c.rext

Takes(c) ==
  \/ c.fn \in {"send", "recv", "isend", "irecv", "reduce", "barrier", "wait"}
  \/ /\ is_contiguous(c)
     /\ c.fn \in {"alltoall", "alltoall_inplace"} => fits(c)
     /\ c.fn \in Promise!Scans \union {"allreduce", "allreduce_low"} => c.sext = c.rext

(* What MPI assumes of programs that run together.  The place of n in a    *)
(* set of numbers is how many of them are not greater.                     *)
Upto(T, n) == {j \in T : j <= n}
Place(T, n) == Cardinality(Upto(T, n))

Numbers(g, p) == 1 .. Len(g[p])
Colls(g, p) == {i \in Numbers(g, p) : g[p][i].fn \notin Promise!PointToPoint}

Kinds == {Promise!Gathers, Promise!Broadcasts, Promise!Reductions, Promise!InclusiveScans,
          Promise!ExclusiveScans, {"barrier"}}

(* The n-th collective of all ranks is of one kind, and has one root if it *)
(* is a broadcast; a scan, which throws where other collectives abort, is  *)
(* refused on all of them or on none.  An irecv has no tag of its own.     *)
Fits(g) ==
  /\ \A p \in Ranks : \A i \in Numbers(g, p) : g[p][i].fn = "irecv" => g[p][i].tag = POINTTOPOINT_TAG
  /\ \A p, q \in Ranks : \A i \in Colls(g, p), j \in Colls(g, q) :
       Place(Colls(g, p), i) = Place(Colls(g, q), j) =>
         /\ \A K \in Kinds : g[p][i].fn \in K <=> g[q][j].fn \in K
         /\ g[p][i].fn \in Promise!Broadcasts => g[p][i].root = g[q][j].root
         /\ g[p][i].fn \in Promise!Scans => (Takes(g[p][i]) <=> Takes(g[q][j]))

ASSUME FitsAssumption == \A prog \in Programs : Fits(prog)

-----------------------------------------------------------------------------
Init ==
  /\ program \in Programs
  /\ at = [p \in Ranks |-> 0]
  /\ todo = [p \in Ranks |-> <<>>]
  /\ queue = [p \in Ranks |-> <<>>]
  /\ buf = [p \in Ranks |-> [b \in Buffers(p) |-> {}]]
  /\ entered = [p \in Ranks |-> <<>>]
  /\ posted = [p \in Ranks |-> <<>>]
  /\ got = [p \in Ranks |-> <<>>]
  /\ aborted = FALSE

At(p, step) == ~ aborted /\ todo[p] # <<>> /\ Head(todo[p]) = step
Done(p) == todo' = [todo EXCEPT ![p] = Tail(@)]
Launch(p, op) == queue' = [queue EXCEPT ![p] = Append(@, [op |-> op, call |-> at[p]])]

(* The program makes its next call: its own kernel first, then the steps   *)
(* of the function, then the kernel that uses the result.                  *)
Call(p) ==
  /\ ~ aborted /\ todo[p] = <<>> /\ at[p] < Len(program[p])
  /\ at' = [at EXCEPT ![p] = @ + 1]
  /\ LET c == program[p][at[p] + 1]
     IN  /\ todo' = [todo EXCEPT ![p] = Steps(p, c)]
         /\ IF c.fn \in {"barrier", "wait"} THEN queue' = queue
            ELSE queue' = [queue EXCEPT ![p] = Append(@, [op |-> "produce", call |-> at'[p]])]
  /\ UNCHANGED <<program, buf, entered, posted, got, aborted>>

(* fail_if, and the exceptions of the scans.                               *)
Check(p) ==
  /\ \E step \in {"contiguous", "equal", "fit"} :
       /\ At(p, step)
       /\ LET c == Current(p)
              accepted == CASE step = "contiguous" -> is_contiguous(c)
                            [] step = "equal" -> c.sext = c.rext
                            [] step = "fit" -> fits(c)
          IN  \/ accepted /\ Done(p) /\ UNCHANGED aborted
              \/ /\ ~ accepted /\ c.fn \in Promise!Scans
                 /\ todo' = [todo EXCEPT ![p] = <<>>] /\ UNCHANGED aborted
              \/ ~ accepted /\ c.fn \notin Promise!Scans /\ aborted' = TRUE /\ UNCHANGED todo
  /\ UNCHANGED <<program, at, queue, buf, entered, posted, got>>

Fence(p) ==
  /\ At(p, "fence") /\ queue[p] = <<>>
  /\ Done(p)
  /\ UNCHANGED <<program, at, queue, buf, entered, posted, got, aborted>>

(* Packing, unpacking and the program's consumer are only enqueued.        *)
Enqueue(p) ==
  /\ \E op \in {"pack", "unpack", "consume"} : At(p, op) /\ Launch(p, op)
  /\ Done(p)
  /\ UNCHANGED <<program, at, buf, entered, posted, got, aborted>>

Contribution(p, i) ==
  IF Contributes(p, program[p][i]) THEN buf[p][SendBuffer(p, i)] ELSE {}

Enter(p) ==
  /\ At(p, "collective") /\ Done(p)
  /\ entered' = [entered EXCEPT ![p] = Append(@, Contribution(p, at[p]))]
  /\ UNCHANGED <<program, at, queue, buf, posted, got, aborted>>

(* MPI: p is let out of a collective as soon as its data has come.         *)
Leave(p) ==
  /\ At(p, "leave") /\ Done(p)
  /\ LET n == Len(entered[p])
         from == Promise!From(p, at[p])
     IN  /\ \A q \in Promise!Needed(p, at[p]) : Len(entered[q]) >= n
         /\ buf' = IF from = {} THEN buf
                   ELSE [buf EXCEPT ![p][RecvBuffer(p, at[p])] = UNION {entered[q][n] : q \in from}]
  /\ UNCHANGED <<program, at, queue, entered, posted, got, aborted>>

(* The first of p's messages of some kind that waits for peer and tag.     *)
Waiting(p, kind, peer, tag) ==
  {m \in DOMAIN posted[p] : LET n == posted[p][m] IN
     n.kind = kind /\ n.peer = peer /\ n.tag = tag /\ ~ n.matched}

(* A message is given to MPI.  A ready send that finds no receive is lost. *)
Message(p) ==
  /\ At(p, "message") /\ Done(p)
  /\ LET c == Current(p)
         sends == c.fn \in Promise!Senders
         lost == sends /\ SendFunction(c) = "MPI_Rsend" /\ Waiting(c.peer, "recv", p, Tag(c)) = {}
     IN  posted' = [posted EXCEPT ![p] = Append(@,
           [kind |-> IF sends THEN "send" ELSE "recv", peer |-> c.peer, tag |-> Tag(c),
            call |-> at[p], data |-> Contribution(p, at[p]), matched |-> FALSE,
            lost |-> lost, open |-> TRUE])]
  /\ UNCHANGED <<program, at, queue, buf, entered, got, aborted>>

(* MPI: messages between two ranks with one tag meet receives in order.    *)
Match(p, q) ==
  \E s \in DOMAIN posted[p] :
    LET n == posted[p][s] IN
    /\ ~ aborted /\ ~ n.lost
    /\ s \in Waiting(p, "send", q, n.tag) /\ \A t \in Waiting(p, "send", q, n.tag) : s <= t
    /\ \E r \in Waiting(q, "recv", p, n.tag) :
         /\ \A t \in Waiting(q, "recv", p, n.tag) : r <= t
         /\ posted' = [posted EXCEPT ![p][s].matched = TRUE, ![q][r].matched = TRUE]
         /\ buf' = [buf EXCEPT ![q][RecvBuffer(q, posted[q][r].call)] = n.data]
    /\ UNCHANGED <<program, at, todo, queue, entered, got, aborted>>

(* MPI: the blocking call, or the wait, returns.  Only a send that is not  *)
(* synchronous can be done before it was matched: its data was copied.     *)
Finish(p) ==
  /\ At(p, "finish") /\ Done(p)
  /\ \E m \in DOMAIN posted[p] :
       /\ posted[p][m].call = Promise!Subject(p, at[p])
       /\ \/ posted[p][m].matched
          \/ /\ posted[p][m].kind = "send"
             /\ SendFunction(program[p][posted[p][m].call]) # "MPI_Ssend"
       /\ posted' = [posted EXCEPT ![p][m].open = FALSE]
  /\ UNCHANGED <<program, at, queue, buf, entered, got, aborted>>

(* The execution space runs its first kernel.                              *)
Run(p) ==
  /\ ~ aborted /\ queue[p] # <<>>
  /\ queue' = [queue EXCEPT ![p] = Tail(@)]
  /\ LET k == Head(queue[p])
         c == program[p][k.call]
         Read == UNION {buf[p][b] : b \in Reads(p, k)}
     IN  /\ buf' = [buf EXCEPT ![p] = [b \in Buffers(p) |->
              IF b \notin Writes(p, k) THEN buf[p][b]
              ELSE IF k.op # "produce" THEN Read
              ELSE IF Contributes(p, c) /\ b = OwnView(c) THEN {<<p, k.call>>} ELSE {}]]
         /\ got' = IF k.op = "consume" THEN [got EXCEPT ![p] = Append(@, <<k.call, Read>>)] ELSE got
  /\ UNCHANGED <<program, at, todo, entered, posted, aborted>>

-----------------------------------------------------------------------------
Step(p) == Call(p) \/ Check(p) \/ Fence(p) \/ Enqueue(p) \/ Enter(p) \/ Message(p)

Next ==
  \/ \E p \in Ranks : Step(p) \/ Leave(p) \/ Finish(p) \/ Run(p)
  \/ \E p, q \in Ranks : Match(p, q)

Spec == Init /\ [][Next]_vars

(* Host threads and execution spaces go on.  MPI completes a collective    *)
(* when all ranks are in it, and matches and completes messages; that it   *)
(* buffers a send, or lets a rank out early, must not be relied on.        *)
Together(p) == \A q \in Ranks : Len(entered[q]) >= Len(entered[p])
Matched(p) ==
  \E m \in DOMAIN posted[p] :
    posted[p][m].call = Promise!Subject(p, at[p]) /\ posted[p][m].matched

FairSpec ==
  /\ Spec
  /\ \A p \in Ranks :
       /\ WF_vars(Step(p)) /\ WF_vars(Run(p))
       /\ WF_vars(Together(p) /\ Leave(p))
       /\ WF_vars(Matched(p) /\ Finish(p))
       /\ \A q \in Ranks : WF_vars(Match(p, q))

-----------------------------------------------------------------------------
(* The variables have their types: kernels and data are of calls that were *)
(* begun, and a blocking call leaves no operation behind.                  *)
TypeOK ==
  /\ \A p \in Ranks :
       /\ at[p] \in 0 .. Len(program[p])
       /\ todo[p] # <<>> => at[p] > 0
       /\ \A k \in Range(queue[p]) :
            k.op \in {"produce", "pack", "unpack", "consume"} /\ k.call \in 1 .. at[p]
       /\ \A b \in Buffers(p) : \A d \in buf[p][b] : d[1] \in Ranks /\ d[2] \in 1 .. at[d[1]]
       /\ \A m \in Range(posted[p]) :
            /\ m.call \in 1 .. at[p] /\ m.peer \in Ranks
            /\ m.open /\ todo[p] = <<>> => program[p][m.call].fn \in Promise!Posts
  /\ aborted \in BOOLEAN

(* Kernels that are still to run keep away from the memory that MPI is     *)
(* using: none writes what MPI reads or writes, none reads what MPI        *)
(* writes.  This is what the fences, and their places, are for; a kernel   *)
(* enqueued by an earlier call counts as well.                             *)
Quiet ==
  \A p \in Ranks : \A k \in Range(queue[p]) :
    /\ Writes(p, k) \intersect (MpiReads(p) \union MpiWrites(p)) = {}
    /\ Reads(p, k) \intersect MpiWrites(p) = {}

(* Each call gives the data its peers produced for the matching call, in   *)
(* the order of the calls, and only unsupported views end the program.     *)
KeepsDelivery == Promise!Spec

(* Every rank gets through its program, unless a call ends it: no rank     *)
(* waits in MPI for one that does not come, also when MPI buffers nothing. *)
AllCallsEnd ==
  <>(aborted \/ \A p \in Ranks : at[p] = Len(program[p]) /\ todo[p] = <<>> /\ queue[p] = <<>>)

=============================================================================
