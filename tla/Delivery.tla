------------------------------ MODULE Delivery ------------------------------
(***************************************************************************)
(* What the calls of the library promise a program that runs on several    *)
(* ranks, whatever they pack, fence and copy: each call gives a rank the   *)
(* data that its peers produced for the matching call, and only after they *)
(* have begun that call; and the program is ended only by a call with      *)
(* views that the called function does not support.                        *)
(*                                                                         *)
(* program[p] is the sequence of calls that rank p makes.  A call has a    *)
(* function fn, the layout s of its send view and r of its receive view    *)
(* ("dense" or "strided"), their extents sext and rext, the sendCount and  *)
(* recvCount of an alltoall, a root, a peer with a tag and a mode, the     *)
(* pair v of views it uses, and for a wait the call `of` whose operation   *)
(* it completes.                                                           *)
(* Produced data is <<rank, call>>, and a view holds a set of those.       *)
(***************************************************************************)
EXTENDS Integers, Sequences, FiniteSets

CONSTANT Ranks

VARIABLES
  program,
  begun,   \* begun[p]: how many calls p has begun
  got,     \* got[p]: what calls gave p, as pairs of a call and a set of data
  aborted  \* the program was ended by a call

vars == <<program, begun, got, aborted>>

-----------------------------------------------------------------------------
Senders == {"send", "isend", "isend_low"}
Receivers == {"recv", "recv_low", "irecv", "irecv_low"}
Posts == {"isend", "isend_low", "irecv", "irecv_low"}
Gathers == {"allgather", "allgather_low", "allgather_inplace", "alltoall", "alltoall_inplace",
            "allreduce", "allreduce_low", "allreduce_inplace", "allreduce_inplace_low"}
Broadcasts == {"broadcast", "broadcast_low"}
Reductions == {"reduce", "reduce_low"}
InclusiveScans == {"inclusive_scan", "inclusive_scan_low"}
ExclusiveScans == {"exclusive_scan", "exclusive_scan_low"}
Scans == InclusiveScans \union ExclusiveScans
PointToPoint == Senders \union Receivers \union {"wait"}

(* The operation a call is about: of a wait, the one it waits for.         *)
Subject(p, i) == IF program[p][i].fn = "wait" THEN program[p][i].of ELSE i

(* The ranks whose data call i of p brings to p.  A receive that is only   *)
(* posted brings nothing yet.                                              *)
From(p, i) ==
  LET c == program[p][i] IN
  CASE c.fn \in Gathers -> Ranks
    [] c.fn \in Broadcasts -> {c.root}
    [] c.fn \in Reductions -> IF p = c.root THEN Ranks ELSE {}
    [] c.fn \in InclusiveScans -> {q \in Ranks : q <= p}
    [] c.fn \in ExclusiveScans -> {q \in Ranks : q < p}
    [] c.fn \in Receivers \ Posts -> {c.peer}
    [] c.fn = "wait" -> IF program[p][c.of].fn \in Receivers THEN {program[p][c.of].peer} ELSE {}
    [] OTHER -> {}

(* The ranks that have to be in the matching call before call i can end.   *)
Needed(p, i) ==
  LET c == program[p][i]
      d == program[p][Subject(p, i)]
  IN  CASE c.fn = "barrier" -> Ranks
        [] c.fn \in {"send", "wait"} /\ d.fn \in Senders /\ d.mode = "synchronous" -> {d.peer}
        [] OTHER -> From(p, i)

(* The call of q that matches call i of p: the n-th collective matches the *)
(* n-th, and the n-th message for a peer with some tag the n-th receive.   *)
Matching(p, i, q) ==
  LET c == program[p][Subject(p, i)]
      Mine(d) == IF c.fn \in PointToPoint
                 THEN d.fn \in Senders <=> c.fn \in Senders
                 ELSE d.fn \notin PointToPoint
      Like(a, d) == /\ d.fn # "wait"
                    /\ c.fn \in PointToPoint =>
                         d.fn \in PointToPoint /\ d.peer = a /\ d.tag = c.tag
      mine == {j \in 1 .. Subject(p, i) : Like(q, program[p][j]) /\ Mine(program[p][j])}
      theirs(n) == {j \in 1 .. n : /\ Like(p, program[q][j])
                                   /\ IF c.fn \in PointToPoint THEN ~ Mine(program[q][j])
                                      ELSE Mine(program[q][j])}
  IN  CHOOSE n \in theirs(Len(program[q])) : Cardinality(theirs(n)) = Cardinality(mine)

Expected(p, i) == {<<q, Matching(p, i, q)>> : q \in From(p, i)}

(* The views a function takes: packing is for send, receive and reduce,    *)
(* alltoall moves sendCount elements to every rank and recvCount from it,  *)
(* and the views of an allreduce and of a scan are of one size.            *)
Supported(p, i) ==
  LET c == program[p][i]
      fits(count, extent) == count * Cardinality(Ranks) <= extent
  IN  \/ c.fn \in {"send", "recv", "isend", "irecv", "reduce", "barrier", "wait"}
      \/ c.s = "dense" /\ c.r = "dense"
         /\ (c.fn = "alltoall" => fits(c.sendCount, c.sext))
         /\ (c.fn \in {"alltoall", "alltoall_inplace"} => fits(c.recvCount, c.rext))
         /\ (c.fn \in Scans \union {"allreduce", "allreduce_low"} => c.sext = c.rext)

-----------------------------------------------------------------------------
Last(p) == IF got[p] = <<>> THEN 0 ELSE got[p][Len(got[p])][1]

Begin(p) ==
  /\ begun[p] < Len(program[p])
  /\ begun' = [begun EXCEPT ![p] = @ + 1]
  /\ UNCHANGED <<program, got, aborted>>

(* Only calls that are not supported are passed over.                      *)
Deliver(p, i) ==
  /\ i \in Last(p) + 1 .. begun[p]
  /\ \A j \in Last(p) + 1 .. i - 1 : ~ Supported(p, j)
  /\ Supported(p, i)
  /\ \A q \in Needed(p, i) : Matching(p, i, q) <= begun[q]
  /\ got' = [got EXCEPT ![p] = Append(@, <<i, Expected(p, i)>>)]
  /\ UNCHANGED <<program, begun, aborted>>

(* The documentation lets a raw irecv throw as well (docs/api/mpi.rst:190), *)
(* but it ends the program like every other call (mpi/irecv.hpp:57).       *)
Abort(p) ==
  /\ begun[p] > 0 /\ ~ Supported(p, begun[p])
  /\ program[p][begun[p]].fn \notin Scans   \* those throw
  /\ aborted' = TRUE
  /\ UNCHANGED <<program, begun, got>>

Init ==
  /\ begun = [p \in Ranks |-> 0]
  /\ got = [p \in Ranks |-> <<>>]
  /\ aborted = FALSE

Next ==
  \E p \in Ranks : Begin(p) \/ Abort(p) \/ \E i \in DOMAIN program[p] : Deliver(p, i)

Spec == Init /\ [][Next]_vars

=============================================================================
