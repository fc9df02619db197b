--------------------------- MODULE MCBlockingCalls ---------------------------
(* Two ranks that make two calls on the same views: every collective after *)
(* every other, every message function against every other, and exchanges. *)
EXTENDS BlockingCalls

MCBase == [fn |-> "barrier", s |-> "dense", r |-> "dense", sext |-> 2, rext |-> 2,
           sendCount |-> 1, recvCount |-> 1, root |-> 1, peer |-> 0, tag |-> 17, mode |-> "standard", v |-> 1, of |-> 0]

MCCollective(fn) == [MCBase EXCEPT !.fn = fn]
MCSend(fn, s, mode) == [MCBase EXCEPT !.fn = fn, !.s = s, !.mode = mode, !.peer = 1]
MCRecv(fn, r) == [MCBase EXCEPT !.fn = fn, !.r = r]
MCWait(i) == [MCBase EXCEPT !.fn = "wait", !.of = i]

MCCollectives ==
  {MCCollective(fn) : fn \in Promise!Gathers \union Promise!Broadcasts \union Promise!Reductions
                              \union Promise!Scans \union {"barrier"}}
  \union {[MCCollective("reduce") EXCEPT !.s = s, !.r = r] : s, r \in {"dense", "strided"}}
  \union {[MCCollective("broadcast") EXCEPT !.root = 0]}

(* Calls that are refused: for their layout, and for their sizes.          *)
MCRefused ==
  {[MCCollective(fn) EXCEPT !.r = "strided"] :
     fn \in Promise!Gathers \union Promise!Broadcasts \union Promise!Scans \union {"reduce_low"}}
  \union {[MCCollective(fn) EXCEPT !.rext = 1] :
     fn \in Promise!Scans \union {"allreduce", "allreduce_low", "alltoall_inplace"}}
  \union {[MCCollective("alltoall") EXCEPT !.sext = 1], [MCCollective("alltoall") EXCEPT !.rext = 1],
          [MCCollective("alltoall") EXCEPT !.sendCount = 2],
          [MCCollective("alltoall") EXCEPT !.recvCount = 2]}

MCSends ==
  {MCSend("send", s, mode) : s \in {"dense", "strided"}, mode \in {"standard", "synchronous"}}
MCRecvs ==
  {MCRecv("recv", "dense"), MCRecv("recv", "strided"), MCRecv("recv_low", "dense")}
MCIsends ==
  {MCSend("isend", s, mode) : s \in {"dense", "strided"}, mode \in {"standard", "synchronous"}}
    \union {MCSend("isend_low", "dense", "standard")}
MCIrecvs ==
  {MCRecv("irecv", "dense"), MCRecv("irecv", "strided"), MCRecv("irecv_low", "dense")}

MCPair(a, b) == [p \in Ranks |-> IF p = 0 THEN a ELSE b]
MCAll(a) == [p \in Ranks |-> a]

(* The other direction: what rank 0 is sent by rank 1.                     *)
MCTo(c, peer) == [c EXCEPT !.peer = peer]
MCOn(c, v) == [c EXCEPT !.v = v]

(* The calls that follow a message: both layouts, each mode with one.      *)
MCNext(calls) ==
  {c \in calls : /\ c.fn \in {"send", "isend", "irecv"}
                 /\ (c.mode = "synchronous") = (c.fn # "irecv" /\ c.s = "dense")}

MCPrograms ==
  {MCAll(<<c, d>>) : c, d \in MCCollectives}
  \union {MCAll(<<d, MCCollective("allgather")>>) : d \in MCRefused}
  \union {MCPair(<<a, b>>, <<c, d>>) : a, b \in MCSends, c, d \in MCRecvs}
  \union {MCPair(<<a, MCWait(1), b>>, <<c, d, MCWait(2)>>) :
            a \in MCIsends, b \in MCNext(MCSends), c \in MCRecvs, d \in MCNext(MCIrecvs)}
  \union {MCPair(<<a, MCOn(b, 2), MCWait(2), MCWait(1)>>, <<c, MCOn(d, 2), MCWait(1), MCWait(2)>>) :
            a \in MCIsends, b \in MCNext(MCIsends), c \in MCIrecvs, d \in MCNext(MCIrecvs)}
  \* after a message, a strided view for a function that does not pack
  \union {MCPair(<<a, MCOn(MCSend("isend_low", "strided", "standard"), 2), MCWait(2)>>,
                 <<c, MCOn(d, 2)>>) : a \in MCSends, c, d \in MCRecvs}
  \union {MCPair(<<a, MCOn(b, 2)>>, <<c, MCOn(MCRecv("irecv_low", "strided"), 2), MCWait(2)>>) :
            a \in MCSends, b \in MCNext(MCSends), c \in MCRecvs}
  \union {MCPair(<<a, MCOn(b, 2)>>, <<c, MCOn(MCRecv("recv_low", "strided"), 2)>>) :
            a \in MCSends, b \in MCNext(MCSends), c \in MCRecvs}
  \* an exchange between both ranks, and a reply to a message
  \union {[p \in Ranks |-> <<MCTo(c, 1 - p), MCTo(MCOn(a, 2), 1 - p), MCWait(1)>>] :
            c \in MCIrecvs, a \in MCSends}
  \union {MCPair(<<a, MCTo(c, 1)>>, <<c, MCTo(a, 0)>>) : a \in MCSends, c \in MCRecvs}
  \* a ready send to a receive that is posted before a barrier
  \union {MCPair(<<MCCollective("barrier"), MCOn(MCSend("send", s, "ready"), 2)>>,
                 <<c, MCOn(MCCollective("barrier"), 2), MCWait(1)>>) :
            s \in {"dense", "strided"}, c \in MCIrecvs}
=============================================================================
