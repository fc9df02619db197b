--------------------------- MODULE MCNcclRequest ---------------------------
(***************************************************************************)
(* Operations for TLC: two on one stream, which finish in order and make a  *)
(* fence wait for the later one, and one on a stream of its own.           *)
(***************************************************************************)
EXTENDS NcclRequest

CONSTANTS o1, o2, o3, s1, s2

Mk(f, s, sc, rc, t, m) == [fn |-> f, stream |-> s, svc |-> sc, rvc |-> rc, root |-> t, managed |-> m]

(* A receive into a strided view; behind it, a reduction of a strided view *)
(* by a rank that is not the root; and the send of a strided view that the *)
(* program owns.                                                           *)
MCCall == [o \in Ops |->
  CASE o = o1 -> Mk("recv", s1, TRUE, FALSE, FALSE, TRUE)
    [] o = o2 -> Mk("reduce", s1, FALSE, TRUE, FALSE, TRUE)
    [] OTHER -> Mk("send", s2, FALSE, TRUE, FALSE, FALSE)]

(* The same with a strided receive view on the rank that is not the root.  *)
MCStrided == [MCCall EXCEPT ![o2].rvc = FALSE]
=============================================================================
