---------------------------- MODULE MCMpiRequest ----------------------------
(***************************************************************************)
(* Operations for TLC.  Between them the two lists hand MPI views and      *)
(* packed copies on either side, views that own their memory and one that  *)
(* does not, and calls that run from no callback to three.                 *)
(***************************************************************************)
EXTENDS MpiRequest, TLC

CONSTANTS o1, o2

Mk(f, s, r, t, m) == [fn |-> f, svc |-> s, rvc |-> r, root |-> t, managed |-> m]

(* A reduction at the root that sends a contiguous view and receives into  *)
(* a strided one, and the send of a strided view that the program owns.    *)
MCCall == (o1 :> Mk("reduce", TRUE, FALSE, TRUE, TRUE)) @@
          (o2 :> Mk("send", FALSE, TRUE, FALSE, FALSE))

(* The receive into a strided view, and a reduction of a strided view by a *)
(* rank that is not the root.                                              *)
MCOtherCall == (o1 :> Mk("recv", TRUE, FALSE, FALSE, TRUE)) @@
               (o2 :> Mk("reduce", FALSE, TRUE, FALSE, TRUE))
=============================================================================
