----------------------------- MODULE MCChannel -----------------------------
(* A ring of ranks for TLC, with the registration orders that a program    *)
(* may choose on its own on each rank.                                     *)
EXTENDS Channel

RingDst == [p \in Ranks |-> (p + 1) % Cardinality(Ranks)]
RingSrc == [p \in Ranks |-> (p + Cardinality(Ranks) - 1) % Cardinality(Ranks)]

(* Two messages each way, registered in different orders.                  *)
TwoEach == [p \in Ranks |-> IF p = 0 THEN <<"send", "recv", "send", "recv">>
                                     ELSE <<"recv", "recv", "send", "send">>]
=============================================================================
