-------------------------- MODULE MCCommunicator --------------------------
(* Ranks and handles for TLC.                                              *)
EXTENDS Communicator

CONSTANTS w, u, c1, c2, c3, a, b

MCRanks == {0, 1, 2}
\* Rank 0 has room to move objects.
MCObjects == [p \in MCRanks |-> IF p = 0 THEN {a, b} ELSE {a}]
\* Two groups, one of them with its ranks in any order, and no group.
MCSplits == {<<0, 0>>, <<0, 1>>, <<1, 0>>, <<Undefined, 0>>}
MCMade == {c1, c2, c3}
\* A failing call leaves null or no handle; or the handle of a communicator.
MCLeft == {Null, Junk}
MCAnyLeft == {Null, Junk} \union MCMade
=============================================================================
