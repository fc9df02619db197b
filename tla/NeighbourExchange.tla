------------------------- MODULE NeighbourExchange -------------------------
(***************************************************************************)
(* What a channel promises the ranks that use it in rounds (docs/api/      *)
(* channel.rst): a rank that is back from wait has what its source sent in *)
(* the same round, whatever the other ranks are doing.                     *)
(***************************************************************************)
EXTENDS Naturals

CONSTANTS
  Ranks,
  Src,       \* Src[p]: the rank p receives from
  Sent       \* Sent[p][c]: what p gets from Src[p] when both are in round c

VARIABLES
  started,   \* started[p]: the rounds p has started
  done,      \* done[p]: the rounds p has finished
  got        \* got[p]: what p holds of the round it finished last, or <<>>

vars == <<started, done, got>>

Init ==
  /\ started = [p \in Ranks |-> 0]
  /\ done = [p \in Ranks |-> 0]
  /\ got = [p \in Ranks |-> <<>>]

Begin(p) ==
  /\ done[p] = started[p]
  /\ started' = [started EXCEPT ![p] = @ + 1]
  /\ UNCHANGED <<done, got>>

(* A round that gives p something ends only after the source has started it. *)
End(p) ==
  /\ done[p] < started[p]
  /\ Sent[p][started[p]] # <<>> => done[p] < started[Src[p]]
  /\ done' = [done EXCEPT ![p] = @ + 1]
  /\ got' = [got EXCEPT ![p] = Sent[p][started[p]]]
  /\ UNCHANGED started

(* Between rounds the buffers are the program's.                           *)
Reuse(p) ==
  /\ done[p] = started[p]
  /\ got' = [got EXCEPT ![p] = <<>>]
  /\ UNCHANGED <<started, done>>

Next == \E p \in Ranks : Begin(p) \/ End(p) \/ Reuse(p)

Spec == Init /\ [][Next]_vars
=============================================================================
