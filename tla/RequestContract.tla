-------------------------- MODULE RequestContract --------------------------
(***************************************************************************)
(* What a `Request` promises the program that holds it, with none of the   *)
(* handles, callback lists and moves by which the library keeps the        *)
(* promise.  docs/api/core.rst, "Requests": a callback runs after the      *)
(* operation, and never twice; a view the operation uses lives until the   *)
(* operation is over.                                                      *)
(***************************************************************************)
CONSTANTS
  Ops,       \* the operations
  Kinds,     \* the kinds of callbacks an operation can have
  Bufs,      \* the roles of the buffers an operation can have
  Uses,      \* Uses[o] \in SUBSET Bufs: the buffers MPI reads or writes for o
  Touches    \* Touches[o][k] \in SUBSET Bufs: those callback k of o reads or writes

VARIABLES
  phase,     \* phase[o]: "idle", "pending" (MPI owns the buffers) or "over"
  done,      \* done[o]: the callbacks of o that have run
  held       \* the <<operation, role>> pairs whose memory is allocated

vars == <<phase, done, held>>

Init ==
  /\ phase = [o \in Ops |-> "idle"]
  /\ done = [o \in Ops |-> {}]
  /\ held \in SUBSET (Ops \X Bufs)

(* Starting an operation may allocate buffers of its own; all MPI will use *)
(* are there.                                                              *)
Post(o) ==
  /\ phase[o] = "idle"
  /\ phase' = [phase EXCEPT ![o] = "pending"]
  /\ held \subseteq held'
  /\ {o} \X Uses[o] \subseteq held'
  /\ UNCHANGED done

(* The operation ends.                                                     *)
Finish(o) ==
  /\ phase[o] = "pending"
  /\ phase' = [phase EXCEPT ![o] = "over"]
  /\ UNCHANGED <<done, held>>

(* A callback runs: after its operation, once, on memory that is there.    *)
Run(o, k) ==
  /\ phase[o] = "over"
  /\ k \notin done[o]
  /\ {o} \X Touches[o][k] \subseteq held
  /\ done' = [done EXCEPT ![o] = @ \union {k}]
  /\ UNCHANGED <<phase, held>>

(* Memory is released, never a buffer of a pending operation.              *)
Release ==
  /\ held' \subseteq held
  /\ \A o \in Ops :
       phase[o] = "pending" => held \intersect ({o} \X Uses[o]) \subseteq held'
  /\ UNCHANGED <<phase, done>>

Next ==
  \/ \E o \in Ops : Post(o) \/ Finish(o) \/ \E k \in Kinds : Run(o, k)
  \/ Release

Spec == Init /\ [][Next]_vars
=============================================================================
