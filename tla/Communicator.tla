---------------------------- MODULE Communicator ----------------------------
(***************************************************************************)
(* `Communicator<MpiSpace, Exec>` (mpi/communicator.hpp) and its           *)
(* specialization for `NcclSpace` (nccl/communicator.hpp), on all ranks:   *)
(* objects that borrow a handle or own one, the collective calls that make *)
(* new handles, and the moves and destructors that hand handles on and     *)
(* release them.  The two classes differ where `lib` is tested.            *)
(*                                                                         *)
(* The library below is external: a split or a duplicate needs all members *)
(* of the communicator, and gives each group its own communicator, ordered *)
(* by key and then by rank.  It may fail under an error handler that       *)
(* returns; what is then in `new_comm`, which the code does not            *)
(* initialize, is any value of Left: null, a value that is never a handle, *)
(* or, as on a stack that is used again, the handle of some communicator.  *)
(***************************************************************************)
EXTENDS Integers, Sequences, FiniteSets

CONSTANTS
  Ranks,    \* the processes, 0 .. N - 1
  Objects,  \* Objects[p]: where p keeps Communicator objects
  World,    \* the predefined communicator
  User,     \* a communicator that the program made and will free itself
  Made,     \* handle values for communicators made through the library
  Splits,   \* the arguments of split, <<colour, key>>
  Left      \* what may be in `new_comm` after a call that failed

Raw == {World, User}
Handles == Raw \union Made
Null == "null"         \* MPI_COMM_NULL, nullptr
Junk == "junk"         \* a value that is at no time a handle
Pending == "pending"   \* a call that the library has not completed
Undefined == -1        \* MPI_UNDEFINED, NCCL_SPLIT_NOCOLOR

ASSUME CommunicatorAssumption ==
  /\ Ranks = 0 .. Cardinality(Ranks) - 1 /\ IsFiniteSet(Ranks)
  /\ World # User /\ Raw \intersect Made = {}
  /\ Handles \intersect {Null, Junk, Pending} = {}
  /\ Splits \subseteq (Nat \union {Undefined}) \X Int
  /\ Left \subseteq Handles \union {Null, Junk} /\ Left # {}
  /\ \A p \in Ranks : "call" \notin Objects[p]

(* Failing calls leave nothing that is, or becomes, a handle.              *)
LeavesNoHandle == Left \intersect Handles = {}

VARIABLES
  lib,      \* "mpi" or "nccl"
  members,  \* members[h]: the processes of communicator h, in rank order
  held,     \* held[p]: the communicators that p has not released
  obj,      \* obj[p]: the Communicator objects of p
  call      \* call[p]: the collective call that p is in

vars == <<lib, members, held, obj, call>>

-----------------------------------------------------------------------------
With(f, o, x) == [i \in DOMAIN f \union {o} |-> IF i = o THEN x ELSE f[i]]
Without(f, o) == [i \in DOMAIN f \ {o} |-> f[i]]

Group(h) == {members[h][i] : i \in DOMAIN members[h]}
RankIn(p, h) == (CHOOSE i \in DOMAIN members[h] : members[h][i] = p) - 1

(* Handles of communicators that p is in.                                  *)
InGroup(p, h) == h \in Handles /\ p \in Group(h)

(* Faulty variant: ranks counted from 1.                                   *)
Construct_FromOne(p, h, owned) ==
  IF InGroup(p, h)
  THEN [comm |-> h, size |-> Len(members[h]), rank |-> RankIn(p, h) + 1, owned |-> owned]
  ELSE [comm |-> h, size |-> 0, rank |-> 0, owned |-> owned]

(* The private constructor: size_ and rank_ start at 0, and the library,   *)
(* asked for them, leaves them alone when it does not know the handle.     *)
Construct(p, h, owned) ==
  IF InGroup(p, h)
  THEN [comm |-> h, size |-> Len(members[h]), rank |-> RankIn(p, h), owned |-> owned]
  ELSE [comm |-> h, size |-> 0, rank |-> 0, owned |-> owned]

(* What an object holds after it was moved from.                           *)
Moved == [comm |-> Null, size |-> 0, rank |-> 0, owned |-> FALSE]

Init ==
  /\ lib \in {"mpi", "nccl"}
  /\ members = [h \in Handles |-> IF h \in Raw THEN [i \in 1 .. Cardinality(Ranks) |-> i - 1]
                                  ELSE <<>>]
  /\ held = [p \in Ranks |-> Raw]
  /\ obj = [p \in Ranks |-> [o \in {} |-> Moved]]
  /\ call = [p \in {} |-> Pending]

-----------------------------------------------------------------------------
(* What the program does.  All members of a communicator make the same     *)
(* calls on it; calls on communicators with common members do not overlap; *)
(* a rank keeps a place for the result, and joins a call it is awaited in. *)
Idle(p) == p \notin DOMAIN call

Waiting(h) == {q \in DOMAIN call : call[q].on = h /\ call[q].new = Pending}
Awaited(p) == Idle(p) /\ \E h \in Handles : Waiting(h) # {} /\ p \in Group(h)

Room(p) == Objects[p] \ (DOMAIN obj[p] \union {call[q].into : q \in {p} \intersect DOMAIN call})

(* Handle values are bounded: each call under way may need one per rank.   *)
Unused == Made \ UNION {held[q] : q \in Ranks}
MayNeed(h) == Group(h) \union UNION {Group(g) : g \in {g \in Handles : Waiting(g) # {}}}

Place(p) == CHOOSE o \in Room(p) : TRUE   \* whichever is free

MayCall(p, h, dup) ==
  /\ Idle(p) /\ h \in held[p] /\ Room(p) # {}
  /\ \A q \in Waiting(h) : call[q].dup = dup
  /\ \A q \in Group(h) \ Waiting(h) : h \in held[q] /\ Room(q) # {}
  /\ Cardinality(MayNeed(h)) <= Cardinality(Unused)
  /\ \A g \in Handles \ {h} : Waiting(g) # {} => Group(g) \intersect Group(h) = {}

Enter(p, h, colour, key, dup) ==
  /\ MayCall(p, h, dup)
  /\ call' = With(call, p, [on |-> h, dup |-> dup, colour |-> colour, key |-> key,
                            into |-> Place(p), new |-> Pending])
  /\ UNCHANGED <<lib, members, held, obj>>

(* Faulty variants: a rank without a colour does not call the library; the *)
(* arguments are swapped where a duplicate is made by splitting.           *)
split_from_raw_Early(p, h, colour, key) ==
  \/ colour # Undefined /\ Enter(p, h, colour, key, FALSE)
  \/ /\ colour = Undefined /\ MayCall(p, h, FALSE)
     /\ call' = With(call, p, [on |-> h, dup |-> FALSE, colour |-> 0, key |-> 0,
                               into |-> Place(p), new |-> Null])
     /\ UNCHANGED <<lib, members, held, obj>>

SplitToDuplicate_Swapped(p, h, key) == Enter(p, h, key, 0, TRUE)

split_from_raw(p, h, colour, key) == Enter(p, h, colour, key, FALSE)

(* NCCL has no duplicate: everyone joins colour 0, with its rank as key.   *)
SplitToDuplicate(p, h, key) == Enter(p, h, 0, key, TRUE)

mpi_duplicate_from_raw(p, h) == lib = "mpi" /\ Enter(p, h, 0, 0, TRUE)
nccl_duplicate_from_raw(p, h) == lib = "nccl" /\ SplitToDuplicate(p, h, RankIn(p, h))

(* The member functions pass comm_; NCCL's duplicate passes rank_.         *)
split(p, o, colour, key) == split_from_raw(p, obj[p][o].comm, colour, key)
mpi_duplicate(p, o) == mpi_duplicate_from_raw(p, obj[p][o].comm)
nccl_duplicate(p, o) ==
  lib = "nccl" /\ SplitToDuplicate(p, obj[p][o].comm, obj[p][o].rank)

Call(p) ==
  \/ \E h \in Raw :
       \/ mpi_duplicate_from_raw(p, h) \/ nccl_duplicate_from_raw(p, h)
       \/ \E a \in Splits : split_from_raw(p, h, a[1], a[2])
  \/ \E o \in DOMAIN obj[p] :
       /\ obj[p][o].comm \in Handles
       /\ \/ mpi_duplicate(p, o) \/ nccl_duplicate(p, o)
          \/ \E a \in Splits : split(p, o, a[1], a[2])

-----------------------------------------------------------------------------
(* The library: all members are in the call.                               *)
Together(h) == h \in Handles /\ members[h] # <<>> /\ Waiting(h) = Group(h)

(* The answer to a call; its arguments are of no further use.              *)
Answer(c, x) ==
  [on |-> c.on, dup |-> c.dup, colour |-> 0, key |-> 0, into |-> c.into, new |-> x]

Before(h, p, q) ==
  \/ call[p].key < call[q].key
  \/ call[p].key = call[q].key /\ RankIn(p, h) < RankIn(q, h)

Ordered(h, c) ==
  LET S == {p \in Group(h) : call[p].colour = c} IN
  CHOOSE s \in [1 .. Cardinality(S) -> S] :
    \A i, j \in 1 .. Cardinality(S) : i < j => Before(h, s[i], s[j])

(* Each colour becomes a communicator under a handle value nobody holds.   *)
Naming(colours) ==
  {f \in [colours -> Unused] : \A c, d \in colours : f[c] = f[d] => c = d}

Complete(h) ==
  /\ Together(h)
  /\ LET colours == {call[p].colour : p \in Group(h)} \ {Undefined}
         new == CHOOSE f \in Naming(colours) : TRUE
         given(p) == IF call[p].colour = Undefined THEN Null ELSE new[call[p].colour]
     IN  /\ Naming(colours) # {}
         /\ members' = [g \in Handles |->
              IF \E c \in colours : new[c] = g
              THEN Ordered(h, CHOOSE c \in colours : new[c] = g) ELSE members[g]]
         /\ held' = [p \in Ranks |->
              held[p] \union IF p \in Group(h) THEN {given(p)} \ {Null} ELSE {}]
         /\ call' = [p \in DOMAIN call |->
              IF p \in Group(h) THEN Answer(call[p], given(p)) ELSE call[p]]
  /\ UNCHANGED <<lib, obj>>

Fail(h) ==
  /\ Together(h)
  /\ \E left \in [Group(h) -> Left] :
       call' = [p \in DOMAIN call |->
                  IF p \in Group(h) THEN Answer(call[p], left[p]) ELSE call[p]]
  /\ UNCHANGED <<lib, members, held, obj>>

-----------------------------------------------------------------------------
(* The rest of split_from_raw and duplicate_from_raw: nullopt for a null   *)
(* handle, else an object that owns it.                                    *)
Return(p) ==
  /\ p \in DOMAIN call /\ call[p].new # Pending
  /\ obj' = IF call[p].new = Null THEN obj
            ELSE [obj EXCEPT ![p] = With(@, call[p].into, Construct(p, call[p].new, TRUE))]
  /\ call' = Without(call, p)
  /\ UNCHANGED <<lib, members, held>>

Ready(p) == Idle(p) /\ ~ Awaited(p)

(* Faulty variant: the object takes the handle over.                       *)
from_raw_Owned(p, h) ==
  /\ Ready(p) /\ Room(p) # {}
  /\ obj' = [obj EXCEPT ![p] = With(@, Place(p), Construct(p, h, TRUE))]
  /\ UNCHANGED <<lib, members, held, call>>

from_raw(p, h) ==
  /\ Ready(p) /\ Room(p) # {}
  /\ obj' = [obj EXCEPT ![p] = With(@, Place(p), Construct(p, h, FALSE))]
  /\ UNCHANGED <<lib, members, held, call>>

(* What the destructors of x free.                                         *)
MpiFreed(x) == IF x.owned /\ x.comm # World THEN {x.comm} ELSE {}
NcclFreed(x) == IF x.owned THEN {x.comm} ELSE {}
Freed(x) == IF lib = "mpi" THEN MpiFreed(x) ELSE NcclFreed(x)

(* A handle value is unused again when no member holds it.                 *)
Free(p, S) ==
  /\ held' = [held EXCEPT ![p] = @ \ S]
  /\ members' = [h \in Handles |->
       IF h \in Made /\ \A q \in Ranks : h \notin held'[q] THEN <<>> ELSE members[h]]

Destroy(p, o) ==
  /\ Ready(p) /\ o \in DOMAIN obj[p]
  /\ Free(p, Freed(obj[p][o]))
  /\ obj' = [obj EXCEPT ![p] = Without(@, o)]
  /\ UNCHANGED <<lib, call>>

(* Faulty variant: the source keeps its size and rank.                     *)
HandOver_Stale(p, o, d) ==
  obj' = [obj EXCEPT ![p] = With(With(@, d, @[o]), o,
            [@[o] EXCEPT !.comm = Null, !.owned = FALSE])]

(* The member-wise exchange of both moves.                                 *)
HandOver(p, o, d) == obj' = [obj EXCEPT ![p] = With(With(@, d, @[o]), o, Moved)]

MoveConstruct(p, o, d) ==
  /\ Ready(p) /\ o \in DOMAIN obj[p] /\ d \in Room(p)
  /\ HandOver(p, o, d)
  /\ UNCHANGED <<lib, members, held, call>>

(* Faulty variant: no guard against self-assignment, which frees the       *)
(* handle, nulls comm_, and exchanges each member with itself.             *)
Overwrite_NoGuard(p, o, d, freed) ==
  /\ Ready(p) /\ {o, d} \subseteq DOMAIN obj[p]
  /\ Free(p, freed)
  /\ IF o = d THEN obj' = [obj EXCEPT ![p][d].comm = IF freed = {} THEN @ ELSE Null]
     ELSE HandOver(p, o, d)
  /\ UNCHANGED <<lib, call>>

Overwrite(p, o, d, freed) ==
  /\ Ready(p) /\ {o, d} \subseteq DOMAIN obj[p]
  /\ IF o = d THEN UNCHANGED <<obj, held, members>>
     ELSE Free(p, freed) /\ HandOver(p, o, d)
  /\ UNCHANGED <<lib, call>>

mpi_MoveAssign(p, o, d) == lib = "mpi" /\ Overwrite(p, o, d, MpiFreed(obj[p][d]))
nccl_MoveAssign(p, o, d) == lib = "nccl" /\ Overwrite(p, o, d, NcclFreed(obj[p][d]))

Next ==
  \/ \E p \in Ranks :
       \/ Call(p)
       \/ Return(p)
       \/ \E h \in Raw : from_raw(p, h)
       \/ \E o \in Objects[p] :
            \/ Destroy(p, o)
            \/ \E d \in Objects[p] : \/ MoveConstruct(p, o, d)
                                   \/ mpi_MoveAssign(p, o, d) \/ nccl_MoveAssign(p, o, d)
  \/ \E h \in Handles : Complete(h) \/ Fail(h)

Spec == Init /\ [][Next]_vars

(* A rank that is awaited in a call joins it, the library completes a call *)
(* that all have joined, and a call that is complete returns.              *)
FairSpec ==
  /\ Spec
  /\ \A p \in Ranks : WF_vars(Awaited(p) /\ Call(p)) /\ WF_vars(Return(p))
  /\ \A h \in Handles : WF_vars(Complete(h) \/ Fail(h))

-----------------------------------------------------------------------------
Object == [comm : Handles \union {Null, Junk}, size : 0 .. Cardinality(Ranks),
           rank : Ranks, owned : BOOLEAN]

(* Types, with members[h] without repetition.                              *)
TypeOK ==
  /\ lib \in {"mpi", "nccl"}
  /\ \A h \in Handles : members[h] \in Seq(Ranks) /\ Cardinality(Group(h)) = Len(members[h])
  /\ held \in [Ranks -> SUBSET Handles]
  /\ \A p \in Ranks : DOMAIN obj[p] \subseteq Objects[p]
                      /\ \A o \in DOMAIN obj[p] : obj[p][o] \in Object
  /\ DOMAIN call \subseteq Ranks
  /\ \A p \in DOMAIN call : call[p].on \in Handles /\ call[p].into \in Objects[p] \ DOMAIN obj[p]
                            /\ call[p].new \in Handles \union {Null, Junk, Pending}

Owners(p, h) ==
  {o \in DOMAIN obj[p] : obj[p][o].owned /\ obj[p][o].comm = h}
    \union {"call" : q \in {q \in {p} \intersect DOMAIN call : call[q].new = h}}

(* docs/api/core.rst: "There is always exactly one owner of a              *)
(* Communicator": on each rank, a communicator made through the library    *)
(* and not yet released has one owner, an object or the call that is       *)
(* returning it.                                                           *)
ExactlyOneOwner ==
  \A p \in Ranks : \A h \in held[p] \intersect Made : Cardinality(Owners(p, h)) = 1

(* The same, and the objects agree with it: none names a communicator that *)
(* was released, and none that is null, or lent by the program, says it    *)
(* owns.  Failing calls are part of the claim while they leave no handle.  *)
OneOwner ==
  /\ ExactlyOneOwner
  /\ \A p \in Ranks : \A o \in DOMAIN obj[p] :
       /\ obj[p][o].comm \in Handles => obj[p][o].comm \in held[p]
       /\ obj[p][o].owned => obj[p][o].comm \in Made \union {Junk}

(* Whatever is moved, assigned and destroyed, the library leaves the       *)
(* predefined communicator and the program's own to the program.           *)
BorrowedStays == \A p \in Ranks : Raw \subseteq held[p]

(* The cached size_ and rank_ are what MPI or NCCL would answer, and the   *)
(* objects of one communicator number its ranks without gap or repetition; *)
(* an object without a communicator says size 0 and rank 0.                *)
CacheCoherent ==
  \A p \in Ranks : \A o \in DOMAIN obj[p] :
    LET x == obj[p][o] IN
    IF x.comm \in Handles
    THEN x.size = Len(members[x.comm]) /\ x.rank < x.size /\ members[x.comm][x.rank + 1] = p
    ELSE x.size = 0 /\ x.rank = 0

(* A duplicate gives every process the rank it had, although NCCL makes it *)
(* by splitting: when the call returns an object, its rank and size are    *)
(* those of the original.                                                  *)
DuplicateKeepsRank ==
  [][\A p \in Ranks :
       p \in DOMAIN call /\ p \notin DOMAIN call' /\ call[p].dup /\ call[p].new \in Made
       => /\ call[p].into \in DOMAIN obj'[p]
          /\ obj'[p][call[p].into].rank = RankIn(p, call[p].on)
          /\ obj'[p][call[p].into].size = Len(members[call[p].on])]_vars

(* A collective call returns, also for the ranks that take no part in any  *)
(* of the new communicators.                                               *)
CallsReturn == \A p \in Ranks : p \in DOMAIN call ~> p \notin DOMAIN call

=============================================================================
