------------------------------- MODULE Packing -------------------------------
(***************************************************************************)
(* Where the elements of a view are, and what becomes of them on the way   *)
(* from a view of one rank to a view of another: traits.hpp, the packed    *)
(* views of impl/contiguous.hpp, the DeepCopy packers of both backends,    *)
(* the message, and the persistent path of mpi/channel.hpp, which does not *)
(* pack.  The other modules treat a view as one value; here it is an       *)
(* allocation of cells with extents, strides and an offset.                *)
(*                                                                         *)
(* Views are built, filled and compared by unit_tests/view_utils.hpp.      *)
(***************************************************************************)
EXTENDS Integers, SequencesExt, FiniteSets

CONSTANTS
  Shapes,   \* sequences of extents
  Kinds,    \* how a view is built, see Build
  Spaces    \* layout of an execution space: "right" (hosts), "left" (GPUs)

ASSUME PackingAssumption ==
  /\ \A e \in Shapes : e \in Seq(Nat \ {0})
  /\ Kinds \subseteq {"contig", "noncontig", "left", "block"}
  /\ Spaces \subseteq {"left", "right"}

VARIABLES
  sv, rv,        \* the views of sender and receiver
  persistent,    \* whether the message goes through a channel
  stage,
  smem, rmem,    \* the cells of the allocations the views are in
  spacked, rpacked,  \* the cells of the packed views
  wire           \* the message

vars == <<sv, rv, persistent, stage, smem, rmem, spacked, rpacked, wire>>

-----------------------------------------------------------------------------
(* Layouts.  Index tuples start at 0; a view has one stride for each of    *)
(* its extents, and the offset of its first element in its allocation.     *)

Product(e) == FoldLeft(LAMBDA a, b : a * b, 1, e)

RightStrides(e) == [d \in DOMAIN e |-> Product(SubSeq(e, d + 1, Len(e)))]
LeftStrides(e) == [d \in DOMAIN e |-> Product(SubSeq(e, 1, d - 1))]
Strides(layout, e) == IF layout = "right" THEN RightStrides(e) ELSE LeftStrides(e)

Indices(e) == {i \in [DOMAIN e -> 0 .. FoldLeft(LAMBDA a, b : IF a > b THEN a ELSE b, 0, e)] :
                 \A d \in DOMAIN e : i[d] < e[d]}

Offset(i, stride) == FoldLeft(LAMBDA a, b : a + b, 0, [d \in DOMAIN i |-> i[d] * stride[d]])
Cell(v, i) == v.base + Offset(i, v.stride)
Cells(v) == {Cell(v, i) : i \in Indices(v.ext)}

size(v) == Product(v.ext)

(* Faulty variant: the distance of the last element, without the element.  *)
span_Distance(v) == Offset([d \in DOMAIN v.ext |-> v.ext[d] - 1], v.stride)

(* From the element of lowest address to the one of highest, both counted. *)
span(v) == 1 + Offset([d \in DOMAIN v.ext |-> v.ext[d] - 1], v.stride)

is_contiguous(v) == span(v) = size(v)

(* The test utilities build views in the default layout of the execution   *)
(* space, or every other cell of a row-major one; the other two are views  *)
(* a program may have: column-major, and a corner of a column-major one.   *)
Build(kind, space, e) ==
  LET wider == [d \in DOMAIN e |-> e[d] + 1] IN
  CASE kind = "contig" ->
         [space |-> space, ext |-> e, stride |-> Strides(space, e), base |-> 0, alloc |-> Product(e)]
    [] kind = "noncontig" ->
         [space |-> space, ext |-> e, stride |-> SubSeq(RightStrides(Append(e, 2)), 1, Len(e)),
          base |-> 1, alloc |-> 2 * Product(e)]
    [] kind = "left" ->
         [space |-> space, ext |-> e, stride |-> LeftStrides(e), base |-> 0, alloc |-> Product(e)]
    [] kind = "block" ->
         [space |-> space, ext |-> e, stride |-> LeftStrides(wider), base |-> 0,
          alloc |-> Product(wider)]

(* Faulty variant: packed views are row-major on every execution space.    *)
contiguous_view_Right(v) ==
  [space |-> v.space, ext |-> v.ext, stride |-> RightStrides(v.ext), base |-> 0, alloc |-> size(v)]

(* A packed view has the extents of v and the layout of its execution      *)
(* space, whatever the layout of v.                                        *)
contiguous_view(v) ==
  [space |-> v.space, ext |-> v.ext, stride |-> Strides(v.space, v.ext), base |-> 0,
   alloc |-> size(v)]

(* Kokkos: deep_copy goes by index.                                        *)
deep_copy(mem, dst, from, src) ==
  [x \in DOMAIN mem |->
     IF x \notin Cells(dst) THEN mem[x]
     ELSE from[Cell(src, CHOOSE i \in Indices(dst.ext) : Cell(dst, i) = x)]]

(* Faulty variant: the extents are left out of the number.                 *)
Number_Sum(e, i) == FoldLeft(LAMBDA val, d : i[d] + val, 0, [d \in DOMAIN e |-> d])

(* The values that the tests write and expect: the row-major number of the *)
(* index.                                                                  *)
Number(e, i) == FoldLeft(LAMBDA val, d : i[d] + e[d] * val, 0, [d \in DOMAIN e |-> d])

-----------------------------------------------------------------------------
(* A cell holds nothing of interest (Old) or an element of sv, by index.   *)
Old == <<-1>>
Uninitialized == <<-2>>

Fresh(n, x) == [c \in 0 .. n - 1 |-> x]

init_view(v) ==
  [c \in 0 .. v.alloc - 1 |->
     IF c \in Cells(v) THEN CHOOSE i \in Indices(v.ext) : Cell(v, i) = c ELSE Old]

(* How many elements of v do not have their number.                        *)
count_errors(v, mem) ==
  Cardinality({i \in Indices(v.ext) :
    \/ mem[Cell(v, i)] \notin Indices(v.ext)
    \/ Number(v.ext, mem[Cell(v, i)]) # Number(v.ext, i)})

(* Both ends may have any kind of view of one shape, on any hardware.  A   *)
(* channel sends and receives the span of a view, so that both ends have   *)
(* to agree on that.                                                       *)
Init ==
  /\ \E e \in Shapes : \E ks, kr \in Kinds : \E ss, sr \in Spaces :
       sv = Build(ks, ss, e) /\ rv = Build(kr, sr, e)
  /\ persistent \in BOOLEAN /\ (persistent => sv.stride = rv.stride)
  /\ stage = "call"
  /\ smem = init_view(sv) /\ rmem = Fresh(rv.alloc, Old)
  /\ spacked = Fresh(size(sv), Uninitialized) /\ rpacked = Fresh(size(rv), Uninitialized)
  /\ wire = <<>>

(* Faulty variant: only the views of a channel are looked at.              *)
Packed_Swapped(v) == persistent /\ ~ is_contiguous(v)

(* Contiguous views are given to the library as they are, and a channel    *)
(* gives it every view as it is.                                           *)
Packed(v) == ~ persistent /\ ~ is_contiguous(v)

pack ==
  /\ stage = "call" /\ Packed(sv)
  /\ spacked' = deep_copy(spacked, contiguous_view(sv), smem, sv)
  /\ stage' = "packed"
  /\ UNCHANGED <<sv, rv, persistent, smem, rmem, rpacked, wire>>

(* n cells from cell `from` on, in the order of memory.                    *)
Message(mem, from, n) == [k \in 1 .. n |-> mem[from + k - 1]]

send ==
  /\ \/ /\ stage = "call" /\ ~ Packed(sv)
        /\ wire' = Message(smem, sv.base, span(sv))
     \/ /\ stage = "packed"
        /\ wire' = Message(spacked, 0, span(contiguous_view(sv)))
  /\ stage' = "sent"
  /\ UNCHANGED <<sv, rv, persistent, smem, rmem, spacked, rpacked>>

Arrive(mem, from) ==
  [c \in DOMAIN mem |-> IF c \in from .. from + Len(wire) - 1 THEN wire[c - from + 1] ELSE mem[c]]

recv ==
  /\ stage = "sent"
  /\ IF Packed(rv)
     THEN rpacked' = Arrive(rpacked, 0) /\ stage' = "received" /\ UNCHANGED rmem
     ELSE rmem' = Arrive(rmem, rv.base) /\ stage' = "done" /\ UNCHANGED rpacked
  /\ UNCHANGED <<sv, rv, persistent, smem, spacked, wire>>

unpack_into ==
  /\ stage = "received"
  /\ rmem' = deep_copy(rmem, rv, rpacked, contiguous_view(rv))
  /\ stage' = "done"
  /\ UNCHANGED <<sv, rv, persistent, smem, spacked, rpacked, wire>>

Next == pack \/ send \/ recv \/ unpack_into

Spec == Init /\ [][Next]_vars

-----------------------------------------------------------------------------
(* Views do not leave their allocations, and a message is as long as both  *)
(* ends announce: the span of the view, or the size of the packed one.     *)
TypeOK ==
  /\ \A v \in {sv, rv} :
       /\ Cells(v) \subseteq 0 .. v.alloc - 1 /\ Cardinality(Cells(v)) = size(v)
       /\ v.base + span(v) <= v.alloc
  /\ DOMAIN smem = 0 .. sv.alloc - 1 /\ DOMAIN rmem = 0 .. rv.alloc - 1
  /\ stage \in {"call", "packed", "sent", "received", "done"}
  /\ stage \in {"sent", "received", "done"} =>
       Len(wire) = IF persistent THEN Max(Cells(rv)) - Min(Cells(rv)) + 1
                   ELSE Cardinality(Indices(rv.ext))

(* A view in the layout its execution space gives to packed views.         *)
Native(v) ==
  is_contiguous(v) =>
    \A i \in Indices(v.ext) : Cell(v, i) = v.base + Offset(i, Strides(v.space, v.ext))

Identical == \A i \in Indices(rv.ext) : rmem[Cell(rv, i)] = i

(* Every element arrives at its own index when both ends run on hardware   *)
(* of one kind and contiguous views have its layout, packed or not, and    *)
(* through a channel when both views have the same strides.                *)
Intact ==
  /\ stage = "done"
  /\ persistent \/ (sv.space = rv.space /\ Native(sv) /\ Native(rv))
  => Identical

(* Whatever the layouts of the ends, no element is lost or doubled, and    *)
(* memory between and around the elements of the receiving view is left    *)
(* alone; through a channel it is overwritten as far as the span goes.     *)
NothingLost ==
  /\ stage = "done" =>
       {rmem[c] : c \in Cells(rv)} = Indices(rv.ext)
  /\ ~ persistent => \A c \in DOMAIN rmem \ Cells(rv) : rmem[c] = Old

(* The comparison of the tests finds every element that is not in place.   *)
ErrorsCounted ==
  stage = "done" =>
    count_errors(rv, rmem) = Cardinality({i \in Indices(rv.ext) : rmem[Cell(rv, i)] # i})

=============================================================================
