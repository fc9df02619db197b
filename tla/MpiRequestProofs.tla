-------------------------- MODULE MpiRequestProofs --------------------------
(***************************************************************************)
(* Proofs about MpiRequest, for every number of cells, every set of        *)
(* operations and handles and every assignment of calls to operations:     *)
(* what holds of every program, the inductive invariant of a program that  *)
(* keeps to the documented use (Beyond = {}) with the safety properties    *)
(* that follow from it, and the refinement of RequestContract.             *)
(***************************************************************************)
EXTENDS MpiRequest, Orderings

(***************************************************************************)
(* The inductive invariant. It ties a Request object, the handle it holds, *)
(* the operation MPI runs for it, its callbacks and the counts of their    *)
(* runs together.                                                          *)
(***************************************************************************)

(* The callbacks the operation was started with, as a set.                 *)
RegSet(o) == {k \in Kinds : Has(Registered(o), k)}

Underway(o) == opState[o] \in {"active", "complete"}

(* Callback i of object r has run in the current call.                     *)
Ran(r, i) == call.stage = "run" /\ call.at = r /\ i < call.pos

(* The current call is running the callbacks of object r, or will.         *)
InTurn(r) == call.stage = "run" /\ call.at <= r /\ r <= call.hi

(* Exactly the owners and the stale objects stand for an operation, and no *)
(* two for the same one.                                                   *)
OwnerInv ==
  /\ \A r \in Cells : cell[r] \in {"owner", "stale"} <=> repr[r] \in Ops
  /\ \A r, s \in Cells : repr[r] \in Ops /\ repr[r] = repr[s] => r = s
  /\ \A o \in Ops : Underway(o) => \E r \in Cells : repr[r] = o /\ cell[r] = "owner"

(* An owner's handle is null once its operation is over, and MPI's handle  *)
(* for that operation before.                                              *)
HandleInv ==
  /\ \A r \in Cells : cell[r] = "owner" =>
       IF handle[r] = Null THEN opState[repr[r]] = "freed"
       ELSE bound[handle[r]] = repr[r] /\ Underway(repr[r])
  /\ \A r \in Cells : cell[r] = "stale" => opState[repr[r]] = "freed"
  /\ \A h \in Handles : bound[h] \in Ops => Underway(bound[h])
  /\ \A g, h \in Handles : bound[g] \in Ops /\ bound[g] = bound[h] => g = h
  /\ ~misuse

(* A call blocks on owners only, and runs callbacks of finished operations.*)
CallInv ==
  /\ call.stage = "mpi" => \A r \in call.lo .. call.hi : cell[r] = "owner"
  /\ \A r \in Cells : InTurn(r) => repr[r] \in Ops /\ opState[repr[r]] = "freed"

(* Lists are in that order, without repetition, and complete until the     *)
(* operation is over.                                                      *)
ListInv ==
  \A r \in Cells :
    /\ Increasing(callbacks[r])
    /\ repr[r] \notin Ops => callbacks[r] = <<>>
    /\ repr[r] \in Ops =>
         /\ \A i \in 1 .. Len(callbacks[r]) :
              callbacks[r][i] = "user" \/ callbacks[r][i] \in RegSet(repr[r])
         /\ Underway(repr[r]) =>
              \A k \in RegSet(repr[r]) : Has(callbacks[r], k)

(* What has run, and that what has not run yet still will.                 *)
RunInv ==
  /\ \A o \in Ops, k \in Kinds :
       /\ runs[o][k] \in {0, 1}
       /\ opState[o] # "freed" => runs[o][k] = 0
       /\ runs[o][k] = 1 => k = "user" \/ k \in RegSet(o)
       /\ opState[o] = "freed" /\ k \in RegSet(o) /\ runs[o][k] = 0 =>
            \E r \in Cells : repr[r] = o /\ InTurn(r) /\ Has(callbacks[r], k)
  /\ \A r \in Cells : repr[r] \in Ops =>
       \A i \in 1 .. Len(callbacks[r]) :
         runs[repr[r]][callbacks[r][i]] = IF Ran(r, i) THEN 1 ELSE 0

(* A view that does not own its memory stays with the program until the    *)
(* callbacks of its operation have run.                                    *)
ScopeInv ==
  /\ \A o \in Ops : ~Call[o].managed /\ opState[o] # "freed" => {o} \X Views(o) \subseteq scope
  /\ \A r \in Cells :
       /\ InTurn(r)
       /\ ~Call[repr[r]].managed
       /\ \E i \in 1 .. Len(callbacks[r]) : callbacks[r][i] # "user"
       => {repr[r]} \X Views(repr[r]) \subseteq scope

IInv ==
  /\ TypeOK
  /\ OwnerInv
  /\ HandleInv
  /\ CallInv
  /\ ListInv
  /\ RunInv
  /\ ScopeInv

-----------------------------------------------------------------------------
(* The list of callbacks a posted operation starts with.                   *)
LEMMA RegisteredFacts ==
  ASSUME NEW o \in Ops
  PROVE  /\ Registered(o) \in Seq(Kinds)
         /\ Increasing(Registered(o))
         /\ \A k \in Kinds : k \in RegSet(o) <=>
              \/ k = "unpack" /\ PacksRecv(o)
              \/ k = "keep_psv" /\ PacksSend(o)
              \/ k = "keep_sv" /\ Call[o].managed /\ "sv" \in Views(o)
              \/ k = "keep_rv" /\ Call[o].managed /\ "rv" \in Views(o)
                    /\ ~(Call[o].fn = "recv" /\ PacksRecv(o))
<1> DEFINE keepsv == Call[o].managed /\ "sv" \in Views(o)
           keeprv == /\ Call[o].managed /\ "rv" \in Views(o)
                     /\ ~(Call[o].fn = "recv" /\ PacksRecv(o))
<1>1. Kinds = Stages
  BY DEF Kinds, Stages
<1>2. PICK P \in BOOLEAN, Q \in BOOLEAN, R \in BOOLEAN, S \in BOOLEAN :
        (P <=> PacksRecv(o)) /\ (Q <=> PacksSend(o)) /\ (R <=> keepsv) /\ (S <=> keeprv)
  OBVIOUS
<1>3. Registered(o) = List(P, Q, R, S)
  <2>1. (IF PacksRecv(o) THEN <<"unpack">> ELSE <<>>) = IF P THEN <<"unpack">> ELSE <<>>
    BY <1>2, Zenon
  <2>2. (IF PacksSend(o) THEN <<"keep_psv">> ELSE <<>>) = IF Q THEN <<"keep_psv">> ELSE <<>>
    BY <1>2, Zenon
  <2>3. (IF keepsv THEN <<"keep_sv">> ELSE <<>>) = IF R THEN <<"keep_sv">> ELSE <<>>
    BY <1>2, Zenon
  <2>4. (IF keeprv THEN <<"keep_rv">> ELSE <<>>) = IF S THEN <<"keep_rv">> ELSE <<>>
    BY <1>2, Zenon
  <2>5. QED
    BY <2>1, <2>2, <2>3, <2>4, Zenon DEF Registered, List
<1>4. \A k \in Kinds : k \in RegSet(o) <=> Has(Registered(o), k)
  BY DEF RegSet
<1>5. /\ Registered(o) \in Seq(Stages) /\ Increasing(Registered(o))
      /\ \A k \in Stages : Has(Registered(o), k) <=> \/ k = "unpack" /\ P
                                                     \/ k = "keep_psv" /\ Q
                                                     \/ k = "keep_sv" /\ R
                                                     \/ k = "keep_rv" /\ S
  BY <1>3, ListFacts
<1>6. \A k \in Kinds : k \in RegSet(o) <=> \/ k = "unpack" /\ PacksRecv(o)
                                           \/ k = "keep_psv" /\ PacksSend(o)
                                           \/ k = "keep_sv" /\ keepsv
                                           \/ k = "keep_rv" /\ keeprv
  BY <1>1, <1>2, <1>4, <1>5
<1>7. QED
  BY <1>1, <1>5, <1>6 DEF keepsv, keeprv

-----------------------------------------------------------------------------
(* Type correctness, whatever the program does.                            *)
LEMMA CursorStart ==
  ASSUME NEW f \in {"none", "wait", "test", "all", "any"},
         NEW lo \in Cells, NEW hi \in Cells, lo <= hi
  PROVE  /\ Blocked(f, lo, hi) \in CallType
         /\ Running(f, lo, hi) \in CallType
         /\ Idle \in CallType
BY DEF Blocked, Running, Idle, Cells, CallType

LEMMA CursorAdvance ==
  ASSUME NEW c \in CallType
  PROVE  [c EXCEPT !.at = c.at + 1, !.pos = 1] \in CallType
<1> DEFINE d == [c EXCEPT !.at = c.at + 1]
<1>1. d \in CallType
  BY DEF CallType
<1>2. [c EXCEPT !.at = c.at + 1, !.pos = 1] = [d EXCEPT !.pos = 1]
  OBVIOUS
<1> HIDE DEF d
<1>3. [d EXCEPT !.pos = 1] \in CallType
  BY <1>1 DEF CallType
<1>4. QED
  BY <1>2, <1>3

(* Counting one more run of a callback, of no operation too.               *)
LEMMA CountType ==
  ASSUME NEW c \in [Ops -> [Kinds -> Nat]], NEW o, NEW k \in Kinds
  PROVE  [c EXCEPT ![o][k] = c[o][k] + 1] \in [Ops -> [Kinds -> Nat]]
<1>1. CASE o \in Ops
  BY <1>1
<1>2. CASE o \notin Ops
  <2>1. [c EXCEPT ![o] = [c[o] EXCEPT ![k] = c[o][k] + 1]] = c
    BY <1>2
  <2>2. QED
    BY <2>1
<1>3. QED
  BY <1>1, <1>2

LEMMA FreeType ==
  ASSUME TypeOK, NEW H \in SUBSET Handles, MpiFree(H)
  PROVE  /\ bound' \in [Handles -> Ops \union {NoOp}]
         /\ opState' \in [Ops -> {"idle", "active", "complete", "freed"}]
BY DEF TypeOK, MpiFree

LEMMA EnterType ==
  ASSUME TypeOK, NEW f \in {"wait", "all", "any"}, NEW lo \in Cells, NEW hi \in Cells,
         lo <= hi, Enter(f, lo, hi)
  PROVE  TypeOK'
<1>1. call' \in CallType
  BY CursorStart DEF TypeOK, Enter
<1>2. CursorOK'
  BY DEF Enter, Free, Blocked, CursorOK, Cells
<1>3. QED
  BY <1>1, <1>2 DEF TypeOK, Enter, objects, mpi

LEMMA CompleteOwnType ==
  ASSUME TypeOK, NEW f \in {"wait", "test"}, NEW r \in Cells, CompleteOwn(f, r)
  PROVE  TypeOK'
<1>1. {handle[r]} \ {Null} \in SUBSET Handles
  BY DEF TypeOK
<1>2. /\ bound' \in [Handles -> Ops \union {NoOp}]
      /\ opState' \in [Ops -> {"idle", "active", "complete", "freed"}]
  BY <1>1, FreeType DEF CompleteOwn
<1>3. call' \in CallType
  BY CursorStart DEF CompleteOwn, Cells
<1>4. CursorOK'
  <2>1. Len(callbacks[r]) \in Nat
    BY DEF TypeOK
  <2>2. QED
    BY <2>1 DEF CompleteOwn, CursorOK, Running, Cells
<1>5. handle' \in [Cells -> Handles \union {Null}]
  BY DEF CompleteOwn, TypeOK
<1>6. QED
  BY <1>2, <1>3, <1>4, <1>5 DEF TypeOK, CompleteOwn

LEMMA CompleteCopiesType ==
  ASSUME TypeOK, NEW f \in {"all", "any"}, NEW lo \in Cells, NEW hi \in Cells, lo <= hi,
         NEW S \in SUBSET Cells, \A r \in S : handle[r] # Null, CompleteCopies(S, f, lo, hi)
  PROVE  TypeOK'
<1>1. {handle[r] : r \in S} \in SUBSET Handles
  BY DEF TypeOK
<1>2. /\ bound' \in [Handles -> Ops \union {NoOp}]
      /\ opState' \in [Ops -> {"idle", "active", "complete", "freed"}]
  BY <1>1, FreeType DEF CompleteCopies
<1>3. call' \in CallType
  BY CursorStart DEF CompleteCopies
<1>4. CursorOK'
  <2>1. Len(callbacks[lo]) \in Nat
    BY DEF TypeOK
  <2>2. QED
    BY <2>1 DEF CompleteCopies, CursorOK, Running, Cells
<1>5. cell' \in [Cells -> {"none", "owner", "moved", "stale"}]
  BY DEF CompleteCopies, TypeOK
<1>6. QED
  BY <1>2, <1>3, <1>4, <1>5 DEF TypeOK, CompleteCopies

LEMMA TypeStep == TypeOK /\ [Next]_vars => TypeOK'
<1> SUFFICES ASSUME TypeOK, [Next]_vars PROVE TypeOK'
  OBVIOUS
<1>1. ASSUME NEW o \in Ops, NEW r \in Cells, Post(o, r) PROVE TypeOK'
  <2>1. callbacks' \in [Cells -> Seq(Kinds)]
    BY <1>1, RegisteredFacts DEF TypeOK, Post
  <2>2. CursorOK'
    BY <1>1 DEF Post, Free, CursorOK
  <2>3. handle' \in [Cells -> Handles \union {Null}] /\ bound' \in [Handles -> Ops \union {NoOp}]
    BY <1>1 DEF TypeOK, Post
  <2>4. QED
    BY <1>1, <2>1, <2>2, <2>3 DEF TypeOK, Post
<1>2. ASSUME NEW o \in Ops, MpiComplete(o) PROVE TypeOK'
  BY <1>2 DEF TypeOK, MpiComplete, objects, CursorOK
<1>3. ASSUME NEW r \in Cells, AddCallback(r) PROVE TypeOK'
  <2>1. Append(callbacks[r], "user") \in Seq(Kinds)
    BY DEF TypeOK, Kinds
  <2>2. CursorOK'
    BY <1>3 DEF AddCallback, Free, CursorOK
  <2>3. QED
    BY <1>3, <2>1, <2>2 DEF TypeOK, AddCallback, mpi
<1>4. ASSUME NEW b \in Ops \X Bufs, DropView(b) PROVE TypeOK'
  BY <1>4 DEF TypeOK, DropView, objects, mpi, CursorOK
<1>5. CASE WaitAllReturn
  <2>1. {r \in call.lo .. call.hi : handle[r] # Null} \in SUBSET Cells
    BY <1>5, MpiRequestAssumption DEF WaitAllReturn, TypeOK, CursorOK, Cells
  <2>2. call.lo \in Cells /\ call.hi \in Cells /\ call.lo <= call.hi
    BY <1>5 DEF WaitAllReturn, TypeOK, CursorOK, Cells
  <2>3. QED
    BY <1>5, <2>1, <2>2, CompleteCopiesType DEF WaitAllReturn
<1>6. CASE WaitAnyReturn
  <2>1. PICK r \in call.lo .. call.hi : handle[r] # Null /\ CompleteCopies({r}, "any", r, r)
    BY <1>6 DEF WaitAnyReturn
  <2>2. r \in Cells
    BY <1>6, <2>1, MpiRequestAssumption DEF WaitAnyReturn, TypeOK, CursorOK, Cells
  <2>3. r <= r /\ {r} \in SUBSET Cells
    BY <2>2 DEF Cells
  <2>4. QED
    BY <2>1, <2>2, <2>3, CompleteCopiesType
<1>7. CASE WaitAnyNone
  <2>1. call' \in CallType /\ CursorOK'
    BY <1>7 DEF WaitAnyNone, Idle, CallType, CursorOK
  <2>2. QED
    BY <1>7, <2>1 DEF WaitAnyNone, TypeOK, objects, mpi
<1>8. CASE RunCallback
  <2>1. call' \in CallType
    <3>1. call \in CallType /\ call' = [call EXCEPT !.pos = call.pos + 1]
      BY <1>8 DEF RunCallback, TypeOK
    <3>2. QED
      BY <3>1 DEF CallType
  <2>2. CursorOK'
    <3>1. Len(callbacks[call.at]) \in Nat /\ call.pos \in Nat
      BY <1>8 DEF RunCallback, TypeOK, CursorOK, CallType
    <3>2. QED
      BY <1>8, <3>1 DEF RunCallback, TypeOK, CursorOK, CallType, objects
  <2>3. runs' \in [Ops -> [Kinds -> Nat]]
    <3>1. /\ runs \in [Ops -> [Kinds -> Nat]]
          /\ runs' = [runs EXCEPT ![repr[call.at]][Current] = runs[repr[call.at]][Current] + 1]
      BY <1>8 DEF RunCallback, TypeOK
    <3>2. Current \in Kinds
      BY <1>8 DEF RunCallback, Current, TypeOK, CursorOK, CallType
    <3>3. QED
      BY <3>1, <3>2, CountType
  <2>4. QED
    BY <1>8, <2>1, <2>2, <2>3 DEF RunCallback, TypeOK, objects, mpi
<1>9. CASE ClearCallbacks
  <2>1. callbacks' \in [Cells -> Seq(Kinds)]
    <3>1. callbacks \in [Cells -> Seq(Kinds)] /\ <<>> \in Seq(Kinds)
      BY DEF TypeOK
    <3>2. callbacks' = [callbacks EXCEPT ![call.at] = <<>>]
      BY <1>9 DEF ClearCallbacks
    <3>3. QED
      BY <3>1, <3>2
  <2>2. call' \in CallType
    <3>1. call \in CallType /\ Idle \in CallType
      BY DEF TypeOK, Idle, CallType
    <3>2. call' = Idle \/ call' = [call EXCEPT !.at = call.at + 1, !.pos = 1]
      BY <1>9 DEF ClearCallbacks
    <3>3. QED
      BY <3>1, <3>2, CursorAdvance
  <2>3. CursorOK'
    <3>1. CASE call.at < call.hi
      <4>1. call.at + 1 \in Cells /\ Len(callbacks'[call.at + 1]) \in Nat
        BY <1>9, <3>1, <2>1, MpiRequestAssumption DEF ClearCallbacks, TypeOK, CursorOK, Cells,
          CallType
      <4>2. QED
        BY <1>9, <3>1, <4>1 DEF ClearCallbacks, TypeOK, CursorOK, CallType, Cells
    <3>2. CASE ~(call.at < call.hi)
      BY <1>9, <3>2 DEF ClearCallbacks, CursorOK, Idle
    <3>3. QED
      BY <3>1, <3>2
  <2>4. QED
    BY <1>9, <2>1, <2>2, <2>3 DEF ClearCallbacks, TypeOK, mpi
<1>10. CASE CallbackThrows
  <2>1. call' \in CallType /\ CursorOK'
    BY <1>10 DEF CallbackThrows, Idle, CallType, CursorOK
  <2>2. runs' \in [Ops -> [Kinds -> Nat]]
    <3>1. /\ runs \in [Ops -> [Kinds -> Nat]]
          /\ runs' = [runs EXCEPT ![repr[call.at]]["user"] = runs[repr[call.at]]["user"] + 1]
      BY <1>10 DEF CallbackThrows, TypeOK
    <3>2. QED
      BY <3>1, CountType DEF Kinds
  <2>3. QED
    BY <1>10, <2>1, <2>2 DEF CallbackThrows, TypeOK, objects, mpi
<1>11. ASSUME NEW s \in Cells, NEW d \in Cells, Move(s, d), Free PROVE TypeOK'
  <2>1. CursorOK'
    BY <1>11 DEF Move, Free, CursorOK
  <2>2. callbacks' \in [Cells -> Seq(Kinds)]
    <3>1. callbacks \in [Cells -> Seq(Kinds)] /\ <<>> \in Seq(Kinds)
      BY DEF TypeOK
    <3>2. callbacks' = [callbacks EXCEPT ![d] = callbacks[s], ![s] = <<>>]
      BY <1>11 DEF Move
    <3>3. QED
      BY <3>1, <3>2
  <2>3. QED
    BY <1>11, <2>1, <2>2 DEF Move, TypeOK, mpi
<1>12. ASSUME NEW r \in Cells, Destroy(r) PROVE TypeOK'
  <2>1. CursorOK'
    BY <1>12 DEF Destroy, Free, CursorOK
  <2>2. callbacks' \in [Cells -> Seq(Kinds)]
    BY <1>12 DEF Destroy, TypeOK
  <2>3. QED
    BY <1>12, <2>1, <2>2 DEF Destroy, TypeOK, mpi
<1>13. CASE UNCHANGED vars
  BY <1>13 DEF TypeOK, CursorOK, vars, objects, mpi
<1>14. CASE Program
  <2>1. ASSUME NEW r \in Cells, WaitCall(r) PROVE TypeOK'
    BY <2>1, EnterType DEF WaitCall, Cells
  <2>2. ASSUME NEW lo \in Cells, NEW hi \in Cells, WaitAllCall(lo, hi) \/ WaitAnyCall(lo, hi)
        PROVE  TypeOK'
    BY <2>2, EnterType DEF WaitAllCall, WaitAnyCall
  <2>3. ASSUME NEW r \in Cells, Test(r) PROVE TypeOK'
    <3>1. CASE Dangling(handle[r])
      BY <2>3, <3>1 DEF Test, TypeOK, CursorOK, objects, mpi
    <3>2. QED
      BY <2>3, <3>1, CompleteOwnType DEF Test
  <2>4. ASSUME NEW s \in Cells, NEW d \in Cells, MoveConstruct(s, d) \/ MoveAssign(s, d)
        PROVE  TypeOK'
    BY <1>11, <2>4 DEF MoveConstruct, MoveAssign
  <2>5. QED
    BY <1>1, <1>3, <1>4, <1>12, <1>14, <2>1, <2>2, <2>3, <2>4 DEF Program
<1>15. CASE WaitReturn
  <2>1. call.lo \in Cells
    BY <1>15 DEF WaitReturn, TypeOK, CursorOK
  <2>2. QED
    BY <1>15, <2>1, CompleteOwnType DEF WaitReturn
<1>16. QED
  BY <1>2, <1>5, <1>6, <1>7, <1>8, <1>9, <1>10, <1>13, <1>14, <1>15 DEF Next, Inside

LEMMA InitType == Init => TypeOK
<1> SUFFICES ASSUME Init PROVE TypeOK
  OBVIOUS
<1>1. call \in CallType /\ CursorOK
  BY DEF Init, Idle, CallType, CursorOK
<1>2. callbacks \in [Cells -> Seq(Kinds)]
  BY DEF Init
<1>3. QED
  BY <1>1, <1>2 DEF Init, TypeOK

(* Every reachable state is well typed, and the cursor of a completion     *)
(* call stays inside its span and its list of callbacks.                   *)
THEOREM TypeCorrect == Spec => []TypeOK
  BY InitType, TypeStep, PTL DEF Spec

-----------------------------------------------------------------------------
(***************************************************************************)
(* The invariant is inductive, and the safety properties follow from it.   *)
(***************************************************************************)

(* Everything of IInv but the types.                                       *)
Rest == OwnerInv /\ HandleInv /\ CallInv /\ ListInv /\ RunInv /\ ScopeInv

-----------------------------------------------------------------------------
LEMMA InitInv == Init => IInv
<1> SUFFICES ASSUME Init PROVE IInv
  OBVIOUS
<1>1. TypeOK
  BY InitType
<1>2. OwnerInv
  BY MpiRequestAssumption DEF Init, OwnerInv, Underway
<1>3. HandleInv
  BY MpiRequestAssumption DEF Init, HandleInv, Underway
<1>4. CallInv
  BY DEF Init, CallInv, InTurn, Idle
<1>5. ListInv
  BY MpiRequestAssumption DEF Init, ListInv, Increasing
<1>6. RunInv
  BY MpiRequestAssumption DEF Init, RunInv
<1>7. ScopeInv
  <2>1. ASSUME NEW o \in Ops PROVE {o} \X Views(o) \subseteq scope
    BY DEF Init, Views, Bufs
  <2>2. QED
    BY <2>1 DEF Init, ScopeInv, InTurn, Idle
<1>8. QED
  BY <1>1, <1>2, <1>3, <1>4, <1>5, <1>6, <1>7 DEF IInv

(* A new operation, in an empty cell, with a handle MPI is not using.      *)
LEMMA PostInv ==
  ASSUME IInv, NEW o \in Ops, NEW r \in Cells, Post(o, r)
  PROVE  Rest'
<1> DEFINE reg == Registered(o)
<1>1. PICK h \in Handles : /\ bound[h] = NoOp
                           /\ bound' = [bound EXCEPT ![h] = o]
                           /\ handle' = [handle EXCEPT ![r] = h]
  BY DEF Post
<1>2. /\ opState[o] = "idle" /\ cell[r] = "none"
      /\ opState' = [opState EXCEPT ![o] = "active"]
      /\ callbacks' = [callbacks EXCEPT ![r] = reg]
      /\ cell' = [cell EXCEPT ![r] = "owner"]
      /\ repr' = [repr EXCEPT ![r] = o]
      /\ scope' = scope /\ call' = call /\ runs' = runs /\ misuse' = misuse
      /\ call.stage = "idle"
      /\ {o} \X Views(o) \subseteq scope
  BY DEF Post, Free
<1>3. \A s \in Cells : repr[s] # o
  BY <1>2 DEF IInv, OwnerInv, HandleInv, Underway
<1>4. \A g \in Handles : bound[g] # o
  BY <1>2 DEF IInv, HandleInv, Underway
<1>5. OwnerInv'
  BY <1>2, <1>3 DEF IInv, OwnerInv, TypeOK, Underway
<1>6. HandleInv'
  BY <1>1, <1>2, <1>3, <1>4, MpiRequestAssumption DEF IInv, OwnerInv, HandleInv, TypeOK, Underway
<1>7. CallInv'
  BY <1>2 DEF CallInv, InTurn
<1>8. ListInv'
  <2>1. /\ reg \in Seq(Kinds) /\ Increasing(reg)
        /\ \A i \in 1 .. Len(reg) : reg[i] \in RegSet(o)
        /\ \A k \in RegSet(o) : Has(reg, k)
    BY RegisteredFacts DEF RegSet, Has
  <2>2. ASSUME NEW s \in Cells, s # r PROVE repr'[s] = repr[s] /\ callbacks'[s] = callbacks[s]
    BY <1>2, <2>2 DEF IInv, TypeOK
  <2>3. repr'[r] = o /\ callbacks'[r] = reg
    BY <1>2 DEF IInv, TypeOK
  <2>4. ASSUME NEW s \in Cells, s # r, repr[s] \in Ops, Underway(repr[s])' PROVE Underway(repr[s])
    BY <1>2, <1>3, <2>4 DEF IInv, TypeOK, Underway
  <2>5. QED
    BY <1>3, <2>1, <2>2, <2>3, <2>4 DEF IInv, ListInv
<1>9. RunInv'
  <2>1. ASSUME NEW p \in Ops, opState'[p] = "freed" PROVE opState[p] = "freed"
    BY <1>2, <2>1 DEF IInv, TypeOK
  <2>2. ASSUME NEW p \in Ops, NEW k \in Kinds PROVE
          /\ runs'[p][k] \in {0, 1}
          /\ opState'[p] # "freed" => runs'[p][k] = 0
          /\ runs'[p][k] = 1 => k = "user" \/ k \in RegSet(p)
          /\ ~(opState'[p] = "freed" /\ k \in RegSet(p) /\ runs'[p][k] = 0)
    BY <1>2, <2>1 DEF IInv, RunInv, TypeOK, InTurn
  <2>3. ASSUME NEW s \in Cells, repr'[s] \in Ops, NEW i \in 1 .. Len(callbacks'[s])
        PROVE  runs'[repr'[s]][callbacks'[s][i]] = 0 /\ ~Ran(s, i)'
    <3>1. CASE s = r
      <4>1. repr'[s] = o /\ callbacks'[s] = reg
        BY <1>2, <3>1 DEF IInv, TypeOK
      <4>2. reg[i] \in Kinds
        BY <2>3, <4>1, RegisteredFacts
      <4>3. QED
        BY <1>2, <4>1, <4>2 DEF IInv, RunInv, Ran
    <3>2. CASE s # r
      BY <1>2, <2>3, <3>2 DEF IInv, RunInv, TypeOK, Ran
    <3>3. QED
      BY <3>1, <3>2
  <2>4. QED
    BY <2>2, <2>3 DEF RunInv
<1>10. ScopeInv'
  BY <1>2, <1>3 DEF IInv, ScopeInv, TypeOK, InTurn
<1>11. QED
  BY <1>5, <1>6, <1>7, <1>8, <1>9, <1>10 DEF Rest

(* The MPI library finishes an operation: it stays under way.              *)
LEMMA MpiCompleteInv ==
  ASSUME IInv, NEW o \in Ops, MpiComplete(o)
  PROVE  Rest'
<1>1. /\ opState[o] = "active"
      /\ opState' = [opState EXCEPT ![o] = "complete"]
      /\ cell' = cell /\ handle' = handle /\ callbacks' = callbacks /\ repr' = repr
      /\ bound' = bound /\ scope' = scope /\ call' = call /\ runs' = runs /\ misuse' = misuse
  BY DEF MpiComplete, objects
<1>2. ASSUME NEW p \in Ops
      PROVE  /\ Underway(p)' <=> Underway(p)
             /\ opState'[p] = "freed" <=> opState[p] = "freed"
  BY <1>1 DEF IInv, TypeOK, Underway
<1>3. OwnerInv'
  BY <1>1, <1>2 DEF IInv, OwnerInv
<1>4. HandleInv'
  BY <1>1, <1>2 DEF IInv, OwnerInv, HandleInv
<1>5. CallInv'
  BY <1>1, <1>2 DEF IInv, CallInv, InTurn
<1>6. ListInv'
  BY <1>1, <1>2 DEF IInv, ListInv
<1>7. RunInv'
  BY <1>1, <1>2 DEF IInv, RunInv, Ran, InTurn
<1>8. ScopeInv'
  BY <1>1, <1>2 DEF IInv, ScopeInv, InTurn
<1>9. QED
  BY <1>3, <1>4, <1>5, <1>6, <1>7, <1>8 DEF Rest

(* The program's own callback goes last, where none has run.               *)
LEMMA AddCallbackInv ==
  ASSUME IInv, NEW r \in Cells, AddCallback(r)
  PROVE  Rest'
<1> DEFINE s == callbacks[r]
           t == Append(callbacks[r], "user")
<1>1. /\ call.stage = "idle" /\ cell[r] = "owner" /\ repr[r] \in Ops
      /\ runs[repr[r]]["user"] = 0
      /\ callbacks' = [callbacks EXCEPT ![r] = t]
      /\ cell' = cell /\ handle' = handle /\ repr' = repr /\ opState' = opState
      /\ bound' = bound /\ scope' = scope /\ call' = call /\ runs' = runs /\ misuse' = misuse
  BY DEF AddCallback, Free, mpi, IInv, TypeOK
<1>2. \A i \in 1 .. Len(s) : s[i] \in Kinds /\ s[i] # "user"
  BY DEF AddCallback, IInv, TypeOK
<1>3. /\ t \in Seq(Kinds) /\ Len(t) = Len(s) + 1 /\ t[Len(s) + 1] = "user"
      /\ \A i \in 1 .. Len(s) : t[i] = s[i]
      /\ Len(s) \in Nat
  BY DEF IInv, TypeOK, Kinds
<1>4. callbacks'[r] = t /\ \A q \in Cells : q # r => callbacks'[q] = callbacks[q]
  BY <1>1 DEF IInv, TypeOK
<1> HIDE DEF t
<1>5. OwnerInv' /\ HandleInv'
  BY <1>1 DEF IInv, OwnerInv, HandleInv, Underway
<1>6. CallInv'
  BY <1>1 DEF CallInv, InTurn
<1>7. ListInv'
  <2>1. Increasing(t)
    <3> SUFFICES ASSUME NEW i \in 1 .. Len(t), NEW j \in 1 .. Len(t), i < j
                 PROVE  Rank[t[i]] < Rank[t[j]]
      BY DEF Increasing
    <3>1. i \in 1 .. Len(s)
      BY <1>3
    <3>2. CASE j \in 1 .. Len(s)
      BY <1>3, <3>1, <3>2 DEF IInv, ListInv, Increasing
    <3>3. CASE j = Len(s) + 1
      BY <1>2, <1>3, <3>1, <3>3 DEF Rank, Kinds
    <3>4. QED
      BY <1>3, <3>2, <3>3
  <2>2. ASSUME NEW k \in Kinds, Has(s, k) PROVE Has(t, k)
    BY <1>3, <2>2 DEF Has
  <2>3. \A i \in 1 .. Len(t) : t[i] = "user" \/ t[i] \in RegSet(repr[r])
    BY <1>1, <1>3 DEF IInv, ListInv
  <2>4. Underway(repr[r]) => \A k \in RegSet(repr[r]) : Has(t, k)
    BY <1>1, <2>2 DEF IInv, ListInv, RegSet
  <2>5. Underway(repr[r])' => Underway(repr[r])
    BY <1>1 DEF Underway
  <2>6. ASSUME NEW q \in Cells
        PROVE /\ Increasing(callbacks'[q])
              /\ repr'[q] \notin Ops => callbacks'[q] = <<>>
              /\ repr'[q] \in Ops =>
                   /\ \A i \in 1 .. Len(callbacks'[q]) :
                        callbacks'[q][i] = "user" \/ callbacks'[q][i] \in RegSet(repr'[q])
                   /\ Underway(repr[q])' =>
                        \A k \in RegSet(repr'[q]) : Has(callbacks'[q], k)
    <3>1. CASE q = r
      BY <1>1, <1>4, <2>1, <2>3, <2>4, <2>5, <3>1
    <3>2. CASE q # r
      BY <1>1, <1>4, <3>2 DEF IInv, ListInv, Underway
    <3>3. QED
      BY <3>1, <3>2
  <2>7. QED
    BY <2>6 DEF ListInv
<1>8. RunInv'
  <2>1. ASSUME NEW q \in Cells, repr'[q] \in Ops, NEW i \in 1 .. Len(callbacks'[q])
        PROVE  runs'[repr'[q]][callbacks'[q][i]] = 0 /\ ~Ran(q, i)'
    <3>1. CASE q = r
      BY <1>1, <1>3, <1>4, <2>1, <3>1 DEF IInv, RunInv, Ran
    <3>2. CASE q # r
      BY <1>1, <1>4, <2>1, <3>2 DEF IInv, RunInv, Ran
    <3>3. QED
      BY <3>1, <3>2
  <2>2. \A p \in Ops, k \in Kinds :
          ~(opState[p] = "freed" /\ k \in RegSet(p) /\ runs[p][k] = 0)
    BY <1>1 DEF IInv, RunInv, InTurn
  <2>3. QED
    BY <1>1, <2>1, <2>2 DEF IInv, RunInv
<1>9. ScopeInv'
  BY <1>1 DEF IInv, ScopeInv, InTurn
<1>10. QED
  BY <1>5, <1>6, <1>7, <1>8, <1>9 DEF Rest

(* A view leaves the program's hands outside of any call.                  *)
LEMMA DropViewInv ==
  ASSUME IInv, NEW b \in Ops \X Bufs, DropView(b)
  PROVE  Rest'
<1>1. /\ call.stage = "idle"
      /\ Call[b[1]].managed \/ opState[b[1]] = "freed"
      /\ scope' = scope \ {b}
      /\ cell' = cell /\ handle' = handle /\ callbacks' = callbacks /\ repr' = repr
      /\ opState' = opState /\ bound' = bound /\ call' = call /\ runs' = runs
      /\ misuse' = misuse
  BY DEF DropView, Free, objects, mpi
<1>2. OwnerInv' /\ HandleInv'
  BY <1>1 DEF IInv, OwnerInv, HandleInv, Underway
<1>3. CallInv' /\ ListInv'
  BY <1>1 DEF IInv, CallInv, ListInv, InTurn, Underway
<1>4. RunInv'
  BY <1>1 DEF IInv, RunInv, InTurn, Ran
<1>5. ScopeInv'
  <2>1. ASSUME NEW o \in Ops, ~Call[o].managed, opState[o] # "freed"
        PROVE  {o} \X Views(o) \subseteq scope'
    BY <1>1, <2>1 DEF IInv, ScopeInv
  <2>2. QED
    BY <1>1, <2>1 DEF ScopeInv, InTurn
<1>6. QED
  BY <1>2, <1>3, <1>4, <1>5 DEF Rest

(* Entering a call: under documented use all the objects are owners, and   *)
(* no handle of an owner dangles.                                          *)
LEMMA EnterInv ==
  ASSUME IInv, Beyond = {}, NEW f, NEW lo \in Cells, NEW hi \in Cells, Enter(f, lo, hi)
  PROVE  Rest'
<1>1. ASSUME NEW r \in lo .. hi PROVE r \in Cells /\ cell[r] = "owner" /\ ~Dangling(handle[r])
  <2>1. r \in Cells
    BY MpiRequestAssumption DEF Cells
  <2>2. cell[r] = "owner"
    BY DEF Enter, MayUse
  <2>3. ~Dangling(handle[r])
    BY <2>1, <2>2, MpiRequestAssumption DEF Dangling, IInv, HandleInv, OwnerInv, TypeOK
  <2>4. QED
    BY <2>1, <2>2, <2>3
<1>2. /\ call' = Blocked(f, lo, hi) /\ call.stage = "idle"
      /\ cell' = cell /\ handle' = handle /\ callbacks' = callbacks /\ repr' = repr
      /\ opState' = opState /\ bound' = bound /\ scope' = scope /\ runs' = runs
      /\ misuse' = misuse
  BY <1>1 DEF Enter, Free, objects, mpi
<1>3. OwnerInv' /\ HandleInv'
  BY <1>2 DEF IInv, OwnerInv, HandleInv, Underway
<1>4. CallInv'
  BY <1>1, <1>2 DEF CallInv, InTurn, Blocked
<1>5. ListInv'
  BY <1>2 DEF IInv, ListInv, Underway
<1>6. RunInv'
  BY <1>2 DEF IInv, RunInv, InTurn, Ran, Blocked
<1>7. ScopeInv'
  BY <1>2 DEF IInv, ScopeInv, InTurn, Blocked
<1>8. QED
  BY <1>3, <1>4, <1>5, <1>6, <1>7 DEF Rest

-----------------------------------------------------------------------------
(* MPI frees handles of complete operations, each held by the owner of its *)
(* operation: exactly these operations are over afterwards.                *)
LEMMA FreedHandles ==
  ASSUME IInv, NEW S \in SUBSET Cells,
         \A r \in S : cell[r] = "owner" /\ handle[r] # Null /\ Done(handle[r]),
         NEW H, H = {handle[r] : r \in S}, MpiFree(H)
  PROVE  /\ \A o \in Ops : opState'[o] = IF \E r \in S : repr[r] = o THEN "freed"
                                         ELSE opState[o]
         /\ \A h \in Handles : bound'[h] = IF h \in H THEN NoOp ELSE bound[h]
         /\ \A r \in S : bound[handle[r]] = repr[r] /\ repr[r] \in Ops /\ handle[r] \in Handles
<1>1. \A r \in S : bound[handle[r]] = repr[r] /\ repr[r] \in Ops /\ handle[r] \in Handles
  BY DEF IInv, TypeOK, OwnerInv, HandleInv
<1>2. ASSUME NEW o \in Ops PROVE (\E h \in H : bound[h] = o) <=> (\E r \in S : repr[r] = o)
  BY <1>1
<1>3. QED
  BY <1>1, <1>2 DEF MpiFree

(* wait, and test when its flag is set.                                    *)
LEMMA CompleteOwnInv ==
  ASSUME IInv, NEW f, NEW r \in Cells, cell[r] = "owner", call.stage # "run",
         CompleteOwn(f, r)
  PROVE  Rest'
<1> DEFINE S == IF handle[r] = Null THEN {} ELSE {r}
           H == {handle[r]} \ {Null}
           o == repr[r]
<1>1. /\ Done(handle[r]) /\ MpiFree(H)
      /\ handle' = [handle EXCEPT ![r] = Null] /\ call' = Running(f, r, r)
      /\ cell' = cell /\ callbacks' = callbacks /\ repr' = repr
      /\ scope' = scope /\ runs' = runs /\ misuse' = misuse
  BY DEF CompleteOwn
<1>2. S \in SUBSET Cells /\ H = {handle[q] : q \in S}
  OBVIOUS
<1>3. \A q \in S : cell[q] = "owner" /\ handle[q] # Null /\ Done(handle[q])
  BY <1>1
<1>4. o \in Ops
  BY DEF IInv, OwnerInv
<1> HIDE DEF S, H
<1>5. /\ \A p \in Ops : opState'[p] = IF \E q \in S : repr[q] = p THEN "freed" ELSE opState[p]
      /\ \A h \in Handles : bound'[h] = IF h \in H THEN NoOp ELSE bound[h]
      /\ \A q \in S : bound[handle[q]] = repr[q] /\ repr[q] \in Ops /\ handle[q] \in Handles
  BY <1>1, <1>2, <1>3, FreedHandles
<1>6. opState'[o] = "freed" /\ \A p \in Ops : p # o => opState'[p] = opState[p]
  <2>1. CASE handle[r] = Null
    <3>1. opState[o] = "freed" /\ S = {}
      BY <2>1 DEF IInv, HandleInv, S
    <3>2. QED
      BY <1>4, <1>5, <3>1
  <2>2. CASE handle[r] # Null
    <3>1. S = {r}
      BY <2>2 DEF S
    <3>2. QED
      BY <1>4, <1>5, <3>1
  <2>3. QED
    BY <2>1, <2>2
<1>7. \A q \in Cells : InTurn(q)' <=> q = r
  BY <1>1 DEF InTurn, Running, Cells
<1>8. \A q \in Cells : \A i : ~Ran(q, i) /\ (i \in Nat \ {0} => ~Ran(q, i)')
  BY <1>1 DEF Ran, Running
<1>9. OwnerInv'
  BY <1>1, <1>6 DEF IInv, OwnerInv, Underway
<1>10. HandleInv'
  <2>1. ASSUME NEW q \in Cells, q # r PROVE handle'[q] = handle[q]
    BY <1>1, <2>1 DEF IInv, TypeOK
  <2>2. handle'[r] = Null
    BY <1>1 DEF IInv, TypeOK
  <2>3. ASSUME NEW q \in Cells, q # r, cell[q] = "owner", handle[q] # Null
        PROVE  /\ bound'[handle[q]] = repr[q] /\ repr[q] # o
               /\ repr[q] \in Ops /\ Underway(repr[q])'
    <3>1. repr[q] \in Ops /\ repr[q] # o /\ bound[handle[q]] = repr[q] /\ handle[q] \in Handles
      BY <1>4, <2>3 DEF IInv, OwnerInv, HandleInv, TypeOK
    <3>2. handle[q] \notin H
      <4>1. ASSUME handle[r] # Null PROVE bound[handle[r]] = o
        BY <4>1 DEF IInv, HandleInv
      <4>2. QED
        BY <2>3, <3>1, <4>1 DEF H
    <3>3. bound'[handle[q]] = bound[handle[q]]
      BY <1>5, <3>1, <3>2
    <3>4. Underway(repr[q])
      BY <2>3 DEF IInv, HandleInv
    <3>5. opState'[repr[q]] = opState[repr[q]]
      BY <1>6, <3>1
    <3>6. QED
      BY <1>1, <3>1, <3>3, <3>4, <3>5 DEF Underway
  <2>4. ASSUME NEW q \in Cells, cell[q] = "owner" PROVE
          IF handle'[q] = Null THEN opState'[repr[q]] = "freed"
          ELSE bound'[handle'[q]] = repr[q] /\ Underway(repr[q])'
    <3>1. CASE q = r
      BY <1>6, <2>2, <3>1
    <3>2. CASE q # r
      <4>1. repr[q] \in Ops /\ repr[q] # o
        BY <1>4, <2>4, <3>2 DEF IInv, OwnerInv
      <4>2. QED
        BY <1>6, <2>1, <2>3, <2>4, <3>2, <4>1 DEF IInv, HandleInv
    <3>3. QED
      BY <3>1, <3>2
  <2>5. ASSUME NEW q \in Cells, cell[q] = "stale" PROVE opState'[repr[q]] = "freed"
    BY <1>6, <2>5 DEF IInv, OwnerInv, HandleInv
  <2>6. ASSUME NEW h \in Handles, bound'[h] \in Ops
        PROVE  bound'[h] = bound[h] /\ Underway(bound[h])'
    <3>1. h \notin H /\ bound'[h] = bound[h]
      BY <1>5, <2>6, MpiRequestAssumption
    <3>2. bound[h] # o
      <4>1. CASE handle[r] = Null
        BY <3>1, <2>6, <4>1 DEF IInv, HandleInv, Underway
      <4>2. CASE handle[r] # Null
        BY <1>4, <1>5, <2>6, <3>1, <4>2 DEF IInv, HandleInv, H, S
      <4>3. QED
        BY <4>1, <4>2
    <3>3. QED
      BY <1>6, <2>6, <3>1, <3>2 DEF IInv, HandleInv, Underway
  <2>7. QED
    BY <1>1, <2>4, <2>5, <2>6 DEF IInv, HandleInv
<1>11. CallInv'
  BY <1>1, <1>4, <1>6, <1>7 DEF CallInv, Running
<1>12. ListInv'
  BY <1>1, <1>6 DEF IInv, ListInv, Underway
<1>13. RunInv'
  <2>1. ASSUME NEW k \in RegSet(o), runs[o][k] = 0 PROVE Has(callbacks[r], k)
    <3>1. CASE handle[r] = Null
      <4>1. opState[o] = "freed"
        BY <3>1 DEF IInv, HandleInv
      <4>2. \E q \in Cells : InTurn(q)
        BY <1>4, <2>1, <4>1 DEF IInv, RunInv, RegSet
      <4>3. QED
        BY <4>2 DEF InTurn
    <3>2. CASE handle[r] # Null
      BY <1>4, <2>1, <3>2 DEF IInv, HandleInv, ListInv
    <3>3. QED
      BY <3>1, <3>2
  <2>2. ASSUME NEW p \in Ops, NEW k \in Kinds PROVE
          /\ runs'[p][k] \in {0, 1}
          /\ opState'[p] # "freed" => runs'[p][k] = 0
          /\ runs'[p][k] = 1 => k = "user" \/ k \in RegSet(p)
    BY <1>1, <1>6 DEF IInv, RunInv
  <2>3. ASSUME NEW p \in Ops, NEW k \in Kinds,
               opState'[p] = "freed", k \in RegSet(p), runs'[p][k] = 0
        PROVE  \E q \in Cells : repr'[q] = p /\ InTurn(q)' /\ Has(callbacks'[q], k)
    <3>1. CASE p = o
      BY <1>1, <1>7, <2>1, <2>3, <3>1
    <3>2. CASE p # o
      BY <1>1, <1>6, <2>3, <3>2 DEF IInv, RunInv, InTurn
    <3>3. QED
      BY <3>1, <3>2
  <2>4. ASSUME NEW q \in Cells, repr'[q] \in Ops, NEW i \in 1 .. Len(callbacks'[q])
        PROVE  runs'[repr'[q]][callbacks'[q][i]] = 0 /\ ~Ran(q, i)'
    <3>1. i \in Nat \ {0}
      BY <1>1, <2>4
    <3>2. QED
      BY <1>1, <1>8, <2>4, <3>1 DEF IInv, RunInv
  <2>5. QED
    BY <2>2, <2>3, <2>4 DEF RunInv
<1>14. ScopeInv'
  <2>1. ASSUME NEW p \in Ops, ~Call[p].managed, opState'[p] # "freed"
        PROVE  {p} \X Views(p) \subseteq scope'
    BY <1>1, <1>6, <2>1 DEF IInv, ScopeInv
  <2>2. ASSUME ~Call[o].managed, NEW i \in 1 .. Len(callbacks[r]), callbacks[r][i] # "user"
        PROVE  {o} \X Views(o) \subseteq scope
    <3>1. callbacks[r][i] \in RegSet(o) /\ runs[o][callbacks[r][i]] = 0
      BY <1>4, <1>8, <2>2 DEF IInv, ListInv, RunInv
    <3>2. callbacks[r][i] \in Kinds
      BY <3>1 DEF RegSet
    <3>3. opState[o] # "freed"
      <4>1. ~\E q \in Cells : InTurn(q)
        BY DEF InTurn
      <4>2. QED
        BY <1>4, <3>1, <3>2, <4>1 DEF IInv, RunInv
    <3>4. QED
      BY <1>4, <2>2, <3>3 DEF IInv, ScopeInv
  <2>3. QED
    BY <1>1, <1>7, <2>1, <2>2 DEF ScopeInv
<1>15. QED
  BY <1>9, <1>10, <1>11, <1>12, <1>13, <1>14 DEF Rest

(* wait_all and wait_any: S is what MPI completed through the copies, at   *)
(* least what is not null among the objects whose callbacks will run.      *)
LEMMA CompleteCopiesInv ==
  ASSUME IInv, NEW f, NEW lo \in Cells, NEW hi \in Cells, NEW S \in SUBSET Cells,
         call.stage # "run",
         \A r \in S : cell[r] = "owner" /\ handle[r] # Null /\ Done(handle[r]),
         S \subseteq lo .. hi,
         \A r \in lo .. hi : cell[r] = "owner" /\ (handle[r] # Null => r \in S),
         CompleteCopies(S, f, lo, hi)
  PROVE  Rest'
<1> DEFINE H == {handle[r] : r \in S}
<1>1. /\ MpiFree(H)
      /\ cell' = [r \in Cells |-> IF r \in S THEN "stale" ELSE cell[r]]
      /\ call' = Running(f, lo, hi)
      /\ handle' = handle /\ callbacks' = callbacks /\ repr' = repr
      /\ scope' = scope /\ runs' = runs /\ misuse' = misuse
  BY DEF CompleteCopies
<1>2. /\ \A p \in Ops : opState'[p] = IF \E q \in S : repr[q] = p THEN "freed" ELSE opState[p]
      /\ \A h \in Handles : bound'[h] = IF h \in H THEN NoOp ELSE bound[h]
      /\ \A q \in S : bound[handle[q]] = repr[q] /\ repr[q] \in Ops /\ handle[q] \in Handles
  BY <1>1, FreedHandles
<1>3. \A q \in Cells : InTurn(q)' <=> lo <= q /\ q <= hi
  BY <1>1 DEF InTurn, Running
<1>4. \A q \in Cells : \A i : ~Ran(q, i) /\ (i \in Nat \ {0} => ~Ran(q, i)')
  BY <1>1 DEF Ran, Running
<1>5. ASSUME NEW q \in Cells PROVE q \in lo .. hi <=> lo <= q /\ q <= hi
  BY MpiRequestAssumption DEF Cells
<1>6. ASSUME NEW q \in Cells, repr[q] \in Ops, q \notin S
      PROVE  opState'[repr[q]] = opState[repr[q]]
  <2>1. ~\E s \in S : repr[s] = repr[q]
    BY <1>6 DEF IInv, OwnerInv
  <2>2. QED
    BY <1>2, <1>6, <2>1
<1>7. ASSUME NEW q \in S PROVE opState'[repr[q]] = "freed" /\ repr[q] \in Ops
  BY <1>2
<1>8. ASSUME NEW p \in Ops PROVE opState'[p] = opState[p] \/ opState'[p] = "freed"
  BY <1>2
<1>9. OwnerInv'
  <2>1. \A r \in Cells : cell'[r] \in {"owner", "stale"} <=> repr'[r] \in Ops
    BY <1>1, <1>7 DEF IInv, OwnerInv
  <2>2. \A r, s \in Cells : repr'[r] \in Ops /\ repr'[r] = repr'[s] => r = s
    BY <1>1 DEF IInv, OwnerInv
  <2>3. ASSUME NEW p \in Ops, Underway(p)'
        PROVE  \E r \in Cells : repr'[r] = p /\ cell'[r] = "owner"
    <3>1. Underway(p) /\ ~\E q \in S : repr[q] = p
      BY <1>2, <2>3 DEF Underway
    <3>2. PICK r \in Cells : repr[r] = p /\ cell[r] = "owner"
      BY <3>1 DEF IInv, OwnerInv
    <3>3. QED
      BY <1>1, <3>1, <3>2
  <2>4. QED
    BY <2>1, <2>2, <2>3 DEF OwnerInv
<1>10. HandleInv'
  <2>1. ASSUME NEW q \in Cells, cell'[q] = "owner" PROVE
          IF handle'[q] = Null THEN opState'[repr'[q]] = "freed"
          ELSE bound'[handle'[q]] = repr'[q] /\ Underway(repr[q])'
    <3>1. q \notin S /\ cell[q] = "owner" /\ repr[q] \in Ops
      BY <1>1, <2>1 DEF IInv, OwnerInv
    <3>2. opState'[repr[q]] = opState[repr[q]]
      BY <1>6, <3>1
    <3>3. CASE handle[q] = Null
      BY <1>1, <3>1, <3>2, <3>3 DEF IInv, HandleInv
    <3>4. CASE handle[q] # Null
      <4>1. bound[handle[q]] = repr[q] /\ Underway(repr[q]) /\ handle[q] \in Handles
        BY <3>1, <3>4 DEF IInv, HandleInv, TypeOK
      <4>2. handle[q] \notin H
        <5>1. ASSUME NEW s \in S, handle[s] = handle[q] PROVE FALSE
          BY <1>2, <3>1, <4>1, <5>1 DEF IInv, OwnerInv
        <5>2. QED
          BY <5>1
      <4>3. bound'[handle[q]] = repr[q]
        BY <1>2, <4>1, <4>2
      <4>4. QED
        BY <1>1, <3>2, <3>4, <4>1, <4>3 DEF Underway
    <3>5. QED
      BY <3>3, <3>4
  <2>2. ASSUME NEW q \in Cells, cell'[q] = "stale" PROVE opState'[repr'[q]] = "freed"
    <3>1. CASE q \in S
      BY <1>1, <1>7, <3>1
    <3>2. CASE q \notin S
      <4>1. cell[q] = "stale"
        BY <1>1, <2>2, <3>2
      <4>2. repr[q] \in Ops /\ opState[repr[q]] = "freed"
        BY <4>1 DEF IInv, OwnerInv, HandleInv
      <4>3. QED
        BY <1>1, <1>8, <4>2
    <3>3. QED
      BY <3>1, <3>2
  <2>3. ASSUME NEW h \in Handles, bound'[h] \in Ops
        PROVE  bound'[h] = bound[h] /\ Underway(bound[h])'
    <3>1. h \notin H /\ bound'[h] = bound[h]
      BY <1>2, <2>3, MpiRequestAssumption
    <3>2. ASSUME NEW s \in S PROVE repr[s] # bound[h]
      <4>1. bound[handle[s]] = repr[s] /\ handle[s] \in Handles /\ repr[s] \in Ops
        BY <1>2
      <4>2. handle[s] # h
        BY <3>1
      <4>3. QED
        BY <4>1, <4>2 DEF IInv, HandleInv
    <3>3. opState'[bound[h]] = opState[bound[h]]
      BY <1>2, <2>3, <3>1, <3>2
    <3>4. Underway(bound[h])
      BY <2>3, <3>1 DEF IInv, HandleInv
    <3>5. QED
      BY <3>1, <3>3, <3>4 DEF Underway
  <2>4. QED
    BY <1>1, <2>1, <2>2, <2>3 DEF IInv, HandleInv
<1>11. CallInv'
  <2>1. ASSUME NEW q \in Cells, InTurn(q)' PROVE repr[q] \in Ops /\ opState'[repr[q]] = "freed"
    <3>1. cell[q] = "owner" /\ (handle[q] # Null => q \in S)
      BY <1>3, <1>5, <2>1
    <3>2. repr[q] \in Ops
      BY <3>1 DEF IInv, OwnerInv
    <3>3. CASE handle[q] = Null
      BY <1>8, <3>1, <3>2, <3>3 DEF IInv, HandleInv
    <3>4. CASE handle[q] # Null
      BY <1>7, <3>1, <3>4
    <3>5. QED
      BY <3>2, <3>3, <3>4
  <2>2. QED
    BY <1>1, <2>1 DEF CallInv, Running
<1>12. ASSUME NEW p \in Ops, Underway(p)' PROVE Underway(p)
  BY <1>8, <1>12 DEF Underway
<1>13. ListInv'
  BY <1>1, <1>12 DEF IInv, ListInv
<1>14. RunInv'
  <2>1. ASSUME NEW p \in Ops, NEW k \in Kinds PROVE
          /\ runs'[p][k] \in {0, 1}
          /\ opState'[p] # "freed" => runs'[p][k] = 0
          /\ runs'[p][k] = 1 => k = "user" \/ k \in RegSet(p)
    BY <1>1, <1>8 DEF IInv, RunInv
  <2>2. ASSUME NEW p \in Ops, NEW k \in Kinds,
               opState'[p] = "freed", k \in RegSet(p), runs'[p][k] = 0
        PROVE  \E q \in Cells : repr'[q] = p /\ InTurn(q)' /\ Has(callbacks'[q], k)
    <3>1. opState[p] # "freed"
      BY <1>1, <2>2 DEF IInv, RunInv, InTurn
    <3>2. PICK q \in S : repr[q] = p
      BY <1>2, <2>2, <3>1
    <3>3. Underway(repr[q]) /\ q \in Cells
      BY <1>2 DEF IInv, HandleInv
    <3>4. Has(callbacks[q], k)
      BY <2>2, <3>2, <3>3 DEF IInv, ListInv
    <3>5. InTurn(q)'
      BY <1>3, <1>5, <3>3
    <3>6. QED
      BY <1>1, <3>2, <3>3, <3>4, <3>5
  <2>3. ASSUME NEW q \in Cells, repr'[q] \in Ops, NEW i \in 1 .. Len(callbacks'[q])
        PROVE  runs'[repr'[q]][callbacks'[q][i]] = 0 /\ ~Ran(q, i)'
    <3>1. i \in Nat \ {0}
      BY <2>3
    <3>2. QED
      BY <1>1, <1>4, <2>3, <3>1 DEF IInv, RunInv
  <2>4. QED
    BY <2>1, <2>2, <2>3 DEF RunInv
<1>15. ScopeInv'
  <2>1. ASSUME NEW p \in Ops, ~Call[p].managed, opState'[p] # "freed"
        PROVE  {p} \X Views(p) \subseteq scope'
    BY <1>1, <1>8, <2>1 DEF IInv, ScopeInv
  <2>2. ASSUME NEW q \in Cells, repr[q] \in Ops, ~Call[repr[q]].managed,
               NEW i \in 1 .. Len(callbacks[q]), callbacks[q][i] # "user"
        PROVE  {repr[q]} \X Views(repr[q]) \subseteq scope
    <3>1. callbacks[q][i] \in RegSet(repr[q]) /\ runs[repr[q]][callbacks[q][i]] = 0
      BY <1>4, <2>2 DEF IInv, ListInv, RunInv
    <3>2. callbacks[q][i] \in Kinds
      BY <3>1 DEF RegSet
    <3>3. opState[repr[q]] # "freed"
      <4>1. ~\E s \in Cells : InTurn(s)
        BY DEF InTurn
      <4>2. QED
        BY <2>2, <3>1, <3>2, <4>1 DEF IInv, RunInv
    <3>4. QED
      BY <2>2, <3>3 DEF IInv, ScopeInv
  <2>3. ASSUME NEW q \in Cells, InTurn(q)' PROVE repr[q] \in Ops
    BY <1>3, <1>5, <2>3 DEF IInv, OwnerInv
  <2>4. QED
    BY <1>1, <2>1, <2>2, <2>3 DEF ScopeInv
<1>16. QED
  BY <1>9, <1>10, <1>11, <1>13, <1>14, <1>15 DEF Rest

-----------------------------------------------------------------------------
(* wait_any on null requests only goes back to the program.                *)
LEMMA WaitAnyNoneInv == ASSUME IInv, WaitAnyNone PROVE Rest'
<1>1. /\ call.stage = "mpi" /\ call' = Idle
      /\ cell' = cell /\ handle' = handle /\ callbacks' = callbacks /\ repr' = repr
      /\ opState' = opState /\ bound' = bound /\ scope' = scope /\ runs' = runs
      /\ misuse' = misuse
  BY DEF WaitAnyNone, objects, mpi
<1>2. OwnerInv' /\ HandleInv'
  BY <1>1 DEF IInv, OwnerInv, HandleInv, Underway
<1>3. CallInv' /\ ScopeInv'
  BY <1>1 DEF IInv, CallInv, ScopeInv, InTurn, Idle
<1>4. ListInv'
  BY <1>1 DEF IInv, ListInv, Underway
<1>5. RunInv'
  BY <1>1 DEF IInv, RunInv, InTurn, Ran, Idle
<1>6. QED
  BY <1>2, <1>3, <1>4, <1>5 DEF Rest

(* One callback of the list runs: it had not run before, and no other      *)
(* callback is the same.                                                   *)
LEMMA RunCallbackInv == ASSUME IInv, RunCallback PROVE Rest'
<1> DEFINE r == call.at
           o == repr[call.at]
           k == Current
<1>1. /\ call.stage = "run" /\ call.pos <= Len(callbacks[r])
      /\ runs' = [runs EXCEPT ![o][k] = runs[o][k] + 1]
      /\ call' = [call EXCEPT !.pos = call.pos + 1]
      /\ cell' = cell /\ handle' = handle /\ callbacks' = callbacks /\ repr' = repr
      /\ opState' = opState /\ bound' = bound /\ scope' = scope /\ misuse' = misuse
  BY DEF RunCallback, objects, mpi
<1>2. /\ r \in Cells /\ r \in Nat /\ call.hi \in Nat /\ call.pos \in Nat \ {0}
      /\ InTurn(r) /\ Len(callbacks[r]) \in Nat
  BY <1>1 DEF IInv, TypeOK, CursorOK, CallType, InTurn
<1>3. o \in Ops /\ opState[o] = "freed"
  BY <1>2 DEF IInv, CallInv
<1>4. call.pos \in 1 .. Len(callbacks[r]) /\ k = callbacks[r][call.pos] /\ k \in Kinds
  BY <1>1, <1>2 DEF Current, IInv, TypeOK
<1>5. runs[o][k] = 0
  <2>1. ~Ran(r, call.pos)
    BY <1>2 DEF Ran
  <2>2. QED
    BY <1>2, <1>3, <1>4, <2>1 DEF IInv, RunInv
<1>6. \A p \in Ops, l \in Kinds : runs'[p][l] = IF p = o /\ l = k THEN 1 ELSE runs[p][l]
  BY <1>1, <1>3, <1>4, <1>5 DEF IInv, TypeOK
<1>7. \A q \in Cells : InTurn(q)' <=> InTurn(q)
  BY <1>1 DEF InTurn, IInv, TypeOK, CallType
<1>8. call'.stage = "run" /\ call'.at = r /\ call'.pos = call.pos + 1
  BY <1>1 DEF IInv, TypeOK, CallType
<1> HIDE DEF r, o, k
<1>9. OwnerInv' /\ HandleInv'
  BY <1>1 DEF IInv, OwnerInv, HandleInv, Underway
<1>10. CallInv'
  BY <1>1, <1>7, <1>8 DEF IInv, CallInv
<1>11. ListInv'
  BY <1>1 DEF IInv, ListInv, Underway
<1>12. RunInv'
  <2>1. ASSUME NEW p \in Ops, NEW l \in Kinds PROVE
          /\ runs'[p][l] \in {0, 1}
          /\ opState'[p] # "freed" => runs'[p][l] = 0
          /\ runs'[p][l] = 1 => l = "user" \/ l \in RegSet(p)
          /\ opState'[p] = "freed" /\ l \in RegSet(p) /\ runs'[p][l] = 0 =>
               \E q \in Cells : repr'[q] = p /\ InTurn(q)' /\ Has(callbacks'[q], l)
    <3>1. CASE p = o /\ l = k
      <4>1. k = "user" \/ k \in RegSet(o)
        BY <1>2, <1>3, <1>4 DEF IInv, ListInv, r, o
      <4>2. QED
        BY <1>1, <1>3, <1>6, <3>1, <4>1
    <3>2. CASE ~(p = o /\ l = k)
      <4>1. runs'[p][l] = runs[p][l]
        BY <1>6, <3>2
      <4>2. QED
        BY <1>1, <1>7, <4>1 DEF IInv, RunInv
    <3>3. QED
      BY <3>1, <3>2
  <2>2. ASSUME NEW q \in Cells, repr'[q] \in Ops, NEW i \in 1 .. Len(callbacks'[q])
        PROVE  runs'[repr'[q]][callbacks'[q][i]] = IF Ran(q, i)' THEN 1 ELSE 0
    <3>1. /\ repr[q] \in Ops /\ i \in 1 .. Len(callbacks[q]) /\ callbacks[q][i] \in Kinds
          /\ runs[repr[q]][callbacks[q][i]] = IF Ran(q, i) THEN 1 ELSE 0
      BY <1>1, <2>2 DEF IInv, RunInv, TypeOK
    <3>2. CASE q # r
      <4>1. repr[q] # o
        BY <1>2, <1>3, <3>1, <3>2 DEF IInv, OwnerInv, r, o
      <4>2. ~Ran(q, i) /\ ~Ran(q, i)'
        BY <1>8, <3>2 DEF Ran, r
      <4>3. QED
        BY <1>1, <1>6, <3>1, <4>1, <4>2
    <3>3. CASE q = r /\ i = call.pos
      <4>1. Ran(q, i)'
        BY <1>2, <1>8, <3>3 DEF Ran
      <4>2. runs'[o][k] = 1
        BY <1>3, <1>4, <1>6
      <4>3. repr'[q] = o /\ callbacks'[q][i] = k
        BY <1>1, <1>4, <3>3 DEF o, r
      <4>4. QED
        BY <4>1, <4>2, <4>3
    <3>4. CASE q = r /\ i # call.pos
      <4>1. Ran(q, i)' <=> Ran(q, i)
        BY <1>1, <1>2, <1>8, <3>1, <3>4 DEF Ran, r
      <4>2. callbacks[q][i] # k
        <5>1. Rank[callbacks[q][i]] # Rank[k]
          BY <1>2, <1>4, <3>1, <3>4, SMTT(20) DEF IInv, ListInv, Increasing, Rank, Kinds
        <5>2. QED
          BY <5>1
      <4>3. QED
        BY <1>1, <1>6, <3>1, <4>1, <4>2
    <3>5. QED
      BY <3>2, <3>3, <3>4
  <2>3. QED
    BY <2>1, <2>2 DEF RunInv
<1>13. ScopeInv'
  BY <1>1, <1>7 DEF IInv, ScopeInv
<1>14. QED
  BY <1>9, <1>10, <1>11, <1>12, <1>13 DEF Rest

(* The end of a list: everything on it has run.                            *)
LEMMA ClearCallbacksInv == ASSUME IInv, ClearCallbacks PROVE Rest'
<1> DEFINE r == call.at
<1>1. /\ call.stage = "run" /\ call.pos = Len(callbacks[r]) + 1
      /\ callbacks' = [callbacks EXCEPT ![r] = <<>>]
      /\ call' = IF r < call.hi THEN [call EXCEPT !.at = r + 1, !.pos = 1] ELSE Idle
      /\ cell' = cell /\ handle' = handle /\ repr' = repr /\ opState' = opState
      /\ bound' = bound /\ scope' = scope /\ runs' = runs /\ misuse' = misuse
  BY DEF ClearCallbacks, mpi
<1>2. r \in Cells /\ r \in Nat /\ call.hi \in Nat /\ InTurn(r)
  BY <1>1 DEF IInv, TypeOK, CursorOK, CallType, InTurn
<1>3. repr[r] \in Ops /\ opState[repr[r]] = "freed"
  BY <1>2 DEF IInv, CallInv
<1>4. /\ callbacks'[r] = <<>>
      /\ \A q \in Cells : q # r => callbacks'[q] = callbacks[q]
  BY <1>1, <1>2 DEF IInv, TypeOK
<1>5. \A q \in Cells : InTurn(q)' <=> InTurn(q) /\ q # r
  <2>1. CASE r < call.hi
    <3>1. call'.stage = "run" /\ call'.at = r + 1 /\ call'.hi = call.hi
      BY <1>1, <2>1 DEF IInv, TypeOK, CallType
    <3>2. QED
      BY <1>1, <1>2, <3>1 DEF InTurn, Cells
  <2>2. CASE ~(r < call.hi)
    BY <1>1, <1>2, <2>2 DEF InTurn, Idle, Cells
  <2>3. QED
    BY <2>1, <2>2
<1>6. call'.pos = 1 /\ call'.stage \in {"run", "idle"}
  BY <1>1 DEF IInv, TypeOK, CallType, Idle
<1>7. ASSUME NEW i \in 1 .. Len(callbacks[r]) PROVE runs[repr[r]][callbacks[r][i]] = 1
  <2>1. Ran(r, i)
    BY <1>1, <1>2 DEF Ran
  <2>2. QED
    BY <1>2, <1>3, <2>1 DEF IInv, RunInv
<1> HIDE DEF r
<1>8. OwnerInv' /\ HandleInv'
  BY <1>1 DEF IInv, OwnerInv, HandleInv, Underway
<1>9. CallInv'
  BY <1>1, <1>5, <1>6 DEF IInv, CallInv
<1>10. ListInv'
  <2>1. ASSUME NEW q \in Cells
        PROVE /\ Increasing(callbacks'[q])
              /\ repr'[q] \notin Ops => callbacks'[q] = <<>>
              /\ repr'[q] \in Ops =>
                   /\ \A i \in 1 .. Len(callbacks'[q]) :
                        callbacks'[q][i] = "user" \/ callbacks'[q][i] \in RegSet(repr'[q])
                   /\ Underway(repr[q])' =>
                        \A k \in RegSet(repr'[q]) : Has(callbacks'[q], k)
    <3>1. CASE q = r
      BY <1>1, <1>3, <1>4, <3>1 DEF Increasing, Underway
    <3>2. CASE q # r
      BY <1>1, <1>4, <3>2 DEF IInv, ListInv, Underway
    <3>3. QED
      BY <3>1, <3>2
  <2>2. QED
    BY <2>1 DEF ListInv
<1>11. RunInv'
  <2>1. ASSUME NEW p \in Ops, NEW k \in Kinds, opState'[p] = "freed", k \in RegSet(p),
               runs'[p][k] = 0
        PROVE  \E q \in Cells : repr'[q] = p /\ InTurn(q)' /\ Has(callbacks'[q], k)
    <3>1. PICK q \in Cells : repr[q] = p /\ InTurn(q) /\ Has(callbacks[q], k)
      BY <1>1, <2>1 DEF IInv, RunInv
    <3>2. q # r
      BY <1>1, <1>7, <2>1, <3>1 DEF Has
    <3>3. QED
      BY <1>1, <1>4, <1>5, <3>1, <3>2
  <2>2. ASSUME NEW q \in Cells, repr'[q] \in Ops, NEW i \in 1 .. Len(callbacks'[q])
        PROVE  runs'[repr'[q]][callbacks'[q][i]] = 0 /\ ~Ran(q, i)'
    <3>1. q # r
      BY <1>4, <2>2
    <3>2. ~Ran(q, i)
      BY <3>1 DEF Ran, r
    <3>3. ~Ran(q, i)'
      BY <1>6, <2>2 DEF Ran
    <3>4. callbacks'[q] = callbacks[q]
      BY <1>4, <3>1
    <3>5. QED
      BY <1>1, <2>2, <3>2, <3>3, <3>4 DEF IInv, RunInv
  <2>3. QED
    BY <1>1, <2>1, <2>2 DEF IInv, RunInv
<1>12. ScopeInv'
  BY <1>1, <1>4, <1>5 DEF IInv, ScopeInv
<1>13. QED
  BY <1>8, <1>9, <1>10, <1>11, <1>12 DEF Rest

-----------------------------------------------------------------------------
(* Under documented use an object is lost only when its operation is over. *)
LEMMA LosableIsOver ==
  ASSUME IInv, Beyond = {}, NEW d \in Cells, MayLose(d) \/ cell[d] = "none", repr[d] \in Ops
  PROVE  opState[repr[d]] = "freed"
BY DEF MayLose, IInv, OwnerInv, HandleInv

LEMMA MoveInv ==
  ASSUME IInv, Beyond = {}, NEW s \in Cells, NEW d \in Cells, s # d,
         Free, cell[s] = "owner", MayLose(d) \/ cell[d] = "none", Move(s, d)
  PROVE  Rest'
<1>1. /\ call.stage = "idle"
      /\ opState' = opState /\ bound' = bound /\ scope' = scope /\ call' = call
      /\ runs' = runs /\ misuse' = misuse
  BY DEF Move, Free, mpi
<1>2. /\ cell'[d] = "owner" /\ handle'[d] = handle[s] /\ callbacks'[d] = callbacks[s]
      /\ repr'[d] = repr[s]
      /\ cell'[s] = "moved" /\ callbacks'[s] = <<>> /\ repr'[s] = NoOp
      /\ \A q \in Cells \ {s, d} : /\ cell'[q] = cell[q] /\ handle'[q] = handle[q]
                                   /\ callbacks'[q] = callbacks[q] /\ repr'[q] = repr[q]
  BY DEF Move, IInv, TypeOK
<1>3. repr[s] \in Ops /\ NoOp \notin Ops
  BY MpiRequestAssumption DEF IInv, OwnerInv
<1>4. repr[d] \in Ops => opState[repr[d]] = "freed"
  BY LosableIsOver
<1>5. OwnerInv'
  <2>1. ASSUME NEW q \in Cells PROVE cell'[q] \in {"owner", "stale"} <=> repr'[q] \in Ops
    BY <1>2, <1>3 DEF IInv, OwnerInv
  <2>2. ASSUME NEW p \in Cells, NEW q \in Cells, repr'[p] \in Ops, repr'[p] = repr'[q]
        PROVE  p = q
    BY <1>2, <1>3, <2>2 DEF IInv, OwnerInv
  <2>3. ASSUME NEW o \in Ops, Underway(o)'
        PROVE  \E q \in Cells : repr'[q] = o /\ cell'[q] = "owner"
    <3>1. PICK q \in Cells : repr[q] = o /\ cell[q] = "owner"
      BY <1>1, <2>3 DEF IInv, OwnerInv, Underway
    <3>2. q # d
      BY <1>1, <1>4, <2>3, <3>1 DEF Underway
    <3>3. QED
      BY <1>2, <3>1, <3>2
  <2>4. QED
    BY <2>1, <2>2, <2>3 DEF OwnerInv
<1>6. HandleInv'
  <2>1. ASSUME NEW q \in Cells, cell'[q] = "owner" PROVE
          IF handle'[q] = Null THEN opState'[repr'[q]] = "freed"
          ELSE bound'[handle'[q]] = repr'[q] /\ Underway(repr[q])'
    <3>1. CASE q = d
      BY <1>1, <1>2, <3>1 DEF IInv, HandleInv, Underway
    <3>2. CASE q # d
      <4>1. q \in Cells \ {s, d}
        BY <1>2, <2>1, <3>2
      <4>2. QED
        BY <1>1, <1>2, <2>1, <4>1 DEF IInv, HandleInv, Underway
    <3>3. QED
      BY <3>1, <3>2
  <2>2. ASSUME NEW q \in Cells, cell'[q] = "stale" PROVE opState'[repr'[q]] = "freed"
    <3>1. q \in Cells \ {s, d}
      BY <1>2, <2>2
    <3>2. QED
      BY <1>1, <1>2, <2>2, <3>1 DEF IInv, HandleInv
  <2>3. QED
    BY <1>1, <2>1, <2>2 DEF IInv, HandleInv, Underway
<1>7. CallInv' /\ ScopeInv'
  BY <1>1 DEF IInv, CallInv, ScopeInv, InTurn
<1>8. ListInv'
  <2>1. ASSUME NEW q \in Cells
        PROVE /\ Increasing(callbacks'[q])
              /\ repr'[q] \notin Ops => callbacks'[q] = <<>>
              /\ repr'[q] \in Ops =>
                   /\ \A i \in 1 .. Len(callbacks'[q]) :
                        callbacks'[q][i] = "user" \/ callbacks'[q][i] \in RegSet(repr'[q])
                   /\ Underway(repr[q])' =>
                        \A k \in RegSet(repr'[q]) : Has(callbacks'[q], k)
    <3>1. CASE q = s
      BY <1>2, <1>3, <3>1 DEF Increasing
    <3>2. CASE q = d
      BY <1>1, <1>2, <1>3, <3>2 DEF IInv, ListInv, Underway
    <3>3. CASE q \in Cells \ {s, d}
      BY <1>1, <1>2, <3>3 DEF IInv, ListInv, Underway
    <3>4. QED
      BY <3>1, <3>2, <3>3
  <2>2. QED
    BY <2>1 DEF ListInv
<1>9. RunInv'
  <2>1. ASSUME NEW q \in Cells, repr'[q] \in Ops, NEW i \in 1 .. Len(callbacks'[q])
        PROVE  runs'[repr'[q]][callbacks'[q][i]] = 0 /\ ~Ran(q, i)'
    <3>1. CASE q = d
      BY <1>1, <1>2, <1>3, <2>1, <3>1 DEF IInv, RunInv, Ran
    <3>2. CASE q \in Cells \ {s, d}
      BY <1>1, <1>2, <2>1, <3>2 DEF IInv, RunInv, Ran
    <3>3. QED
      BY <1>2, <1>3, <2>1, <3>1, <3>2
  <2>2. \A p \in Ops, k \in Kinds :
          ~(opState[p] = "freed" /\ k \in RegSet(p) /\ runs[p][k] = 0)
    BY <1>1 DEF IInv, RunInv, InTurn
  <2>3. QED
    BY <1>1, <2>1, <2>2 DEF IInv, RunInv
<1>10. QED
  BY <1>5, <1>6, <1>7, <1>8, <1>9 DEF Rest

LEMMA DestroyInv ==
  ASSUME IInv, Beyond = {}, NEW r \in Cells, Destroy(r)
  PROVE  Rest'
<1>1. /\ call.stage = "idle" /\ MayLose(r)
      /\ opState' = opState /\ bound' = bound /\ scope' = scope /\ call' = call
      /\ runs' = runs /\ misuse' = misuse
  BY DEF Destroy, Free, mpi
<1>2. /\ cell'[r] = "none" /\ callbacks'[r] = <<>> /\ repr'[r] = NoOp
      /\ \A q \in Cells \ {r} : /\ cell'[q] = cell[q] /\ handle'[q] = handle[q]
                                /\ callbacks'[q] = callbacks[q] /\ repr'[q] = repr[q]
  BY DEF Destroy, IInv, TypeOK
<1>3. NoOp \notin Ops
  BY MpiRequestAssumption
<1>4. repr[r] \in Ops => opState[repr[r]] = "freed"
  BY <1>1, LosableIsOver
<1>5. OwnerInv'
  <2>1. ASSUME NEW q \in Cells PROVE cell'[q] \in {"owner", "stale"} <=> repr'[q] \in Ops
    BY <1>2, <1>3 DEF IInv, OwnerInv
  <2>2. ASSUME NEW p \in Cells, NEW q \in Cells, repr'[p] \in Ops, repr'[p] = repr'[q]
        PROVE  p = q
    BY <1>2, <1>3, <2>2 DEF IInv, OwnerInv
  <2>3. ASSUME NEW o \in Ops, Underway(o)'
        PROVE  \E q \in Cells : repr'[q] = o /\ cell'[q] = "owner"
    <3>1. PICK q \in Cells : repr[q] = o /\ cell[q] = "owner"
      BY <1>1, <2>3 DEF IInv, OwnerInv, Underway
    <3>2. q # r
      BY <1>1, <1>4, <2>3, <3>1 DEF Underway
    <3>3. QED
      BY <1>2, <3>1, <3>2
  <2>4. QED
    BY <2>1, <2>2, <2>3 DEF OwnerInv
<1>6. HandleInv'
  <2>1. ASSUME NEW q \in Cells, cell'[q] \in {"owner", "stale"} PROVE q \in Cells \ {r}
    BY <1>2, <2>1
  <2>2. QED
    BY <1>1, <1>2, <2>1 DEF IInv, HandleInv, Underway
<1>7. CallInv' /\ ScopeInv'
  BY <1>1 DEF IInv, CallInv, ScopeInv, InTurn
<1>8. ListInv'
  <2>1. ASSUME NEW q \in Cells
        PROVE /\ Increasing(callbacks'[q])
              /\ repr'[q] \notin Ops => callbacks'[q] = <<>>
              /\ repr'[q] \in Ops =>
                   /\ \A i \in 1 .. Len(callbacks'[q]) :
                        callbacks'[q][i] = "user" \/ callbacks'[q][i] \in RegSet(repr'[q])
                   /\ Underway(repr[q])' =>
                        \A k \in RegSet(repr'[q]) : Has(callbacks'[q], k)
    <3>1. CASE q = r
      BY <1>2, <1>3, <3>1 DEF Increasing
    <3>2. CASE q \in Cells \ {r}
      BY <1>1, <1>2, <3>2 DEF IInv, ListInv, Underway
    <3>3. QED
      BY <3>1, <3>2
  <2>2. QED
    BY <2>1 DEF ListInv
<1>9. RunInv'
  <2>1. ASSUME NEW q \in Cells, repr'[q] \in Ops, NEW i \in 1 .. Len(callbacks'[q])
        PROVE  runs'[repr'[q]][callbacks'[q][i]] = 0 /\ ~Ran(q, i)'
    <3>1. q \in Cells \ {r}
      BY <1>2, <1>3, <2>1
    <3>2. QED
      BY <1>1, <1>2, <2>1, <3>1 DEF IInv, RunInv, Ran
  <2>2. \A p \in Ops, k \in Kinds :
          ~(opState[p] = "freed" /\ k \in RegSet(p) /\ runs[p][k] = 0)
    BY <1>1 DEF IInv, RunInv, InTurn
  <2>3. QED
    BY <1>1, <2>1, <2>2 DEF IInv, RunInv
<1>10. QED
  BY <1>5, <1>6, <1>7, <1>8, <1>9 DEF Rest

LEMMA StutterInv == ASSUME IInv, UNCHANGED vars PROVE Rest'
<1>1. OwnerInv' /\ HandleInv'
  BY DEF IInv, OwnerInv, HandleInv, Underway, vars, objects, mpi
<1>2. CallInv' /\ ScopeInv'
  BY DEF IInv, CallInv, ScopeInv, InTurn, vars, objects, mpi
<1>3. ListInv'
  BY DEF IInv, ListInv, Underway, vars, objects, mpi
<1>4. RunInv'
  BY DEF IInv, RunInv, InTurn, Ran, vars, objects, mpi
<1>5. QED
  BY <1>1, <1>2, <1>3, <1>4 DEF Rest

-----------------------------------------------------------------------------
(* Every step preserves the invariant.                                     *)
LEMMA StepInv == ASSUME IInv, Beyond = {}, [Next]_vars PROVE IInv'
<1>1. TypeOK'
  BY TypeStep DEF IInv
<1>2. SUFFICES Rest'
  BY <1>1 DEF IInv, Rest
<1>3. CASE Program
  <2>1. ASSUME NEW lo \in Cells, NEW hi \in Cells, WaitAllCall(lo, hi) \/ WaitAnyCall(lo, hi)
        PROVE  Rest'
    BY <2>1, EnterInv DEF WaitAllCall, WaitAnyCall
  <2>2. ASSUME NEW r \in Cells, WaitCall(r) PROVE Rest'
    BY <2>2, EnterInv DEF WaitCall
  <2>3. ASSUME NEW r \in Cells, Test(r) PROVE Rest'
    <3>1. cell[r] = "owner" /\ call.stage = "idle"
      BY <2>3 DEF Test, MayUse, Free
    <3>2. ~Dangling(handle[r])
      BY <3>1, MpiRequestAssumption DEF Dangling, IInv, HandleInv, OwnerInv, TypeOK
    <3>3. QED
      BY <2>3, <3>1, <3>2, CompleteOwnInv DEF Test
  <2>4. ASSUME NEW s \in Cells, NEW d \in Cells, MoveConstruct(s, d) \/ MoveAssign(s, d)
        PROVE  Rest'
    BY <2>4, MoveInv DEF MoveConstruct, MoveAssign
  <2>5. QED
    BY <1>3, <2>1, <2>2, <2>3, <2>4, PostInv, AddCallbackInv, DestroyInv, DropViewInv
    DEF Program
<1>4. call.stage = "mpi" =>
        /\ call.lo \in Cells /\ call.hi \in Cells /\ call.lo <= call.hi
        /\ \A r \in call.lo .. call.hi : r \in Cells /\ cell[r] = "owner"
  <2> SUFFICES ASSUME call.stage = "mpi"
               PROVE  /\ call.lo \in Cells /\ call.hi \in Cells /\ call.lo <= call.hi
                      /\ \A r \in call.lo .. call.hi : r \in Cells /\ cell[r] = "owner"
    OBVIOUS
  <2>1. /\ call.lo \in Cells /\ call.hi \in Cells /\ call.at \in Cells
        /\ call.lo <= call.at /\ call.at <= call.hi
    BY DEF IInv, TypeOK, CursorOK
  <2>2. N \in Nat /\ call.lo \in 1 .. N /\ call.hi \in 1 .. N /\ call.at \in 1 .. N
    BY <2>1, MpiRequestAssumption DEF Cells
  <2>3. call.lo <= call.hi /\ \A r \in call.lo .. call.hi : r \in 1 .. N
    BY <2>1, <2>2
  <2>4. QED
    BY <2>1, <2>3 DEF IInv, CallInv, Cells
<1>5. CASE WaitReturn
  <2>1. call.lo \in call.lo .. call.hi
    BY <1>4, <1>5 DEF WaitReturn, Cells
  <2>2. cell[call.lo] = "owner" /\ call.lo \in Cells /\ call.stage # "run"
    BY <1>4, <1>5, <2>1 DEF WaitReturn
  <2>3. CompleteOwn("wait", call.lo)
    BY <1>5 DEF WaitReturn
  <2>4. QED
    BY <2>2, <2>3, CompleteOwnInv
<1>6. CASE WaitAllReturn
  <2> DEFINE S == {r \in call.lo .. call.hi : handle[r] # Null}
  <2>1. CompleteCopies(S, "all", call.lo, call.hi) /\ \A r \in S : Done(handle[r])
    BY <1>6 DEF WaitAllReturn
  <2>2. /\ call.lo \in Cells /\ call.hi \in Cells /\ call.lo <= call.hi /\ call.stage # "run"
        /\ S \in SUBSET Cells /\ S \subseteq call.lo .. call.hi
        /\ \A r \in S : cell[r] = "owner" /\ handle[r] # Null /\ Done(handle[r])
    BY <1>4, <1>6, <2>1 DEF WaitAllReturn
  <2>3. \A r \in call.lo .. call.hi : cell[r] = "owner" /\ (handle[r] # Null => r \in S)
    BY <1>4, <1>6 DEF WaitAllReturn
  <2> HIDE DEF S
  <2>4. QED
    BY <2>1, <2>2, <2>3, CompleteCopiesInv
<1>7. CASE WaitAnyReturn
  <2>1. PICK r \in call.lo .. call.hi : /\ handle[r] # Null /\ Done(handle[r])
                                        /\ CompleteCopies({r}, "any", r, r)
    BY <1>7 DEF WaitAnyReturn
  <2>2. r \in Cells /\ cell[r] = "owner" /\ call.stage # "run"
    BY <1>4, <1>7 DEF WaitAnyReturn
  <2>3. r .. r = {r}
    BY <2>2 DEF Cells
  <2>4. QED
    BY <2>1, <2>2, <2>3, CompleteCopiesInv
<1>8. ~CallbackThrows
  BY DEF CallbackThrows
<1>9. CASE Inside
  BY <1>5, <1>6, <1>7, <1>8, <1>9, WaitAnyNoneInv, RunCallbackInv, ClearCallbacksInv DEF Inside
<1>10. CASE \E o \in Ops : MpiComplete(o)
  BY <1>10, MpiCompleteInv
<1>11. QED
  BY <1>3, <1>9, <1>10, StutterInv DEF Next

LEMMA Invariance == ASSUME Beyond = {} PROVE Spec => []IInv
  BY InitInv, StepInv, PTL DEF Spec

-----------------------------------------------------------------------------
(* A buffer that MPI still reads or writes is allocated, whatever views the *)
(* program has dropped and wherever the Request has been moved.            *)
LEMMA BuffersLemma == ASSUME IInv PROVE BuffersOutliveOperation
<1> SUFFICES ASSUME NEW o \in Ops, opState[o] = "active", NEW v \in MpiUses(o)
             PROVE  <<o, v>> \in Allocated
  BY DEF BuffersOutliveOperation
<1>1. PICK r \in Cells : repr[r] = o
  BY DEF IInv, OwnerInv, Underway
<1>2. \A k \in RegSet(o) : Has(callbacks[r], k)
  BY <1>1 DEF IInv, ListInv, Underway
<1>3. ASSUME NEW k \in RegSet(o), v \in Captures(o, k) PROVE <<o, v>> \in Allocated
  <2>1. PICK i \in 1 .. Len(callbacks[r]) : callbacks[r][i] = k
    BY <1>2 DEF Has
  <2>2. i \in DOMAIN callbacks[r]
    BY <2>1 DEF IInv, TypeOK
  <2>3. v \in Bufs
    BY DEF MpiUses, Bufs
  <2>4. QED
    BY <1>1, <1>3, <2>1, <2>2, <2>3 DEF Allocated
<1>4. CASE v = "psv"
  <2>1. "keep_psv" \in RegSet(o) /\ v \in Captures(o, "keep_psv")
    BY <1>4, RegisteredFacts DEF MpiUses, Kinds, Captures
  <2>2. QED
    BY <1>3, <2>1
<1>5. CASE v = "prv"
  <2>1. "unpack" \in RegSet(o) /\ v \in Captures(o, "unpack")
    BY <1>5, RegisteredFacts DEF MpiUses, Kinds, Captures
  <2>2. QED
    BY <1>3, <2>1
<1>6. CASE v \in {"sv", "rv"} /\ ~Call[o].managed
  <2>1. v \in Views(o)
    BY <1>6 DEF MpiUses
  <2>2. QED
    BY <1>6, <2>1 DEF IInv, ScopeInv, Allocated
<1>7. CASE v = "sv" /\ Call[o].managed
  <2>1. "keep_sv" \in RegSet(o) /\ v \in Captures(o, "keep_sv")
    BY <1>7, RegisteredFacts DEF MpiUses, Kinds, Captures
  <2>2. QED
    BY <1>3, <2>1
<1>8. CASE v = "rv" /\ Call[o].managed
  <2>1. "keep_rv" \in RegSet(o) /\ v \in Captures(o, "keep_rv")
    BY <1>8, RegisteredFacts DEF MpiUses, Kinds, Captures
  <2>2. QED
    BY <1>3, <2>1
<1>9. QED
  BY <1>4, <1>5, <1>6, <1>7, <1>8 DEF MpiUses

(* While MPI reads or writes a buffer its memory is allocated.             *)
THEOREM BuffersSafe == ASSUME Beyond = {} PROVE Spec => []BuffersOutliveOperation
  BY Invariance, BuffersLemma, PTL

(* MPI is never given a handle that it has freed.                          *)
THEOREM HandlesSafe == ASSUME Beyond = {} PROVE Spec => []NoFreedHandle
<1>1. IInv => NoFreedHandle
  BY DEF IInv, HandleInv, NoFreedHandle
<1>2. QED
  BY <1>1, Invariance, PTL

(* Back from a completion call, a finished operation is fully delivered:   *)
(* its callbacks have run exactly once.                                    *)
LEMMA DeliveredLemma == ASSUME IInv PROVE FinishedMeansDelivered
<1> SUFFICES ASSUME call.stage = "idle", NEW o \in Ops, opState[o] = "freed", NEW k \in Kinds
             PROVE  runs[o][k] = IF \E i \in DOMAIN Registered(o) : Registered(o)[i] = k THEN 1
                                 ELSE IF k = "user" THEN runs[o][k] ELSE 0
  BY DEF FinishedMeansDelivered, Delivered
<1>1. (\E i \in DOMAIN Registered(o) : Registered(o)[i] = k) <=> k \in RegSet(o)
  <2>1. DOMAIN Registered(o) = 1 .. Len(Registered(o))
    BY RegisteredFacts
  <2>2. QED
    BY <2>1 DEF RegSet, Has
<1>2. k \in RegSet(o) => runs[o][k] = 1
  BY DEF IInv, RunInv, InTurn
<1>3. k \notin RegSet(o) /\ k # "user" => runs[o][k] = 0
  BY DEF IInv, RunInv
<1>4. QED
  BY <1>1, <1>2, <1>3

THEOREM DeliveryCorrect == ASSUME Beyond = {} PROVE Spec => []FinishedMeansDelivered
  BY Invariance, DeliveredLemma, PTL

(* No callback runs twice, as docs/api/core.rst has it.                    *)
THEOREM CallbacksRunOnce == ASSUME Beyond = {} PROVE Spec => []CallbackOnce
<1>1. IInv => CallbackOnce
  BY DEF IInv, RunInv, CallbackOnce
<1>2. QED
  BY <1>1, Invariance, PTL

-----------------------------------------------------------------------------
(***************************************************************************)
(* The Request objects, handles and callback lists implement               *)
(* RequestContract, and the program's callback runs after the unpacking.   *)
(***************************************************************************)

(* What the contract sees of the callbacks that have run.                  *)
RunSets == [o \in Ops |-> {k \in Kinds : runs[o][k] > 0}]

(* No memory appears, and no operation or callback moves on.               *)
OnlyReleases == Phase' = Phase /\ RunSets' = RunSets /\ Allocated' \subseteq Allocated

-----------------------------------------------------------------------------
LEMMA AllocatedShrinks ==
  ASSUME TypeOK, TypeOK', scope' \subseteq scope,
         \A r \in Cells : \/ callbacks'[r] = <<>>
                          \/ \E s \in Cells : repr'[r] = repr[s] /\ callbacks'[r] = callbacks[s]
  PROVE  Allocated' \subseteq Allocated
<1> SUFFICES ASSUME NEW b \in Ops \X Bufs, b \in Allocated', b \notin scope'
             PROVE  b \in Allocated
  BY DEF Allocated, TypeOK
<1>1. PICK r \in Cells : /\ repr'[r] = b[1]
                         /\ \E i \in DOMAIN callbacks'[r] : b[2] \in Captures(b[1], callbacks'[r][i])
  BY DEF Allocated
<1>2. callbacks'[r] # <<>>
  BY <1>1
<1>3. PICK s \in Cells : repr'[r] = repr[s] /\ callbacks'[r] = callbacks[s]
  BY <1>2
<1>4. QED
  BY <1>1, <1>3 DEF Allocated

(* A step that only releases is one of the contract, because what pending  *)
(* operations use is allocated afterwards too.                             *)
LEMMA ReleaseStep == ASSUME IInv', OnlyReleases PROVE Contract!Release
<1>1. BuffersOutliveOperation'
  BY BuffersLemma, PTL
<1>2. ASSUME NEW o \in Ops, Phase[o] = "pending"
      PROVE  {o} \X MpiUses(o) \subseteq Allocated'
  <2>1. opState'[o] = "active"
    BY <1>2 DEF OnlyReleases, Phase
  <2>2. QED
    BY <1>1, <2>1 DEF BuffersOutliveOperation
<1>3. QED
  BY <1>2 DEF OnlyReleases, RunSets, Contract!Release
-----------------------------------------------------------------------------
(* One lemma for each kind of step.                                        *)

(* Completion frees handles of complete operations only.                   *)
LEMMA FreeKeepsPhase ==
  ASSUME IInv, NEW S \in SUBSET Cells, \A r \in S : handle[r] # Null /\ Done(handle[r]),
         NEW H, H = {handle[r] : r \in S}, MpiFree(H)
  PROVE  Phase' = Phase
<1>1. ASSUME NEW o \in Ops, NEW h \in H, bound[h] = o PROVE opState[o] = "complete"
  BY <1>1, MpiRequestAssumption DEF Done
<1>2. \A o \in Ops : opState'[o] = opState[o] \/ (opState[o] = "complete" /\ opState'[o] = "freed")
  BY <1>1 DEF MpiFree
<1>3. QED
  BY <1>2 DEF Phase

LEMMA PostStep ==
  ASSUME IInv, IInv', NEW o \in Ops, NEW r \in Cells, Post(o, r)
  PROVE  Contract!Post(o)
<1>1. /\ opState[o] = "idle" /\ cell[r] = "none"
      /\ opState' = [opState EXCEPT ![o] = "active"]
      /\ callbacks' = [callbacks EXCEPT ![r] = Registered(o)]
      /\ repr' = [repr EXCEPT ![r] = o]
      /\ scope' = scope /\ runs' = runs
  BY DEF Post
<1>2. Phase[o] = "idle" /\ Phase' = [Phase EXCEPT ![o] = "pending"]
  BY <1>1 DEF Phase, IInv, TypeOK
<1>3. Allocated \subseteq Allocated'
  <2> SUFFICES ASSUME NEW b \in Ops \X Bufs, b \in Allocated, b \notin scope
               PROVE  b \in Allocated'
    BY <1>1 DEF Allocated, IInv, TypeOK
  <2>1. PICK q \in Cells : /\ repr[q] = b[1]
                           /\ \E i \in DOMAIN callbacks[q] : b[2] \in Captures(b[1], callbacks[q][i])
    BY DEF Allocated
  <2>2. q # r
    BY <1>1, <2>1 DEF IInv, OwnerInv
  <2>3. repr'[q] = repr[q] /\ callbacks'[q] = callbacks[q]
    BY <1>1, <2>2 DEF IInv, TypeOK
  <2>4. QED
    BY <2>1, <2>3 DEF Allocated
<1>4. BuffersOutliveOperation'
  BY BuffersLemma, PTL
<1>5. {o} \X MpiUses(o) \subseteq Allocated'
  BY <1>1, <1>4 DEF BuffersOutliveOperation, IInv, TypeOK
<1>6. RunSets' = RunSets
  BY <1>1 DEF RunSets
<1>7. QED
  BY <1>2, <1>3, <1>5, <1>6 DEF RunSets, Contract!Post

LEMMA FinishStep ==
  ASSUME IInv, NEW o \in Ops, MpiComplete(o)
  PROVE  Contract!Finish(o)
<1>1. Phase[o] = "pending" /\ Phase' = [Phase EXCEPT ![o] = "over"]
  BY DEF MpiComplete, Phase, IInv, TypeOK
<1>2. Allocated' = Allocated /\ RunSets' = RunSets
  BY DEF MpiComplete, objects, Allocated, RunSets
<1>3. QED
  BY <1>1, <1>2 DEF RunSets, Contract!Finish

LEMMA RunStep ==
  ASSUME IInv, RunCallback
  PROVE  \E o \in Ops, k \in Kinds : Contract!Run(o, k)
<1> DEFINE r == call.at
           o == repr[r]
           k == Current
<1>1. /\ call.stage = "run" /\ call.pos <= Len(callbacks[r])
      /\ runs' = [runs EXCEPT ![o][k] = @ + 1]
      /\ callbacks' = callbacks /\ repr' = repr /\ scope' = scope /\ opState' = opState
  BY DEF RunCallback, objects, mpi
<1>2. /\ r \in Cells /\ call.pos \in 1 .. Len(callbacks[r]) /\ k = callbacks[r][call.pos]
      /\ k \in Kinds /\ InTurn(r)
  BY <1>1, MpiRequestAssumption
  DEF IInv, TypeOK, CursorOK, CallType, Current, InTurn, Cells
<1>3. o \in Ops /\ opState[o] = "freed" /\ repr[r] = o
  BY <1>2 DEF IInv, CallInv
<1> HIDE DEF r, o, k
<1>4. runs[o][k] = 0
  <2>1. ~Ran(r, call.pos)
    BY <1>2 DEF Ran, IInv, TypeOK, CallType
  <2>2. QED
    BY <1>2, <1>3, <2>1 DEF IInv, RunInv
<1>5. Phase' = Phase /\ Allocated' = Allocated /\ Phase[o] = "over"
  BY <1>1, <1>3 DEF Phase, Allocated
<1>6. RunSets' = [RunSets EXCEPT ![o] = @ \union {k}] /\ k \notin RunSets[o]
  <2>1. ASSUME NEW p \in Ops, NEW j \in Kinds
        PROVE  runs'[p][j] = IF p = o /\ j = k THEN 1 ELSE runs[p][j]
    BY <1>1, <1>2, <1>3, <1>4 DEF IInv, TypeOK
  <2>2. ASSUME NEW p \in Ops
        PROVE  {j \in Kinds : runs'[p][j] > 0} =
                 IF p = o THEN {j \in Kinds : runs[p][j] > 0} \union {k}
                 ELSE {j \in Kinds : runs[p][j] > 0}
    BY <1>2, <2>1
  <2>3. \A p \in Ops : RunSets'[p] = IF p = o THEN RunSets[p] \union {k} ELSE RunSets[p]
    BY <2>2 DEF RunSets
  <2>4. RunSets = [p \in Ops |-> RunSets[p]] /\ RunSets' = [p \in Ops |-> RunSets'[p]]
    BY DEF RunSets
  <2>5. k \notin RunSets[o]
    BY <1>3, <1>4 DEF RunSets
  <2>6. QED
    BY <1>3, <2>3, <2>4, <2>5
<1>7. {o} \X TouchedBy(o, k) \subseteq Allocated
  <2>1. CASE k # "unpack"
    BY <2>1 DEF TouchedBy
  <2>2. CASE k = "unpack"
    <3>1. "unpack" \in RegSet(o)
      <4>1. k = "user" \/ k \in RegSet(o)
        BY <1>2, <1>3 DEF IInv, ListInv
      <4>2. QED
        BY <2>2, <4>1
    <3>2. PacksRecv(o) /\ "rv" \in Views(o)
      BY <1>3, <3>1, RegisteredFacts DEF Kinds, PacksRecv, Views
    <3>3. ASSUME NEW v \in Bufs, v \in Captures(o, k) PROVE <<o, v>> \in Allocated
      <4>1. call.pos \in DOMAIN callbacks[r]
        BY <1>2 DEF IInv, TypeOK
      <4>2. QED
        BY <1>2, <1>3, <3>3, <4>1 DEF Allocated
    <3>4. <<o, "prv">> \in Allocated
      BY <2>2, <3>3 DEF Captures, Bufs
    <3>5. <<o, "rv">> \in Allocated
      <4>1. CASE Call[o].managed
        BY <2>2, <3>3, <4>1 DEF Captures, Bufs
      <4>2. CASE ~Call[o].managed
        <5>1. callbacks[r][call.pos] # "user"
          BY <1>2, <2>2
        <5>2. <<o, "rv">> \in scope
          BY <1>2, <1>3, <3>2, <4>2, <5>1 DEF IInv, ScopeInv
        <5>3. QED
          BY <1>3, <5>2 DEF Allocated, Bufs
      <4>3. QED
        BY <4>1, <4>2
    <3>6. QED
      BY <2>2, <3>4, <3>5 DEF TouchedBy
  <2>3. QED
    BY <2>1, <2>2
<1>8. Contract!Run(o, k)
  BY <1>2, <1>3, <1>5, <1>6, <1>7 DEF RunSets, Contract!Run
<1>9. QED
  BY <1>2, <1>3, <1>8 DEF Contract!Run

(* Freeing handles and running no callback releases nothing.              *)
LEMMA CompleteOwnStep ==
  ASSUME IInv, NEW f, NEW r \in Cells, CompleteOwn(f, r)
  PROVE  OnlyReleases
<1> DEFINE S == IF handle[r] = Null THEN {} ELSE {r}
           H == {handle[q] : q \in S}
<1>1. H = {handle[r]} \ {Null}
  OBVIOUS
<1>2. MpiFree(H) /\ \A q \in S : handle[q] # Null /\ Done(handle[q])
  BY <1>1 DEF CompleteOwn
<1>3. S \in SUBSET Cells
  OBVIOUS
<1> HIDE DEF S
<1>4. Phase' = Phase
  BY <1>2, <1>3, FreeKeepsPhase
<1>5. QED
  BY <1>4 DEF CompleteOwn, OnlyReleases, RunSets, Allocated

LEMMA CompleteCopiesStep ==
  ASSUME IInv, NEW S \in SUBSET Cells, \A r \in S : handle[r] # Null /\ Done(handle[r]),
         NEW f, NEW lo, NEW hi, CompleteCopies(S, f, lo, hi)
  PROVE  OnlyReleases
<1>1. Phase' = Phase
  BY FreeKeepsPhase DEF CompleteCopies
<1>2. QED
  BY <1>1 DEF CompleteCopies, OnlyReleases, RunSets, Allocated

(* The other steps only release memory, or nothing.                        *)
LEMMA ProgramStep ==
  ASSUME IInv, IInv', Beyond = {}, Program
  PROVE  (\E o \in Ops : Contract!Post(o)) \/ OnlyReleases
<1>1. ASSUME NEW r \in Cells, AddCallback(r) PROVE OnlyReleases
  <2>1. /\ callbacks' = [callbacks EXCEPT ![r] = Append(@, "user")]
        /\ repr' = repr /\ scope' = scope /\ runs' = runs /\ opState' = opState
    BY <1>1 DEF AddCallback, mpi
  <2>2. ASSUME NEW q \in Cells, NEW i \in DOMAIN callbacks'[q], NEW b \in Ops \X Bufs,
               b[2] \in Captures(b[1], callbacks'[q][i])
        PROVE  i \in DOMAIN callbacks[q] /\ callbacks'[q][i] = callbacks[q][i]
    <3>1. callbacks'[q][i] # "user"
      BY <2>2 DEF Captures
    <3>2. callbacks[q] \in Seq(Kinds)
      BY DEF IInv, TypeOK
    <3>3. CASE q = r
      <4>1. callbacks'[q] = Append(callbacks[q], "user")
        BY <2>1, <3>3 DEF IInv, TypeOK
      <4>2. QED
        BY <2>2, <3>1, <3>2, <4>1
    <3>4. QED
      BY <2>1, <2>2, <3>3 DEF IInv, TypeOK
  <2>3. Allocated' \subseteq Allocated
    BY <2>1, <2>2 DEF Allocated
  <2>4. QED
    BY <2>1, <2>3 DEF OnlyReleases, Phase, RunSets
<1>2. ASSUME NEW f, NEW lo \in Cells, NEW hi \in Cells, Enter(f, lo, hi) PROVE OnlyReleases
  BY <1>2 DEF Enter, objects, mpi, OnlyReleases, Phase, RunSets, Allocated
<1>3. ASSUME NEW r \in Cells, Test(r) PROVE OnlyReleases
  <2>1. CASE Dangling(handle[r])
    BY <1>3, <2>1 DEF Test, objects, mpi, OnlyReleases, Phase, RunSets, Allocated
  <2>2. QED
    BY <1>3, <2>1, CompleteOwnStep DEF Test
<1>4. ASSUME NEW r \in Cells, Destroy(r) PROVE OnlyReleases
  <2>1. /\ callbacks' = [callbacks EXCEPT ![r] = <<>>] /\ repr' = [repr EXCEPT ![r] = NoOp]
        /\ scope' = scope /\ runs' = runs /\ opState' = opState
    BY <1>4 DEF Destroy, mpi
  <2>2. Allocated' \subseteq Allocated
    BY <2>1, AllocatedShrinks DEF IInv, TypeOK
  <2>3. QED
    BY <2>1, <2>2 DEF OnlyReleases, Phase, RunSets
<1>5. ASSUME NEW s \in Cells, NEW d \in Cells, s # d, Move(s, d) PROVE OnlyReleases
  <2>1. /\ callbacks' = [callbacks EXCEPT ![d] = callbacks[s], ![s] = <<>>]
        /\ repr' = [repr EXCEPT ![d] = repr[s], ![s] = NoOp]
        /\ scope' = scope /\ runs' = runs /\ opState' = opState
    BY <1>5 DEF Move, mpi
  <2>2. Allocated' \subseteq Allocated
    BY <1>5, <2>1, AllocatedShrinks DEF IInv, TypeOK
  <2>3. QED
    BY <2>1, <2>2 DEF OnlyReleases, Phase, RunSets
<1>6. ASSUME NEW b \in Ops \X Bufs, DropView(b) PROVE OnlyReleases
  BY <1>6 DEF DropView, objects, mpi, OnlyReleases, Phase, RunSets, Allocated
<1>7. ASSUME NEW s \in Cells, NEW d \in Cells, MoveConstruct(s, d) \/ MoveAssign(s, d)
      PROVE  s # d /\ Move(s, d)
  BY <1>7 DEF MoveConstruct, MoveAssign
<1>8. QED
  BY <1>1, <1>2, <1>3, <1>4, <1>5, <1>6, <1>7, PostStep
  DEF Program, WaitCall, WaitAllCall, WaitAnyCall

LEMMA InsideStep ==
  ASSUME IInv, Beyond = {}, Inside
  PROVE  (\E o \in Ops, k \in Kinds : Contract!Run(o, k)) \/ OnlyReleases
<1>1. CASE WaitReturn
  <2>1. call.lo \in Cells /\ CompleteOwn("wait", call.lo)
    BY <1>1 DEF WaitReturn, IInv, TypeOK, CursorOK
  <2>2. QED
    BY <2>1, CompleteOwnStep
<1>2. ASSUME NEW r, call.stage = "mpi", r \in call.lo .. call.hi PROVE r \in Cells
  BY <1>2, MpiRequestAssumption DEF IInv, TypeOK, CursorOK, CallType, Cells
<1>3. CASE WaitAllReturn
  <2> DEFINE S == {r \in call.lo .. call.hi : handle[r] # Null}
  <2>1. /\ S \in SUBSET Cells /\ CompleteCopies(S, "all", call.lo, call.hi)
        /\ \A r \in S : handle[r] # Null /\ Done(handle[r])
    BY <1>2, <1>3 DEF WaitAllReturn
  <2> HIDE DEF S
  <2>2. QED
    BY <2>1, CompleteCopiesStep
<1>4. CASE WaitAnyReturn
  <2>1. PICK r \in call.lo .. call.hi : /\ handle[r] # Null /\ Done(handle[r])
                                        /\ CompleteCopies({r}, "any", r, r)
    BY <1>4 DEF WaitAnyReturn
  <2>2. {r} \in SUBSET Cells
    BY <1>2, <1>4 DEF WaitAnyReturn
  <2>3. QED
    BY <2>1, <2>2, CompleteCopiesStep
<1>5. CASE WaitAnyNone
  BY <1>5 DEF WaitAnyNone, objects, mpi, OnlyReleases, Phase, RunSets, Allocated
<1>6. CASE ClearCallbacks
  <2>1. /\ callbacks' = [callbacks EXCEPT ![call.at] = <<>>]
        /\ repr' = repr /\ scope' = scope /\ opState' = opState /\ runs' = runs
    BY <1>6 DEF ClearCallbacks, mpi
  <2>2. Allocated' \subseteq Allocated
    <3>1. \A q \in Cells : callbacks'[q] = <<>> \/ callbacks'[q] = callbacks[q]
      BY <2>1 DEF IInv, TypeOK
    <3>2. QED
      BY <2>1, <3>1 DEF Allocated
  <2>3. QED
    BY <2>1, <2>2 DEF OnlyReleases, Phase, RunSets
<1>7. ~CallbackThrows
  BY DEF CallbackThrows
<1>8. QED
  BY <1>1, <1>3, <1>4, <1>5, <1>6, <1>7, RunStep DEF Inside

LEMMA NextStep ==
  ASSUME IInv, IInv', Beyond = {}, [Next]_vars
  PROVE  [Contract!Next]_(Contract!vars)
<1>1. CASE Program
  BY <1>1, ProgramStep, ReleaseStep DEF Contract!Next
<1>2. CASE Inside
  BY <1>2, InsideStep, ReleaseStep DEF Contract!Next
<1>3. CASE \E o \in Ops : MpiComplete(o)
  BY <1>3, FinishStep DEF Contract!Next
<1>4. CASE UNCHANGED vars
  BY <1>4 DEF vars, objects, mpi, Contract!vars, Phase, Allocated
<1>5. QED
  BY <1>1, <1>2, <1>3, <1>4 DEF Next

LEMMA InitStep == Init => Contract!Init
  BY DEF Init, Contract!Init, Phase, Allocated, Bufs, Views

(* The detailed specification implements the contract.                     *)
THEOREM Refinement == ASSUME Beyond = {} PROVE Spec => KeepsContract
<1>1. IInv /\ IInv' /\ [Next]_vars => [Contract!Next]_(Contract!vars)
  BY NextStep
<1>2. QED
  BY <1>1, Invariance, InitStep, PTL DEF Spec, KeepsContract, Contract!Spec

-----------------------------------------------------------------------------
(* When the program's own callback runs, the unpacking callback has run:   *)
(* it stands before it in the list, and a list is run from the front.      *)
LEMMA UnpackStep ==
  ASSUME IInv, Beyond = {}, [Next]_vars, NEW o \in Ops, PacksRecv(o),
         runs'[o]["user"] > runs[o]["user"]
  PROVE  runs[o]["unpack"] >= 1
<1>1. runs' # runs
  BY DEF IInv, TypeOK, Kinds
<1>2. RunCallback
  BY <1>1 DEF Next, Program, Inside, Post, AddCallback, WaitCall, Test, Destroy, Enter,
     WaitAllCall, WaitAnyCall, MoveConstruct, MoveAssign, Move, DropView, WaitReturn,
     WaitAllReturn, WaitAnyReturn, WaitAnyNone, CompleteOwn, CompleteCopies, ClearCallbacks,
     CallbackThrows, MpiComplete, vars
<1> DEFINE r == call.at
<1>3. /\ r \in Cells /\ call.pos \in 1 .. Len(callbacks[r]) /\ InTurn(r)
      /\ Current = callbacks[r][call.pos] /\ Current \in Kinds
      /\ runs' = [runs EXCEPT ![repr[r]][Current] = @ + 1]
  <2>1. runs' = [runs EXCEPT ![repr[r]][Current] = @ + 1] /\ Current = callbacks[r][call.pos]
    BY <1>2 DEF RunCallback, Current
  <2>2. r \in Cells /\ call.pos \in 1 .. Len(callbacks[r]) /\ InTurn(r)
    BY <1>2, MpiRequestAssumption, SMTT(30)
    DEF RunCallback, Current, IInv, TypeOK, CursorOK, CallType, InTurn, Cells
  <2>3. callbacks[r] \in Seq(Kinds)
    BY <2>2 DEF IInv, TypeOK
  <2>4. QED
    BY <2>1, <2>2, <2>3
<1>4. repr[r] \in Ops /\ opState[repr[r]] = "freed"
  BY <1>3 DEF IInv, CallInv
<1> HIDE DEF r
<1>5. repr[r] = o /\ Current = "user"
  BY <1>3, <1>4 DEF IInv, TypeOK, Kinds
<1>6. "unpack" \in RegSet(o) /\ "unpack" \in Kinds
  BY RegisteredFacts DEF Kinds
<1>7. CASE runs[o]["unpack"] = 0
  <2>1. PICK q \in Cells : repr[q] = o /\ Has(callbacks[q], "unpack")
    BY <1>4, <1>5, <1>6, <1>7 DEF IInv, RunInv
  <2>2. q = r
    BY <1>3, <1>5, <2>1 DEF IInv, OwnerInv
  <2>3. PICK i \in 1 .. Len(callbacks[r]) : callbacks[r][i] = "unpack"
    BY <2>1, <2>2 DEF Has
  <2>4. i < call.pos
    <3>1. callbacks[r] \in Seq(Kinds) /\ Increasing(callbacks[r])
      BY <1>3 DEF IInv, TypeOK, ListInv
    <3>2. Len(callbacks[r]) \in Nat /\ callbacks[r][call.pos] = "user"
      BY <1>3, <1>5, <3>1
    <3>3. call.pos < i => Rank["user"] < Rank["unpack"]
      BY <1>3, <2>3, <3>1, <3>2 DEF Increasing
    <3>4. ~(call.pos < i)
      BY <3>3 DEF Rank
    <3>5. i # call.pos
      BY <2>3, <3>2
    <3>6. QED
      BY <1>3, <2>3, <3>2, <3>4, <3>5
  <2>5. Ran(r, i)
    BY <1>2, <2>4 DEF RunCallback, Ran, r
  <2>6. QED
    BY <1>3, <1>4, <1>5, <1>7, <2>3, <2>5 DEF IInv, RunInv
<1>8. QED
  BY <1>6, <1>7 DEF IInv, RunInv

(* The program's own callback finds the data unpacked.                     *)
THEOREM UnpackFirst == ASSUME Beyond = {} PROVE Spec => UnpackBeforeUser
<1> DEFINE Order == \A o \in Ops :
             runs'[o]["user"] > runs[o]["user"] /\ PacksRecv(o) => runs[o]["unpack"] >= 1
<1>1. IInv /\ [Next]_vars => [Order]_vars
  BY UnpackStep
<1>2. QED
  BY <1>1, Invariance, PTL DEF Spec, UnpackBeforeUser

-----------------------------------------------------------------------------
(***************************************************************************)
(* What a completion call has not run, it keeps.  This holds of any        *)
(* program, also when a callback throws.                                   *)
(***************************************************************************)

(* What stands before the cursor in the list at hand has run.              *)
PrefixRan ==
  call.stage = "run" /\ repr[call.at] \in Ops =>
    \A i \in 1 .. Len(callbacks[call.at]) :
      i < call.pos => runs[repr[call.at]][callbacks[call.at][i]] >= 1

(* The cursor is set back to the front of a list, or moves on by one.      *)
LEMMA CursorStep ==
  ASSUME TypeOK, [Next]_vars, call'.stage = "run"
  PROVE  \/ call'.pos = 1
         \/ RunCallback
         \/ call' = call /\ callbacks' = callbacks /\ repr' = repr /\ runs' = runs
<1>1. CASE Program
  <2>1. call.stage = "idle"
    BY <1>1 DEF Program, Post, AddCallback, WaitCall, Test, Destroy, WaitAllCall, WaitAnyCall,
                Enter, MoveConstruct, MoveAssign, DropView, Free
  <2>2. call' # call
    BY <2>1
  <2>3. \E r \in Cells : Test(r)
    BY <1>1, <2>2 DEF Program, Post, AddCallback, WaitCall, Destroy, WaitAllCall, WaitAnyCall,
                Enter, Blocked, MoveConstruct, MoveAssign, Move, DropView
  <2>4. QED
    BY <2>2, <2>3 DEF Test, CompleteOwn, Running
<1>2. CASE WaitReturn \/ WaitAllReturn \/ WaitAnyReturn
  <2>1. PICK f, lo, hi : call' = Running(f, lo, hi)
    <3>1. WaitReturn => call' = Running("wait", call.lo, call.lo)
      BY DEF WaitReturn, CompleteOwn
    <3>2. WaitAllReturn => call' = Running("all", call.lo, call.hi)
      BY DEF WaitAllReturn, CompleteCopies
    <3>3. WaitAnyReturn => \E r \in call.lo .. call.hi : call' = Running("any", r, r)
      BY DEF WaitAnyReturn, CompleteCopies
    <3>4. QED
      BY <1>2, <3>1, <3>2, <3>3, Zenon
  <2>2. QED
    BY <2>1 DEF Running
<1>3. CASE ClearCallbacks
  <2>1. call \in CallType
    BY DEF TypeOK
  <2>2. call' = [call EXCEPT !.at = @ + 1, !.pos = 1] \/ call' = Idle
    BY <1>3 DEF ClearCallbacks
  <2>3. CASE call' = [call EXCEPT !.at = @ + 1, !.pos = 1]
    <3>1. [call EXCEPT !.at = call.at + 1, !.pos = 1].pos = 1
      BY <2>1 DEF CallType
    <3>2. QED
      BY <2>3, <3>1
  <2>4. QED
    BY <2>2, <2>3 DEF Idle
<1>4. ~ WaitAnyNone /\ ~ CallbackThrows
  BY DEF WaitAnyNone, CallbackThrows, Idle
<1>5. CASE UNCHANGED vars \/ \E o \in Ops : MpiComplete(o)
  BY <1>5 DEF vars, objects, MpiComplete
<1>6. QED
  BY <1>1, <1>2, <1>3, <1>4, <1>5 DEF Next, Inside

(* A callback runs: its count grows, and the others stay.                  *)
LEMMA RunFacts ==
  ASSUME TypeOK, RunCallback, repr[call.at] \in Ops
  PROVE  /\ call'.pos = call.pos + 1 /\ call'.at = call.at /\ call.at \in Cells
         /\ callbacks' = callbacks /\ repr' = repr
         /\ \A k \in Kinds : /\ runs'[repr[call.at]][k] >= runs[repr[call.at]][k]
                             /\ k = Current => runs'[repr[call.at]][k] >= 1
<1>1. /\ runs' = [runs EXCEPT ![repr[call.at]][Current] = @ + 1]
      /\ call' = [call EXCEPT !.pos = @ + 1] /\ callbacks' = callbacks /\ repr' = repr
  BY DEF RunCallback, objects
<1>2. call \in CallType /\ call.at \in Cells
  BY DEF TypeOK, CursorOK, RunCallback
<1>3. runs[repr[call.at]] \in [Kinds -> Nat] /\ DOMAIN runs = Ops
  BY DEF TypeOK
<1>4. runs'[repr[call.at]] = [runs[repr[call.at]] EXCEPT ![Current] = @ + 1]
  BY <1>1, <1>3
<1>5. QED
  BY <1>1, <1>2, <1>3, <1>4 DEF CallType

LEMMA PrefixInv == Spec => []PrefixRan
<1>1. Init => PrefixRan
  BY DEF Init, Idle, PrefixRan
<1>2. ASSUME TypeOK, PrefixRan, [Next]_vars PROVE PrefixRan'
  <2> SUFFICES ASSUME call'.stage = "run", repr'[call'.at] \in Ops,
                      NEW i \in 1 .. Len(callbacks'[call'.at]), i < call'.pos
               PROVE  runs'[repr'[call'.at]][callbacks'[call'.at][i]] >= 1
    BY DEF PrefixRan
  <2>1. CASE call'.pos = 1
    BY <2>1
  <2>2. CASE call' = call /\ callbacks' = callbacks /\ repr' = repr /\ runs' = runs
    BY <1>2, <2>2 DEF PrefixRan
  <2>3. CASE RunCallback
    <3>1. repr[call.at] \in Ops /\ call.stage = "run" /\ call.pos \in Nat
      BY <1>2, <2>3 DEF RunCallback, objects, TypeOK, CallType
    <3>2. callbacks[call.at] \in Seq(Kinds) /\ call'.pos = call.pos + 1
          /\ call'.at = call.at /\ callbacks' = callbacks /\ repr' = repr
      BY <1>2, <2>3, <3>1, RunFacts DEF TypeOK
    <3>3. PICK q, k : q = repr[call.at] /\ k = callbacks[call.at][i]
      OBVIOUS
    <3>4. k \in Kinds /\ q \in Ops /\ i \in Nat /\ i < call.pos + 1
      BY <3>1, <3>2, <3>3
    <3>5. /\ runs'[q][k] >= runs[q][k]
          /\ k = Current => runs'[q][k] >= 1
      <4>1. \A j \in Kinds : /\ runs'[repr[call.at]][j] >= runs[repr[call.at]][j]
                             /\ j = Current => runs'[repr[call.at]][j] >= 1
        BY <1>2, <2>3, <3>1, RunFacts, Zenon
      <4>2. k \in Kinds /\ q = repr[call.at]
        BY <3>3, <3>4
      <4>3. /\ runs'[repr[call.at]][k] >= runs[repr[call.at]][k]
            /\ k = Current => runs'[repr[call.at]][k] >= 1
        BY <4>1, <4>2, Zenon
      <4>4. QED
        BY <4>2, <4>3, Zenon
    <3>6. runs'[q][k] >= 1
      <4>1. CASE i = call.pos
        BY <3>3, <3>5, <4>1 DEF Current
      <4>2. CASE i < call.pos
        <5>1. runs[q][k] >= 1
          BY <1>2, <3>1, <3>2, <3>3, <4>2 DEF PrefixRan
        <5>2. runs[q][k] \in Nat
          BY <1>2, <3>4 DEF TypeOK
        <5>3. runs'[q][k] \in Nat
          BY <1>2, <3>4, TypeStep DEF TypeOK
        <5>4. QED
          BY <3>5, <5>1, <5>2, <5>3
      <4>3. QED
        BY <3>1, <3>4, <4>1, <4>2
    <3>7. QED
      BY <3>2, <3>3, <3>6
  <2>4. QED
    BY <1>2, <2>1, <2>2, <2>3, CursorStep
<1>3. QED
  BY <1>1, <1>2, TypeCorrect, PTL DEF Spec

LEMMA KeptStep ==
  ASSUME TypeOK, PrefixRan, [Next]_vars, call.stage # "idle", NEW o \in Ops, NEW k \in Kinds,
         Listed(o, k)
  PROVE  Listed(o, k)' \/ runs'[o][k] >= 1
<1>1. ~ Program
  BY DEF Program, Post, AddCallback, WaitCall, Test, Destroy, WaitAllCall, WaitAnyCall,
         Enter, MoveConstruct, MoveAssign, DropView, Free
<1>2. CASE callbacks' = callbacks /\ repr' = repr
  BY <1>2 DEF Listed
<1>3. CASE ClearCallbacks
  <2>1. PICK r \in Cells : repr[r] = o /\ \E i \in DOMAIN callbacks[r] : callbacks[r][i] = k
    BY DEF Listed
  <2>2. /\ call.stage = "run" /\ call.pos = Len(callbacks[call.at]) + 1
        /\ callbacks' = [callbacks EXCEPT ![call.at] = <<>>] /\ repr' = repr /\ runs' = runs
    BY <1>3 DEF ClearCallbacks
  <2>3. CASE r = call.at
    <3>1. callbacks[r] \in Seq(Kinds)
      BY <2>1 DEF TypeOK
    <3>2. PICK i \in 1 .. Len(callbacks[r]) : callbacks[r][i] = k
      BY <2>1, <3>1
    <3>3. i < call.pos
      BY <2>2, <2>3, <3>1
    <3>4. QED
      BY <2>1, <2>2, <2>3, <3>2, <3>3 DEF PrefixRan
  <2>4. CASE r # call.at
    <3>1. callbacks'[r] = callbacks[r]
      BY <2>1, <2>2, <2>4 DEF TypeOK
    <3>2. QED
      BY <2>1, <2>2, <3>1 DEF Listed
  <2>5. QED
    BY <2>3, <2>4
<1>4. CASE Inside
  BY <1>2, <1>3, <1>4 DEF Inside, WaitReturn, CompleteOwn, WaitAllReturn, WaitAnyReturn, CompleteCopies,
     WaitAnyNone, RunCallback, CallbackThrows, objects
<1>5. CASE UNCHANGED vars \/ \E q \in Ops : MpiComplete(q)
  BY <1>2, <1>5 DEF vars, objects, MpiComplete
<1>6. QED
  BY <1>1, <1>4, <1>5 DEF Next

(* Whatever a program does and whichever of its callbacks throws, wait,    *)
(* test, wait_all and wait_any drop no callback before it has run.         *)
THEOREM UnrunKept == Spec => KeptUntilRun
<1> DEFINE Kept == call.stage # "idle" =>
             \A o \in Ops, k \in Kinds : Listed(o, k) => Listed(o, k)' \/ runs'[o][k] >= 1
<1>1. TypeOK /\ PrefixRan /\ [Next]_vars => [Kept]_vars
  BY KeptStep
<1>2. QED
  BY <1>1, TypeCorrect, PrefixInv, PTL DEF Spec, KeptUntilRun
=============================================================================
