------------------------- MODULE CommunicatorProofs -------------------------
(***************************************************************************)
(* For any ranks, objects and arguments of split, both specializations     *)
(* keep one owner for each communicator, leave what was only borrowed to   *)
(* the program, keep size and rank those of the handle, and duplicate a    *)
(* communicator without changing the order of its ranks.                   *)
(*                                                                         *)
(* Every rank has its own objects and handles, and only the completion of  *)
(* a collective call touches those of several ranks.  So the inductive     *)
(* invariant says the same of each rank, Sound(p); a step of one rank      *)
(* leaves the others alone (Frame), and keeps its own.  Sizes and ranks    *)
(* rest on a second invariant, RankInv, and on the facts of Orderings      *)
(* about processes listed in order.                                        *)
(***************************************************************************)
EXTENDS Communicator, Orderings, SequenceTheorems, TLAPS

(* Who may own a handle of p: an object, or the call that p is in.         *)
Places(p) == Objects[p] \union {"call"}

Owns(p, x, h) ==
  \/ x \in DOMAIN obj[p] /\ obj[p][x].owned /\ obj[p][x].comm = h
  \/ x = "call" /\ p \in DOMAIN call /\ call[p].new = h

OnlyOwner(p, h) ==
  \E x \in Places(p) : Owns(p, x, h) /\ \A y \in Places(p) : Owns(p, y, h) => y = x

(* An object names a handle that its rank has not released; it owns it if  *)
(* the library made it, and only then.                                     *)
SoundObject(p, x) ==
  /\ x.comm \in Handles => x.comm \in held[p]
  /\ x.owned \in BOOLEAN
  /\ x.owned => x.comm \in Made \union {Junk}
  /\ x.comm \in Made => x.owned

(* A call has a free place for its result, and holds the handle it was     *)
(* given.                                                                  *)
SoundCall(p) ==
  p \in DOMAIN call =>
    /\ call[p].into \in Objects[p] \ DOMAIN obj[p]
    /\ call[p].new \in Made \union {Null, Junk, Pending}
    /\ call[p].new \in Made => call[p].new \in held[p]

Sound(p) ==
  /\ Raw \subseteq held[p] /\ held[p] \subseteq Handles
  /\ DOMAIN obj[p] \subseteq Objects[p]
  /\ \A o \in DOMAIN obj[p] : SoundObject(p, obj[p][o])
  /\ SoundCall(p)
  /\ \A h \in held[p] \intersect Made : OnlyOwner(p, h)

IInv ==
  /\ LeavesNoHandle
  /\ DOMAIN held = Ranks /\ DOMAIN obj = Ranks /\ DOMAIN call \subseteq Ranks
  /\ \A p \in Ranks : Sound(p)

-----------------------------------------------------------------------------
LEMMA Names ==
  /\ Raw \intersect Made = {} /\ Made \subseteq Handles /\ Raw \subseteq Handles
  /\ Null \notin Handles /\ Junk \notin Handles /\ Pending \notin Handles
  /\ Null # Junk /\ Null # Pending /\ Junk # Pending
  /\ World \in Raw /\ World # Null /\ World # Junk
  /\ \A p \in Ranks : "call" \notin Objects[p]
  BY CommunicatorAssumption DEF Raw, Handles, Null, Junk, Pending

LEMMA OwnersMeaning ==
  ASSUME NEW p, NEW h, NEW x
  PROVE  x \in Owners(p, h) <=> Owns(p, x, h)
  BY DEF Owners, Owns

(* What Without makes of a function.                                       *)
LEMMA WithoutFacts ==
  ASSUME NEW f, NEW o
  PROVE  /\ DOMAIN Without(f, o) = DOMAIN f \ {o}
         /\ \A i \in DOMAIN f : i # o => Without(f, o)[i] = f[i]
  BY DEF Without

(* A rank whose objects, handles and call are as before is still sound.    *)
LEMMA Frame ==
  ASSUME NEW p \in Ranks, Sound(p),
         held'[p] = held[p], obj'[p] = obj[p],
         p \in DOMAIN call' <=> p \in DOMAIN call,
         p \in DOMAIN call => call'[p] = call[p]
  PROVE  Sound(p)'
<1>1. \A x, h : Owns(p, x, h)' <=> Owns(p, x, h)
  BY DEF Owns
<1>2. \A h : OnlyOwner(p, h) => OnlyOwner(p, h)'
  BY <1>1 DEF OnlyOwner, Places
<1>3. SoundCall(p)' /\ \A x : SoundObject(p, x) => SoundObject(p, x)'
  BY DEF Sound, SoundCall, SoundObject
<1>4. QED
  BY <1>2, <1>3 DEF Sound

LEMMA InitInv == LeavesNoHandle /\ Init => IInv
<1> SUFFICES ASSUME Init, NEW p \in Ranks PROVE Sound(p)
  BY DEF Init, IInv
<1>1. held[p] = Raw /\ DOMAIN obj[p] = {} /\ p \notin DOMAIN call
  BY DEF Init
<1>2. QED
  BY <1>1, Names DEF Sound, SoundCall
-----------------------------------------------------------------------------
(* Calls.  A rank that enters one brings a free place along.               *)
LEMMA EnterInv ==
  ASSUME IInv, NEW p \in Ranks, NEW h, NEW colour, NEW key, NEW dup,
         Enter(p, h, colour, key, dup)
  PROVE  IInv'
<1>1. PICK c : c = [on |-> h, dup |-> dup, colour |-> colour, key |-> key,
                    into |-> Place(p), new |-> Pending]
  OBVIOUS
<1>2. p \notin DOMAIN call /\ Room(p) # {} /\ call' = With(call, p, c)
      /\ held' = held /\ obj' = obj
  BY <1>1 DEF Enter, MayCall, Idle
<1>3. DOMAIN call' = DOMAIN call \union {p} /\ call'[p] = c
      /\ \A q \in DOMAIN call : q # p => call'[q] = call[q]
  BY <1>2 DEF With
<1>4. \A q \in Ranks : q # p => Sound(q)'
  BY <1>1, <1>2, <1>3, Frame DEF IInv
<1>5. Sound(p)'
  <2>1. Sound(p)
    BY DEF IInv
  <2>2. Place(p) \in Room(p)
    BY <1>2 DEF Place
  <2>3. SoundCall(p)'
    BY <1>1, <1>2, <1>3, <2>2, Names DEF SoundCall, Room
  <2>4. \A g \in Made : \A x : Owns(p, x, g)' <=> Owns(p, x, g)
    BY <1>1, <1>2, <1>3, Names DEF Owns
  <2>5. \A g \in held[p] \intersect Made : OnlyOwner(p, g)'
    BY <2>1, <2>4 DEF Sound, OnlyOwner, Places
  <2>6. QED
    BY <1>1, <1>2, <2>1, <2>3, <2>5 DEF Sound, SoundObject
<1>6. QED
  BY <1>1, <1>2, <1>3, <1>4, <1>5 DEF IInv

LEMMA CallInv == ASSUME IInv, NEW p \in Ranks, Call(p) PROVE IInv'
<1>1. PICK h, colour, key, dup : Enter(p, h, colour, key, dup)
  <2>1. CASE \E h \in Raw : mpi_duplicate_from_raw(p, h) \/ nccl_duplicate_from_raw(p, h)
    BY <2>1 DEF mpi_duplicate_from_raw, nccl_duplicate_from_raw, SplitToDuplicate
  <2>2. CASE \E h \in Raw : \E a \in Splits : split_from_raw(p, h, a[1], a[2])
    BY <2>2 DEF split_from_raw
  <2>3. CASE \E o \in DOMAIN obj[p] : mpi_duplicate(p, o) \/ nccl_duplicate(p, o)
    BY <2>3 DEF mpi_duplicate, mpi_duplicate_from_raw, nccl_duplicate, SplitToDuplicate
  <2>4. CASE \E o \in DOMAIN obj[p] : \E a \in Splits : split(p, o, a[1], a[2])
    BY <2>4 DEF split, split_from_raw
  <2>5. QED
    BY <2>1, <2>2, <2>3, <2>4 DEF Call
<1>2. QED
  BY <1>1, EnterInv

(* The library answers: a rank of the group holds the new handle, which it *)
(* did not before, and its call owns it.                                   *)
LEMMA CompleteInv == ASSUME IInv, NEW h \in Handles, Complete(h) PROVE IInv'
<1> DEFINE colours == {call[p].colour : p \in Group(h)} \ {Undefined}
           new == CHOOSE f \in Naming(colours) : TRUE
           given(p) == IF call[p].colour = Undefined THEN Null ELSE new[call[p].colour]
<1>1. /\ Naming(colours) # {} /\ Waiting(h) = Group(h)
      /\ held' = [p \in Ranks |->
           held[p] \union IF p \in Group(h) THEN {given(p)} \ {Null} ELSE {}]
      /\ call' = [p \in DOMAIN call |->
           IF p \in Group(h) THEN Answer(call[p], given(p)) ELSE call[p]]
      /\ obj' = obj
  BY DEF Complete, Together
<1>2. new \in [colours -> Unused]
  BY <1>1 DEF Naming
<1> HIDE DEF new
<1>3. ASSUME NEW p \in Group(h)
      PROVE  given(p) = Null \/ given(p) \in Unused
  BY <1>2
<1>4. ASSUME NEW p \in Ranks PROVE Sound(p)'
  <2>1. Sound(p)
    BY DEF IInv
  <2>2. CASE p \notin Group(h)
    BY <1>1, <2>1, <2>2, Frame DEF IInv
  <2>3. CASE p \in Group(h)
    <3>1. p \in DOMAIN call /\ call[p].new = Pending
      BY <1>1, <2>3 DEF Waiting
    <3>2. call'[p].into = call[p].into /\ call'[p].new = given(p) /\ p \in DOMAIN call'
      BY <1>1, <2>3, <3>1 DEF Answer
    <3>3. held'[p] = held[p] \union ({given(p)} \ {Null})
      BY <1>1, <2>3
    <3>4. given(p) = Null \/ (given(p) \in Made /\ given(p) \notin held[p])
      BY <1>3, <2>3 DEF Unused
    <3> HIDE DEF given
    <3>5. SoundCall(p)'
      BY <1>1, <2>1, <3>1, <3>2, <3>3, <3>4, Names DEF Sound, SoundCall
    <3>6. \A o \in DOMAIN obj[p] : SoundObject(p, obj[p][o])'
      BY <1>1, <2>1, <3>3 DEF Sound, SoundObject
    <3>7. ASSUME NEW g \in held'[p] \intersect Made PROVE OnlyOwner(p, g)'
      <4>1. CASE g = given(p)
        <5>1. \A x \in DOMAIN obj[p] : obj[p][x].comm # g
          BY <2>1, <3>4, <3>7, <4>1, Names DEF Sound, SoundObject
        <5>2. Owns(p, "call", g)' /\ \A y : Owns(p, y, g)' => y = "call"
          BY <1>1, <3>2, <4>1, <5>1 DEF Owns
        <5>3. QED
          BY <5>2 DEF OnlyOwner, Places
      <4>2. CASE g # given(p)
        <5>1. OnlyOwner(p, g)
          BY <2>1, <3>3, <3>7, <4>2 DEF Sound
        <5>2. \A y : Owns(p, y, g)' <=> Owns(p, y, g)
          BY <1>1, <3>1, <3>2, <3>7, <4>2, Names DEF Owns
        <5>3. QED
          BY <5>1, <5>2 DEF OnlyOwner, Places
      <4>3. QED
        BY <4>1, <4>2
    <3>8. QED
      BY <1>1, <2>1, <3>3, <3>4, <3>5, <3>6, <3>7, Names DEF Sound
  <2>4. QED
    BY <2>2, <2>3
<1>5. QED
  BY <1>1, <1>4 DEF IInv

(* A call that fails leaves null or junk, if it leaves no handle.          *)
LEMMA LeftFacts ==
  ASSUME IInv
  PROVE  Left \subseteq {Null, Junk} /\ \A S : [S -> Left] \subseteq [S -> {Null, Junk}]
<1>1. Left \subseteq {Null, Junk}
  BY CommunicatorAssumption DEF IInv, LeavesNoHandle
<1>2. QED
  BY <1>1

LEMMA FailInv == ASSUME IInv, NEW h \in Handles, Fail(h) PROVE IInv'
<1>1. PICK left \in [Group(h) -> {Null, Junk}] :
        call' = [p \in DOMAIN call |->
                   IF p \in Group(h) THEN Answer(call[p], left[p]) ELSE call[p]]
  BY LeftFacts DEF Fail
<1>2. Waiting(h) = Group(h) /\ held' = held /\ obj' = obj
  BY DEF Fail, Together
<1>3. ASSUME NEW p \in Ranks PROVE Sound(p)'
  <2>1. Sound(p)
    BY DEF IInv
  <2>2. CASE p \notin Group(h)
    BY <1>1, <1>2, <2>1, <2>2, Frame DEF IInv
  <2>3. CASE p \in Group(h)
    <3>1. p \in DOMAIN call /\ call[p].new = Pending
      BY <1>2, <2>3 DEF Waiting
    <3>2. call'[p].into = call[p].into /\ call'[p].new \in {Null, Junk} /\ p \in DOMAIN call'
      BY <1>1, <2>3, <3>1 DEF Answer
    <3>3. SoundCall(p)'
      BY <1>2, <2>1, <3>1, <3>2, Names DEF Sound, SoundCall
    <3>4. \A g \in Made : \A y : Owns(p, y, g)' <=> Owns(p, y, g)
      BY <1>2, <3>1, <3>2, Names DEF Owns
    <3>5. \A g \in held[p] \intersect Made : OnlyOwner(p, g)'
      BY <2>1, <3>4 DEF Sound, OnlyOwner, Places
    <3>6. QED
      BY <1>2, <2>1, <3>3, <3>5 DEF Sound, SoundObject
  <2>4. QED
    BY <2>2, <2>3
<1>4. QED
  BY <1>1, <1>2, <1>3 DEF IInv

-----------------------------------------------------------------------------
(* The handle of a call that returns passes to the object that is made.    *)
LEMMA ReturnInv == ASSUME IInv, NEW p \in Ranks, Return(p) PROVE IInv'
<1>0. PICK o, x : o = call[p].into /\ x = Construct(p, call[p].new, TRUE)
  OBVIOUS
<1>1. /\ p \in DOMAIN call /\ call[p].new # Pending
      /\ call' = Without(call, p) /\ held' = held
      /\ obj' = IF call[p].new = Null THEN obj ELSE [obj EXCEPT ![p] = With(@, o, x)]
  BY <1>0 DEF Return
<1>2. DOMAIN call' = DOMAIN call \ {p} /\ \A q \in DOMAIN call : q # p => call'[q] = call[q]
  BY <1>1, WithoutFacts
<1>3. \A q \in Ranks : q # p => Sound(q)'
  BY <1>1, <1>2, Frame DEF IInv
<1>4. Sound(p)'
  <2>1. Sound(p) /\ DOMAIN obj = Ranks
    BY DEF IInv
  <2>2. SoundCall(p)'
    BY <1>2 DEF SoundCall
  <2>3. CASE call[p].new = Null
    <3>1. \A g \in Made : \A y : Owns(p, y, g)' <=> Owns(p, y, g)
      BY <1>1, <1>2, <2>3, Names DEF Owns
    <3>2. \A g \in held[p] \intersect Made : OnlyOwner(p, g)'
      BY <2>1, <3>1 DEF Sound, OnlyOwner, Places
    <3>3. QED
      BY <1>1, <2>1, <2>2, <2>3, <3>2 DEF Sound, SoundObject
  <2>4. CASE call[p].new # Null
    <3>1. /\ x.comm = call[p].new /\ x.owned = TRUE
      BY <1>0 DEF Construct
    <3>2. /\ o \in Objects[p] /\ o \notin DOMAIN obj[p]
          /\ call[p].new \in Made \union {Junk}
          /\ call[p].new \in Made => call[p].new \in held[p]
      BY <1>0, <1>1, <2>1, <2>4 DEF Sound, SoundCall
    <3>3. obj'[p] = With(obj[p], o, x)
      BY <1>1, <2>1, <2>4
    <3>4. /\ DOMAIN obj'[p] = DOMAIN obj[p] \union {o} /\ obj'[p][o] = x
          /\ \A i \in DOMAIN obj[p] : obj'[p][i] = obj[p][i]
      BY <3>2, <3>3 DEF With
    <3>5. (\A i \in DOMAIN obj[p] : SoundObject(p, obj[p][i]))'
      BY <1>1, <2>1, <3>1, <3>2, <3>4, Names, ZenonT(30) DEF Sound, SoundObject
    <3>6. ASSUME NEW g \in held[p] \intersect Made PROVE OnlyOwner(p, g)'
      <4>1. PICK z \in Places(p) : Owns(p, z, g) /\ \A y \in Places(p) : Owns(p, y, g) => y = z
        BY <2>1 DEF Sound, OnlyOwner
      <4>2. CASE g = call[p].new
        <5>1. Owns(p, "call", g) /\ z = "call"
          BY <1>1, <4>1, <4>2 DEF Owns, Places
        <5>2. \A i \in DOMAIN obj[p] : ~ (obj[p][i].owned /\ obj[p][i].comm = g)
          BY <2>1, <4>1, <5>1, Names DEF Owns, Places, Sound
        <5>3. Owns(p, o, g)' /\ \A y : Owns(p, y, g)' => y = o
          BY <1>2, <3>1, <3>4, <4>2, <5>2 DEF Owns
        <5>4. QED
          BY <3>2, <5>3 DEF OnlyOwner, Places
      <4>3. CASE g # call[p].new
        <5>1. \A y : Owns(p, y, g)' <=> Owns(p, y, g)
          BY <1>1, <1>2, <3>1, <3>2, <3>4, <4>3 DEF Owns
        <5>2. QED
          BY <4>1, <5>1 DEF OnlyOwner, Places
      <4>4. QED
        BY <4>2, <4>3
    <3>7. QED
      BY <1>1, <2>1, <2>2, <3>2, <3>4, <3>5, <3>6 DEF Sound
  <2>5. QED
    BY <2>3, <2>4
<1>5. DOMAIN obj' = Ranks
  BY <1>1 DEF IInv
<1>6. QED
  BY <1>1, <1>2, <1>3, <1>4, <1>5 DEF IInv

-----------------------------------------------------------------------------
(* What a step on the objects of p has to keep: p is in no call, gives up  *)
(* at most handles of the library, and the objects are sound after it.     *)
LEMMA ObjectStep ==
  ASSUME IInv, NEW p \in Ranks, NEW S, NEW f,
         p \notin DOMAIN call, call' = call,
         S \intersect Raw = {},
         DOMAIN held' = Ranks, held'[p] = held[p] \ S,
         \A q \in Ranks : q # p => held'[q] = held[q],
         obj' = [obj EXCEPT ![p] = f],
         DOMAIN f \subseteq Objects[p],
         \A o \in DOMAIN f : SoundObject(p, f[o]) /\ f[o].comm \notin S \intersect Handles,
         \A h \in (held[p] \ S) \intersect Made :
           \E x \in DOMAIN f : /\ f[x].owned /\ f[x].comm = h
                               /\ \A y \in DOMAIN f : f[y].owned /\ f[y].comm = h => y = x
  PROVE  IInv'
<1>1. /\ held'[p] = held[p] \ S /\ obj'[p] = f
      /\ \A q \in Ranks : q # p => held'[q] = held[q] /\ obj'[q] = obj[q]
      /\ DOMAIN held' = Ranks /\ DOMAIN obj' = Ranks
  BY DEF IInv
<1>2. \A q \in Ranks : q # p => Sound(q)'
  BY <1>1, Frame DEF IInv
<1>3. Sound(p)'
  <2>1. Sound(p)
    BY DEF IInv
  <2>2. SoundCall(p)'
    BY DEF SoundCall
  <2>3. \A o \in DOMAIN f : SoundObject(p, f[o])'
    BY <1>1 DEF SoundObject
  <2>4. \A x, h : Owns(p, x, h)' <=> x \in DOMAIN f /\ f[x].owned /\ f[x].comm = h
    BY <1>1 DEF Owns
  <2>5. \A h \in held'[p] \intersect Made : OnlyOwner(p, h)'
    BY <1>1, <2>4 DEF OnlyOwner, Places
  <2>6. QED
    BY <1>1, <2>1, <2>2, <2>3, <2>5 DEF Sound
<1>4. QED
  BY <1>1, <1>2, <1>3 DEF IInv

LEMMA FromRawInv ==
  ASSUME IInv, NEW p \in Ranks, NEW h \in Raw, from_raw(p, h) PROVE IInv'
<1>1. PICK d, x : d = Place(p) /\ x = Construct(p, h, FALSE)
  OBVIOUS
<1>2. PICK f : f = With(obj[p], d, x)
  OBVIOUS
<1>3. /\ p \notin DOMAIN call /\ call' = call /\ held' = held
      /\ Room(p) # {} /\ obj' = [obj EXCEPT ![p] = f]
  BY <1>1, <1>2 DEF from_raw, Ready, Idle
<1>4. d \in Objects[p] /\ d \notin DOMAIN obj[p]
  BY <1>1, <1>3 DEF Place, Room
<1>5. x.comm = h /\ x.owned = FALSE
  BY <1>1 DEF Construct
<1>6. /\ DOMAIN f = DOMAIN obj[p] \union {d} /\ f[d] = x
      /\ \A i \in DOMAIN obj[p] : f[i] = obj[p][i]
  BY <1>2, <1>4 DEF With
<1>7. Sound(p) /\ DOMAIN obj = Ranks
  BY DEF IInv
<1>8. obj'[p] = f /\ \A q \in Ranks : q # p => obj'[q] = obj[q]
  BY <1>3, <1>7
<1>9. Sound(p)'
  <2>1. SoundCall(p)'
    BY <1>3 DEF SoundCall
  <2>2. (\A i \in DOMAIN obj[p] : SoundObject(p, obj[p][i]))'
    BY <1>3, <1>5, <1>6, <1>7, <1>8, Names DEF Sound, SoundObject
  <2>3. \A g, y : Owns(p, y, g)' <=> Owns(p, y, g)
    BY <1>3, <1>4, <1>5, <1>6, <1>8 DEF Owns
  <2>4. \A g \in held[p] \intersect Made : OnlyOwner(p, g)'
    BY <1>7, <2>3 DEF Sound, OnlyOwner, Places
  <2>5. QED
    BY <1>3, <1>4, <1>6, <1>7, <1>8, <2>1, <2>2, <2>4 DEF Sound
<1>10. \A q \in Ranks : q # p => Sound(q)'
  BY <1>3, <1>8, Frame DEF IInv
<1>11. QED
  BY <1>3, <1>7, <1>9, <1>10 DEF IInv

-----------------------------------------------------------------------------
(* What a destructor frees was made by the library, and is named by no     *)
(* other object of its rank.                                               *)
LEMMA FreedFacts ==
  ASSUME IInv, NEW p \in Ranks, NEW o \in DOMAIN obj[p], p \notin DOMAIN call
  PROVE  /\ MpiFreed(obj[p][o]) = NcclFreed(obj[p][o])
         /\ NcclFreed(obj[p][o]) \intersect Raw = {}
         /\ \A i \in DOMAIN obj[p] : i # o =>
              obj[p][i].comm \notin NcclFreed(obj[p][o]) \intersect Handles
<1>1. Sound(p) /\ SoundObject(p, obj[p][o])
  BY DEF IInv, Sound
<1>2. obj[p][o].owned => obj[p][o].comm \notin Raw
  BY <1>1, Names DEF SoundObject
<1>3. ASSUME NEW i \in DOMAIN obj[p], i # o, obj[p][o].owned,
             obj[p][i].comm = obj[p][o].comm, obj[p][i].comm \in Handles
      PROVE  FALSE
  <2>1. SoundObject(p, obj[p][i]) /\ obj[p][i].comm \in Made
    BY <1>1, <1>3, Names DEF Sound, SoundObject
  <2>2. OnlyOwner(p, obj[p][i].comm)
    BY <1>1, <2>1, Names DEF Sound, SoundObject
  <2>3. Owns(p, i, obj[p][i].comm) /\ Owns(p, o, obj[p][i].comm)
    BY <1>3, <2>1 DEF Owns, SoundObject
  <2>4. i \in Places(p) /\ o \in Places(p)
    BY <1>1 DEF Sound, Places
  <2>5. QED
    BY <1>3, <2>2, <2>3, <2>4 DEF OnlyOwner
<1>4. QED
  BY <1>2, <1>3, Names DEF MpiFreed, NcclFreed

LEMMA DestroyInv ==
  ASSUME IInv, NEW p \in Ranks, NEW o, Destroy(p, o) PROVE IInv'
<1>1. PICK f : f = Without(obj[p], o)
  OBVIOUS
<1>2. PICK S : S = Freed(obj[p][o])
  OBVIOUS
<1>3. /\ p \notin DOMAIN call /\ call' = call /\ o \in DOMAIN obj[p]
      /\ held' = [held EXCEPT ![p] = @ \ S] /\ obj' = [obj EXCEPT ![p] = f]
  BY <1>1, <1>2 DEF Destroy, Ready, Idle, Free
<1>4. DOMAIN f = DOMAIN obj[p] \ {o} /\ \A i \in DOMAIN f : f[i] = obj[p][i]
  BY <1>1, WithoutFacts, ZenonT(30)
<1>5. /\ S = NcclFreed(obj[p][o]) /\ S \intersect Raw = {}
      /\ \A i \in DOMAIN f : f[i].comm \notin S \intersect Handles
  BY <1>2, <1>3, <1>4, FreedFacts DEF Freed
<1>6. DOMAIN held' = Ranks /\ held'[p] = held[p] \ S
      /\ \A q \in Ranks : q # p => held'[q] = held[q]
  BY <1>3 DEF IInv
<1>7. DOMAIN f \subseteq Objects[p] /\ \A i \in DOMAIN f : SoundObject(p, f[i])
  BY <1>4 DEF IInv, Sound
<1>8. ASSUME NEW h \in (held[p] \ S) \intersect Made
      PROVE  \E x \in DOMAIN f : /\ f[x].owned /\ f[x].comm = h
                                 /\ \A y \in DOMAIN f : f[y].owned /\ f[y].comm = h => y = x
  <2>1. PICK x \in Places(p) : Owns(p, x, h) /\ \A y \in Places(p) : Owns(p, y, h) => y = x
    BY DEF IInv, Sound, OnlyOwner
  <2>2. x \in DOMAIN obj[p] /\ obj[p][x].owned /\ obj[p][x].comm = h
    BY <1>3, <2>1 DEF Owns
  <2>3. x \in DOMAIN f
    BY <1>4, <1>5, <2>2 DEF NcclFreed
  <2>4. \A y \in DOMAIN f : f[y].owned /\ f[y].comm = h => y = x
    BY <1>4, <1>7, <2>1 DEF Owns, Places
  <2>5. QED
    BY <1>4, <2>2, <2>3, <2>4
<1>9. QED
  BY <1>3, <1>5, <1>6, <1>7, <1>8, ObjectStep

(* A move hands what o has to d, which gives up S, and keeps the number of *)
(* owners of everything else.                                              *)
LEMMA HandOverInv ==
  ASSUME IInv, NEW p \in Ranks, NEW o \in DOMAIN obj[p], NEW d \in Objects[p], o # d, NEW S,
         p \notin DOMAIN call, call' = call, HandOver(p, o, d),
         S \intersect Raw = {},
         d \in DOMAIN obj[p] => S = NcclFreed(obj[p][d]), d \notin DOMAIN obj[p] => S = {},
         DOMAIN held' = Ranks, held'[p] = held[p] \ S,
         \A q \in Ranks : q # p => held'[q] = held[q]
  PROVE  IInv'
<1>1. PICK f : f = With(With(obj[p], d, obj[p][o]), o, Moved)
  OBVIOUS
<1>2. obj' = [obj EXCEPT ![p] = f]
  BY <1>1 DEF HandOver
<1>3. /\ DOMAIN f = DOMAIN obj[p] \union {d} /\ f[o] = Moved /\ f[d] = obj[p][o]
      /\ \A i \in DOMAIN obj[p] : i # o /\ i # d => f[i] = obj[p][i]
  BY <1>1 DEF With
<1>4. /\ DOMAIN obj[p] \subseteq Objects[p]
      /\ \A i \in DOMAIN obj[p] : SoundObject(p, obj[p][i])
  BY DEF IInv, Sound
<1>5. SoundObject(p, Moved) /\ Moved.comm \notin Handles /\ Moved.owned = FALSE
  BY Names DEF SoundObject, Moved
<1>6. DOMAIN f \subseteq Objects[p] /\ \A i \in DOMAIN f : SoundObject(p, f[i])
  BY <1>3, <1>4, <1>5
<1>7. \A i \in DOMAIN obj[p] : i # d => obj[p][i].comm \notin S \intersect Handles
  BY FreedFacts
<1>8. \A i \in DOMAIN f : f[i].comm \notin S \intersect Handles
  BY <1>3, <1>5, <1>7
<1>9. ASSUME NEW h \in (held[p] \ S) \intersect Made
      PROVE  \E x \in DOMAIN f : /\ f[x].owned /\ f[x].comm = h
                                 /\ \A y \in DOMAIN f : f[y].owned /\ f[y].comm = h => y = x
  <2>1. PICK x \in Places(p) : Owns(p, x, h) /\ \A y \in Places(p) : Owns(p, y, h) => y = x
    BY DEF IInv, Sound, OnlyOwner
  <2>2. x \in DOMAIN obj[p] /\ obj[p][x].owned /\ obj[p][x].comm = h
    BY <2>1 DEF Owns
  <2>3. \A y \in DOMAIN obj[p] : obj[p][y].owned /\ obj[p][y].comm = h => y = x
    BY <1>4, <2>1 DEF Owns, Places
  <2>4. x # d
    BY <2>2 DEF NcclFreed
  <2>5. CASE x = o
    <3>1. f[d].owned /\ f[d].comm = h
      BY <1>3, <2>2, <2>5
    <3>2. \A y \in DOMAIN f : f[y].owned /\ f[y].comm = h => y = d
      BY <1>3, <1>5, <2>3, <2>5
    <3>3. QED
      BY <1>3, <3>1, <3>2
  <2>6. CASE x # o
    <3>1. f[x].owned /\ f[x].comm = h
      BY <1>3, <2>2, <2>4, <2>6
    <3>2. \A y \in DOMAIN f : f[y].owned /\ f[y].comm = h => y = x
      BY <1>3, <1>5, <2>3, <2>6
    <3>3. QED
      BY <1>3, <2>2, <3>1, <3>2
  <2>7. QED
    BY <2>5, <2>6
<1>10. QED
  BY <1>2, <1>6, <1>8, <1>9, ObjectStep

LEMMA MoveConstructInv ==
  ASSUME IInv, NEW p \in Ranks, NEW o, NEW d, MoveConstruct(p, o, d) PROVE IInv'
<1>1. /\ p \notin DOMAIN call /\ call' = call /\ held' = held /\ HandOver(p, o, d)
      /\ o \in DOMAIN obj[p] /\ d \in Objects[p] /\ d \notin DOMAIN obj[p]
  BY DEF MoveConstruct, Ready, Idle, Room
<1>2. PICK S : S = {}
  OBVIOUS
<1>3. /\ S \intersect Raw = {} /\ DOMAIN held' = Ranks /\ held'[p] = held[p] \ S
      /\ \A q \in Ranks : q # p => held'[q] = held[q]
  BY <1>1, <1>2 DEF IInv
<1>4. o # d /\ (d \in DOMAIN obj[p] => S = NcclFreed(obj[p][d]))
  BY <1>1
<1>5. QED
  BY <1>1, <1>2, <1>3, <1>4, HandOverInv

LEMMA OverwriteInv ==
  ASSUME IInv, NEW p \in Ranks, NEW o, NEW d, NEW S, Overwrite(p, o, d, S),
         d \in DOMAIN obj[p] /\ p \notin DOMAIN call => S = NcclFreed(obj[p][d])
  PROVE  IInv'
<1>1. p \notin DOMAIN call /\ call' = call /\ o \in DOMAIN obj[p] /\ d \in DOMAIN obj[p]
  BY DEF Overwrite, Ready, Idle
<1>2. CASE o = d
  <2>1. held' = held /\ obj' = obj
    BY <1>2 DEF Overwrite
  <2>2. \A q \in Ranks : Sound(q)'
    BY <1>1, <2>1, Frame DEF IInv
  <2>3. QED
    BY <1>1, <2>1, <2>2 DEF IInv
<1>3. CASE o # d
  <2>1. held' = [held EXCEPT ![p] = @ \ S] /\ HandOver(p, o, d)
    BY <1>3 DEF Overwrite, Free
  <2>2. DOMAIN held' = Ranks /\ held'[p] = held[p] \ S
        /\ \A q \in Ranks : q # p => held'[q] = held[q]
    BY <2>1 DEF IInv
  <2>3. S \intersect Raw = {} /\ S = NcclFreed(obj[p][d]) /\ d \in Objects[p]
    BY <1>1, FreedFacts DEF IInv, Sound
  <2>4. QED
    BY <1>1, <1>3, <2>1, <2>2, <2>3, HandOverInv
<1>4. QED
  BY <1>2, <1>3

-----------------------------------------------------------------------------
LEMMA NextInv == IInv /\ [Next]_vars => IInv'
<1> SUFFICES ASSUME IInv, [Next]_vars PROVE IInv'
  OBVIOUS
<1>1. ASSUME NEW p \in Ranks, Call(p) PROVE IInv'
  BY <1>1, CallInv
<1>2. ASSUME NEW p \in Ranks, Return(p) PROVE IInv'
  BY <1>2, ReturnInv
<1>3. ASSUME NEW p \in Ranks, NEW h \in Raw, from_raw(p, h) PROVE IInv'
  BY <1>3, FromRawInv
<1>4. ASSUME NEW p \in Ranks, NEW o, Destroy(p, o) PROVE IInv'
  BY <1>4, DestroyInv
<1>5. ASSUME NEW p \in Ranks, NEW o, NEW d, MoveConstruct(p, o, d) PROVE IInv'
  BY <1>5, MoveConstructInv
<1>6. ASSUME NEW p \in Ranks, NEW o, NEW d, mpi_MoveAssign(p, o, d) \/ nccl_MoveAssign(p, o, d)
      PROVE  IInv'
  <2>1. d \in DOMAIN obj[p] /\ p \notin DOMAIN call => MpiFreed(obj[p][d]) = NcclFreed(obj[p][d])
    BY FreedFacts
  <2>2. PICK S : Overwrite(p, o, d, S) /\ S \in {MpiFreed(obj[p][d]), NcclFreed(obj[p][d])}
    BY <1>6 DEF mpi_MoveAssign, nccl_MoveAssign
  <2>3. QED
    BY <2>1, <2>2, OverwriteInv
<1>7. ASSUME NEW h \in Handles, Complete(h) PROVE IInv'
  BY <1>7, CompleteInv
<1>8. ASSUME NEW h \in Handles, Fail(h) PROVE IInv'
  BY <1>8, FailInv
<1>9. CASE UNCHANGED vars
  <2>1. held' = held /\ obj' = obj /\ call' = call
    BY <1>9 DEF vars
  <2>2. \A p \in Ranks : Sound(p)'
    BY <2>1, Frame DEF IInv
  <2>3. QED
    BY <2>1, <2>2 DEF IInv
<1>10. QED
  BY <1>1, <1>2, <1>3, <1>4, <1>5, <1>6, <1>7, <1>8, <1>9 DEF Next

THEOREM Invariance == LeavesNoHandle /\ Spec => []IInv
  BY InitInv, NextInv, PTL DEF Spec

(* The program's own communicators, the predefined ones included, are      *)
(* never released by an object that borrowed them, whichever way it was    *)
(* moved, assigned and destroyed.  As in all theorems of this module,      *)
(* calls may fail at any time, and leave nothing that is, or becomes, a    *)
(* handle.                                                                 *)
THEOREM BorrowedSafe == LeavesNoHandle /\ Spec => []BorrowedStays
<1>1. IInv => BorrowedStays
  BY DEF IInv, Sound, BorrowedStays
<1>2. QED
  BY <1>1, Invariance, PTL

(* A communicator that a split or a duplicate made has one owner on each   *)
(* of its ranks until that rank releases it: it is neither leaked nor      *)
(* released twice, and no object names it afterwards.  The code keeps this *)
(* only while failing calls leave no handle in `new_comm`.                 *)
THEOREM OwnersUnique == LeavesNoHandle /\ Spec => []OneOwner
<1>1. ASSUME IInv, NEW p \in Ranks, NEW h \in held[p] \intersect Made
      PROVE  Cardinality(Owners(p, h)) = 1
  <2>1. PICK x \in Places(p) : Owns(p, x, h) /\ \A y \in Places(p) : Owns(p, y, h) => y = x
    BY <1>1 DEF IInv, Sound, OnlyOwner
  <2>2. \A y : Owns(p, y, h) => y \in Places(p)
    BY <1>1 DEF IInv, Sound, Owns, Places
  <2>3. Owners(p, h) = {x}
    BY <2>1, <2>2, OwnersMeaning
  <2>4. QED
    BY <2>3, FS_Singleton
<1>2. IInv => OneOwner
  BY <1>1 DEF IInv, Sound, SoundObject, OneOwner, ExactlyOneOwner
<1>3. QED
  BY <1>2, Invariance, PTL

-----------------------------------------------------------------------------
(* Sizes and ranks.                                                        *)

(* The ranks of a communicator, each of them once.                         *)
Numbered(h) ==
  /\ members[h] \in Seq(Ranks)
  /\ \A i, j \in DOMAIN members[h] : members[h][i] = members[h][j] => i = j

(* size_ and rank_ are those of the handle.                                *)
Coherent(p, x) ==
  /\ x \in Object
  /\ IF x.comm \in Handles
     THEN x.size = Len(members[x.comm]) /\ x.rank = RankIn(p, x.comm)
     ELSE x.size = 0 /\ x.rank = 0

(* p is on the communicator it made its call on.  A call to duplicate asks *)
(* for the order of that communicator, and has it when it is complete.     *)
Known(p) ==
  p \in DOMAIN call =>
    /\ call[p].on \in held[p] /\ call[p].key \in Int
    /\ call[p].dup /\ call[p].new = Pending =>
         /\ call[p].colour = 0
         /\ call[p].key = IF lib = "mpi" THEN 0 ELSE RankIn(p, call[p].on)
    /\ call[p].dup /\ call[p].new \in Made => members[call[p].new] = members[call[p].on]

Ranked(p) ==
  /\ \A h \in held[p] : p \in Group(h)
  /\ \A o \in DOMAIN obj[p] : Coherent(p, obj[p][o])
  /\ Known(p)

(* All that wait in one communicator are in the same call.                 *)
Agreed == \A h \in Handles : \A p, q \in Waiting(h) : call[p].dup = call[q].dup

RankInv ==
  /\ lib \in {"mpi", "nccl"} /\ DOMAIN members = Handles
  /\ held \in [Ranks -> SUBSET Handles]
  /\ \A h \in Handles : Numbered(h)
  /\ \A p \in Ranks : Ranked(p)
  /\ Agreed

-----------------------------------------------------------------------------
(* The rank of a member is its position.                                   *)
LEMMA RankFacts ==
  ASSUME NEW h, Numbered(h), NEW p \in Group(h)
  PROVE  /\ RankIn(p, h) \in 0 .. Len(members[h]) - 1
         /\ members[h][RankIn(p, h) + 1] = p
         /\ \A i \in DOMAIN members[h] : members[h][i] = p => RankIn(p, h) = i - 1
<1>1. PICK i \in DOMAIN members[h] : members[h][i] = p
  BY DEF Group
<1>2. \A j \in DOMAIN members[h] : members[h][j] = p => j = i
  BY <1>1 DEF Numbered
<1>3. (CHOOSE j \in DOMAIN members[h] : members[h][j] = p) = i
  BY <1>1, <1>2
<1>4. RankIn(p, h) = i - 1
  BY <1>3 DEF RankIn
<1>5. DOMAIN members[h] = 1 .. Len(members[h]) /\ Len(members[h]) \in Nat
  BY DEF Numbered
<1>6. i \in 1 .. Len(members[h]) /\ i \in Int
  BY <1>5
<1>7. i - 1 \in 0 .. Len(members[h]) - 1 /\ (i - 1) + 1 = i
  BY <1>5, <1>6
<1>8. QED
  BY <1>1, <1>2, <1>4, <1>7

(* A list without repetition is as long as the set of its elements.        *)
LEMMA GroupSize ==
  ASSUME NEW h, Numbered(h)
  PROVE  /\ IsFiniteSet(Group(h)) /\ Cardinality(Group(h)) = Len(members[h])
         /\ Group(h) \subseteq Ranks
         /\ Len(members[h]) \in 0 .. Cardinality(Ranks)
<1>0. Len(members[h]) \in Nat
  BY DEF Numbered
<1>1. PICK n, s : n = Len(members[h]) /\ s = members[h]
  OBVIOUS
<1>2. n \in Nat /\ DOMAIN s = 1 .. n /\ s \in [1 .. n -> Ranks]
  BY <1>0, <1>1 DEF Numbered
<1>3. s \in [1 .. n -> Group(h)] /\ Group(h) \subseteq Ranks
  BY <1>1, <1>2 DEF Group
<1>4. s \in Injection(1 .. n, Group(h))
  BY <1>1, <1>2, <1>3 DEF Injection, IsInjective, Numbered
<1>5. s \in Surjection(1 .. n, Group(h))
  BY <1>1, <1>2, <1>3 DEF Surjection, Group
<1>6. ExistsBijection(1 .. n, Group(h))
  BY <1>4, <1>5 DEF ExistsBijection, Bijection
<1>7. IsFiniteSet(1 .. n) /\ Cardinality(1 .. n) = n
  BY <1>2, FS_Interval
<1>8. IsFiniteSet(Group(h)) /\ Cardinality(Group(h)) = n
  BY <1>6, <1>7, FS_Bijection
<1>9. Cardinality(Group(h)) <= Cardinality(Ranks) /\ Cardinality(Ranks) \in Nat
  BY <1>3, FS_Subset, FS_CardinalityType, CommunicatorAssumption
<1>10. QED
  BY <1>1, <1>2, <1>3, <1>8, <1>9

(* Key and rank order the members of a call.                               *)
Precedence(h, S) == {e \in S \X S : Before(h, e[1], e[2])}

LEMMA BeforeOrders ==
  ASSUME NEW h, Numbered(h), NEW S \in SUBSET Group(h), \A p \in S : call[p].key \in Int
  PROVE  IsOrder(Precedence(h, S), S)
<1>1. \A p \in S : RankIn(p, h) \in Int
  BY RankFacts, GroupSize
<1>2. \A p, q \in S : <<p, q>> \in Precedence(h, S) <=> Before(h, p, q)
  BY DEF Precedence
<1>3. \A p \in S : ~ Before(h, p, p)
  BY <1>1 DEF Before
<1>4. \A p, q, r \in S : Before(h, p, q) /\ Before(h, q, r) => Before(h, p, r)
  BY <1>1 DEF Before
<1>5. ASSUME NEW p \in S, NEW q \in S, p # q PROVE Before(h, p, q) \/ Before(h, q, p)
  <2>1. RankIn(p, h) # RankIn(q, h)
    BY <1>5, RankFacts
  <2>2. QED
    BY <1>1, <2>1 DEF Before
<1>6. QED
  BY <1>2, <1>3, <1>4, <1>5 DEF IsOrder

(* The new communicator of a colour has each rank of that colour once.     *)
LEMMA OrderedFacts ==
  ASSUME NEW h, Numbered(h), NEW c, \A p \in Group(h) : call[p].key \in Int,
         NEW S, S = {p \in Group(h) : call[p].colour = c},
         NEW s, s = Ordered(h, c)
  PROVE  /\ s \in Seq(Ranks) /\ Len(s) = Cardinality(S)
         /\ Lists(s, Len(s), S) /\ Sorted(s, Len(s), Precedence(h, S))
<1> DEFINE R == Precedence(h, S)
<1>1. IsFiniteSet(S) /\ S \subseteq Ranks
  BY GroupSize, FS_Subset
<1>2. IsOrder(R, S)
  BY BeforeOrders
<1>3. PICK n \in Nat : n = Cardinality(S)
  BY <1>1, FS_CardinalityType
<1>4. \A t \in [1 .. n -> S] :
        Sorted(t, n, R) <=> \A i, j \in 1 .. n : i < j => Before(h, t[i], t[j])
  BY DEF Sorted, Precedence
<1>5. \E t \in [1 .. n -> S] : \A i, j \in 1 .. n : i < j => Before(h, t[i], t[j])
  <2> HIDE DEF R
  <2>1. PICK t \in [1 .. n -> S] : Sorted(t, n, R)
    BY <1>1, <1>2, <1>3, SortedExists
  <2>2. QED
    BY <1>4, <2>1
<1>6. s = CHOOSE t \in [1 .. n -> S] : \A i, j \in 1 .. n : i < j => Before(h, t[i], t[j])
  BY <1>3 DEF Ordered
<1>7. s \in [1 .. n -> S] /\ Sorted(s, n, R)
  <2> HIDE DEF R
  <2>1. s \in [1 .. n -> S] /\ \A i, j \in 1 .. n : i < j => Before(h, s[i], s[j])
    BY <1>5, <1>6
  <2>2. QED
    BY <1>4, <2>1
<1>8. Lists(s, n, S)
  <2> HIDE DEF R
  <2>1. QED
    BY <1>1, <1>2, <1>3, <1>7, SortedFacts
<1>9. s \in Seq(Ranks) /\ Len(s) = n
  <2>1. s \in [1 .. n -> Ranks]
    BY <1>1, <1>7
  <2>2. QED
    BY <2>1
<1>10. QED
  BY <1>3, <1>7, <1>8, <1>9

(* A split with one colour, and equal keys or the ranks as keys, keeps the *)
(* order of the communicator: there is only one such list.                 *)
LEMMA OrderedKeeps ==
  ASSUME NEW h, Numbered(h), NEW c,
         \A p \in Group(h) : call[p].colour = c /\ call[p].key \in Int,
         \/ \A p, q \in Group(h) : call[p].key = call[q].key
         \/ \A p \in Group(h) : call[p].key = RankIn(p, h)
  PROVE  Ordered(h, c) = members[h]
<1>0. PICK S : S = {p \in Group(h) : call[p].colour = c}
  OBVIOUS
<1> DEFINE R == Precedence(h, S)
<1>1. S = Group(h)
  BY <1>0
<1>2. PICK n, s : n = Len(members[h]) /\ s = members[h]
  OBVIOUS
<1>3. s \in [1 .. n -> S] /\ DOMAIN s = 1 .. n
  BY <1>1, <1>2 DEF Group, Numbered
<1>4. IsFiniteSet(S) /\ Cardinality(S) = n
  BY <1>1, <1>2, GroupSize
<1>5. IsOrder(R, S)
  BY <1>1, BeforeOrders
<1>6. ASSUME NEW i \in 1 .. n, NEW j \in 1 .. n, i < j PROVE Before(h, s[i], s[j])
  <2>1. s[i] \in Group(h) /\ s[j] \in Group(h)
    BY <1>1, <1>3
  <2>2. RankIn(s[i], h) = i - 1 /\ RankIn(s[j], h) = j - 1
    BY <1>2, <1>3, <2>1, RankFacts
  <2>3. CASE call[s[i]].key = call[s[j]].key
    BY <1>6, <2>2, <2>3 DEF Before
  <2>4. CASE call[s[i]].key = i - 1 /\ call[s[j]].key = j - 1
    BY <1>6, <2>4 DEF Before
  <2>5. QED
    BY <2>1, <2>2, <2>3, <2>4
<1>7. Sorted(s, n, R)
  BY <1>3, <1>6 DEF Sorted, Precedence
<1>8. Ordered(h, c) \in [1 .. n -> S] /\ Sorted(Ordered(h, c), n, R)
  <2>1. \A p \in Group(h) : call[p].key \in Int
    OBVIOUS
  <2>2. PICK t : t = Ordered(h, c)
    OBVIOUS
  <2>3. Len(t) = Cardinality(S) /\ Lists(t, Len(t), S) /\ Sorted(t, Len(t), R)
    BY <1>0, <2>1, <2>2, OrderedFacts
  <2>4. t \in [1 .. n -> S] /\ Sorted(t, n, R)
    BY <1>4, <2>3 DEF Lists
  <2>5. QED
    BY <2>2, <2>4
<1>9. s = Ordered(h, c)
  <2> HIDE DEF R
  <2>1. QED
    BY <1>3, <1>4, <1>5, <1>7, <1>8, SortedUnique
<1>10. QED
  BY <1>2, <1>9
-----------------------------------------------------------------------------
(* What is constructed for a member of the communicator, what a move       *)
(* leaves, and what only concerns communicators that stay as they are.     *)
LEMMA ConstructCoherent ==
  ASSUME NEW p \in Ranks, NEW h \in Handles \union {Junk}, NEW owned \in BOOLEAN,
         h \in Handles => Numbered(h) /\ p \in Group(h)
  PROVE  Coherent(p, Construct(p, h, owned))
<1>1. 0 \in Ranks /\ Cardinality(Ranks) \in Nat
  BY CommunicatorAssumption, FS_CardinalityType
<1>2. CASE h \in Handles
  <2>1. RankIn(p, h) \in 0 .. Len(members[h]) - 1 /\ Len(members[h]) \in 0 .. Cardinality(Ranks)
    BY <1>2, RankFacts, GroupSize
  <2>2. RankIn(p, h) \in Ranks
    BY <1>1, <2>1, CommunicatorAssumption
  <2>3. QED
    BY <1>2, <2>1, <2>2 DEF Construct, InGroup, Coherent, Object
<1>3. CASE h \notin Handles
  BY <1>1, <1>3 DEF Construct, InGroup, Coherent, Object
<1>4. QED
  BY <1>2, <1>3

LEMMA MovedCoherent == ASSUME NEW p \in Ranks PROVE Coherent(p, Moved)
<1>1. 0 \in Ranks /\ Cardinality(Ranks) \in Nat
  BY CommunicatorAssumption, FS_CardinalityType
<1>2. QED
  BY <1>1, Names DEF Moved, Coherent, Object

LEMMA SameMembers ==
  ASSUME NEW h, members'[h] = members[h]
  PROVE  /\ Group(h)' = Group(h) /\ (Numbered(h)' <=> Numbered(h))
         /\ \A p : RankIn(p, h)' = RankIn(p, h)
  BY DEF Group, Numbered, RankIn

LEMMA SameCoherent ==
  ASSUME NEW p, NEW x, Coherent(p, x), x.comm \in Handles => members'[x.comm] = members[x.comm]
  PROVE  Coherent(p, x)'
  BY SameMembers DEF Coherent

(* A step that gives p no handle and lets it enter no call.                *)
LEMMA RankedStep ==
  ASSUME NEW p \in Ranks, Sound(p), Sound(p)', Ranked(p), lib' = lib,
         held'[p] \subseteq held[p],
         \A h \in held'[p] : members'[h] = members[h],
         \A o \in DOMAIN obj'[p] : Coherent(p, obj'[p][o]),
         p \in DOMAIN call' => p \in DOMAIN call /\ call'[p] = call[p] /\ held'[p] = held[p]
  PROVE  Ranked(p)'
<1>1. \A h \in held'[p] : p \in Group(h)'
  BY SameMembers DEF Ranked
<1>2. ASSUME NEW o \in DOMAIN obj'[p] PROVE Coherent(p, obj[p][o])'
  <2>1. PICK x : x = obj'[p][o]
    OBVIOUS
  <2>2. Coherent(p, x) /\ (x.comm \in Handles => x.comm \in held'[p])
    BY <2>1 DEF Sound, SoundObject
  <2>3. Coherent(p, x)'
    BY <2>2, SameCoherent
  <2>4. QED
    BY <2>1, <2>3 DEF Coherent
<1>3. Known(p)'
  <2>1. SUFFICES ASSUME p \in DOMAIN call' PROVE Known(p)'
    BY DEF Known
  <2>2. p \in DOMAIN call /\ call'[p] = call[p] /\ held'[p] = held[p] /\ Known(p)
    BY <2>1 DEF Ranked
  <2>3. members'[call[p].on] = members[call[p].on]
    BY <2>2 DEF Known
  <2>4. \A g : members'[g] = members[g] => RankIn(p, g)' = RankIn(p, g)
    BY SameMembers
  <2>5. call[p].new \in Made => members'[call[p].new] = members[call[p].new]
    BY <2>2 DEF Sound, SoundCall
  <2>6. QED
    BY <2>2, <2>3, <2>4, <2>5 DEF Known
<1>4. QED
  BY <1>1, <1>2, <1>3 DEF Ranked

(* The same for what waits.                                                *)
LEMMA AgreedStep ==
  ASSUME Agreed,
         \A q \in DOMAIN call' :
           call'[q].new = Pending =>
             /\ q \in DOMAIN call /\ call[q].new = Pending
             /\ call'[q].on = call[q].on /\ call'[q].dup = call[q].dup
  PROVE  Agreed'
<1>1. \A h : \A q \in Waiting(h)' : q \in Waiting(h) /\ call'[q].dup = call[q].dup
  BY DEF Waiting
<1>2. QED
  BY <1>1 DEF Agreed

LEMMA InitRanks == Init => RankInv
<1> SUFFICES ASSUME Init PROVE RankInv
  OBVIOUS
<1>1. PICK n : n = Cardinality(Ranks)
  OBVIOUS
<1>2. n \in Nat /\ Ranks = 0 .. n - 1
  BY <1>1, CommunicatorAssumption, FS_CardinalityType
<1>3. DOMAIN members = Handles /\ lib \in {"mpi", "nccl"} /\ held \in [Ranks -> SUBSET Handles]
  BY Names DEF Init
<1>4. ASSUME NEW h \in Raw
      PROVE  members[h] = [i \in 1 .. n |-> i - 1] /\ Numbered(h) /\ Group(h) = Ranks
  <2>1. members[h] = [i \in 1 .. n |-> i - 1]
    BY <1>1, Names DEF Init
  <2>2. [i \in 1 .. n |-> i - 1] \in Seq(Ranks)
    BY <1>2
  <2>3. DOMAIN members[h] = 1 .. n /\ \A i \in 1 .. n : members[h][i] = i - 1
    BY <2>1
  <2>4. Numbered(h)
    BY <1>2, <2>1, <2>2, <2>3 DEF Numbered
  <2>5. \A p \in Ranks : p + 1 \in 1 .. n /\ members[h][p + 1] = p
    BY <1>2, <2>3
  <2>6. \A i \in 1 .. n : i - 1 \in Ranks
    BY <1>2
  <2>7. Group(h) = Ranks
    BY <2>3, <2>5, <2>6 DEF Group
  <2>8. QED
    BY <2>1, <2>4, <2>7
<1>5. ASSUME NEW h \in Made PROVE Numbered(h)
  <2>1. members[h] = <<>>
    BY <1>5, Names DEF Init
  <2>2. QED
    BY <2>1 DEF Numbered
<1>6. \A p \in Ranks : Ranked(p)
  BY <1>4, Names DEF Init, Ranked, Known
<1>7. Agreed
  BY DEF Init, Agreed, Waiting
<1>8. QED
  BY <1>3, <1>4, <1>5, <1>6, <1>7 DEF RankInv, Handles

-----------------------------------------------------------------------------
(* A call begins: its members are those of the handle p holds, and whoever *)
(* waits in it makes the same call.                                        *)
LEMMA EnterRanks ==
  ASSUME IInv, IInv', RankInv, NEW p \in Ranks, NEW h, NEW colour, NEW key \in Int, NEW dup,
         Enter(p, h, colour, key, dup),
         dup => colour = 0 /\ key = IF lib = "mpi" THEN 0 ELSE RankIn(p, h)
  PROVE  RankInv'
<1>1. PICK c : c = [on |-> h, dup |-> dup, colour |-> colour, key |-> key,
                    into |-> Place(p), new |-> Pending]
  OBVIOUS
<1>2. /\ p \notin DOMAIN call /\ h \in held[p] /\ \A q \in Waiting(h) : call[q].dup = dup
      /\ call' = With(call, p, c) /\ lib' = lib /\ members' = members /\ held' = held /\ obj' = obj
  BY <1>1 DEF Enter, MayCall, Idle
<1>3. DOMAIN call' = DOMAIN call \union {p} /\ call'[p] = c
      /\ \A q \in DOMAIN call : q # p => call'[q] = call[q]
  BY <1>2 DEF With
<1>4. \A q \in Ranks : q # p => Ranked(q)'
  BY <1>2, <1>3, RankedStep DEF IInv, RankInv, Ranked
<1>5. Ranked(p)'
  <2>1. Ranked(p) /\ Sound(p)
    BY DEF RankInv, IInv
  <2>2. \A g : RankIn(p, g)' = RankIn(p, g) /\ Group(g)' = Group(g)
    BY <1>2 DEF RankIn, Group
  <2>3. Known(p)'
    BY <1>1, <1>2, <1>3, <2>2, Names DEF Known
  <2>4. \A x : Coherent(p, x) => Coherent(p, x)'
    BY <1>2, SameCoherent
  <2>5. QED
    BY <1>2, <2>1, <2>2, <2>3, <2>4 DEF Ranked
<1>6. Agreed'
  <2>1. \A g : \A q \in Waiting(g)' : q # p => q \in Waiting(g) /\ call'[q].dup = call[q].dup
    BY <1>3 DEF Waiting
  <2>2. \A g : p \in Waiting(g)' => g = h /\ call'[p].dup = dup
    BY <1>1, <1>3 DEF Waiting
  <2>3. \A g \in Handles : \A q, r \in Waiting(g) : call[q].dup = call[r].dup
    BY DEF RankInv, Agreed
  <2>4. ASSUME NEW g \in Handles, NEW q \in Waiting(g)', NEW r \in Waiting(g)'
        PROVE  call'[q].dup = call'[r].dup
    BY <1>2, <2>1, <2>2, <2>3
  <2>5. QED
    BY <2>4 DEF Agreed
<1>7. QED
  BY <1>2, <1>4, <1>5, <1>6, SameMembers DEF RankInv

LEMMA CallRanks ==
  ASSUME IInv, IInv', RankInv, NEW p \in Ranks, Call(p) PROVE RankInv'
<1>1. \A h \in Handles : h \in held[p] => RankIn(p, h) \in Int
  <2>1. ASSUME NEW h \in Handles, h \in held[p] PROVE RankIn(p, h) \in Int
    <3>1. Numbered(h) /\ p \in Group(h)
      BY <2>1 DEF RankInv, Ranked
    <3>2. QED
      BY <3>1, RankFacts, GroupSize
  <2>2. QED
    BY <2>1
<1>2. ASSUME NEW h, Enter(p, h, 0, 0, TRUE), lib = "mpi" PROVE RankInv'
  <2>1. PICK k : k = 0
    OBVIOUS
  <2>2. Enter(p, h, 0, k, TRUE)
    BY <1>2, <2>1, Zenon
  <2>3. k \in Int /\ k = IF lib = "mpi" THEN 0 ELSE RankIn(p, h)
    BY <1>2, <2>1
  <2>4. QED
    BY <2>2, <2>3, EnterRanks
<1>3. ASSUME NEW h \in Handles, Enter(p, h, 0, RankIn(p, h), TRUE), lib = "nccl" PROVE RankInv'
  <2>1. h \in held[p]
    BY <1>3 DEF Enter, MayCall
  <2>2. QED
    BY <1>1, <1>3, <2>1, EnterRanks
<1>4. ASSUME NEW h, NEW a \in Splits, Enter(p, h, a[1], a[2], FALSE) PROVE RankInv'
  <2>1. a[2] \in Int
    BY CommunicatorAssumption
  <2>2. QED
    BY <1>4, <2>1, EnterRanks
<1>5. ASSUME NEW o \in DOMAIN obj[p], obj[p][o].comm \in Handles
      PROVE  obj[p][o].rank = RankIn(p, obj[p][o].comm)
  BY <1>5 DEF RankInv, Ranked, Coherent
<1>6. CASE \E h \in Raw : mpi_duplicate_from_raw(p, h) \/ nccl_duplicate_from_raw(p, h)
  BY <1>2, <1>3, <1>6, Names DEF mpi_duplicate_from_raw, nccl_duplicate_from_raw, SplitToDuplicate
<1>7. CASE \E h \in Raw : \E a \in Splits : split_from_raw(p, h, a[1], a[2])
  BY <1>4, <1>7 DEF split_from_raw
<1>8. CASE \E o \in DOMAIN obj[p] : obj[p][o].comm \in Handles
                                    /\ (mpi_duplicate(p, o) \/ nccl_duplicate(p, o))
  BY <1>2, <1>3, <1>5, <1>8
     DEF mpi_duplicate, mpi_duplicate_from_raw, nccl_duplicate, SplitToDuplicate
<1>9. CASE \E o \in DOMAIN obj[p] : \E a \in Splits : split(p, o, a[1], a[2])
  BY <1>4, <1>9 DEF split, split_from_raw
<1>10. QED
  BY <1>6, <1>7, <1>8, <1>9 DEF Call
-----------------------------------------------------------------------------
(* A call is complete: each rank is in the communicator it is given, and a *)
(* duplicate lists the ranks as the original did.                          *)
LEMMA CompleteRanks ==
  ASSUME IInv, IInv', RankInv, NEW h \in Handles, Complete(h) PROVE RankInv'
<1> DEFINE colours == {call[p].colour : p \in Group(h)} \ {Undefined}
           new == CHOOSE f \in Naming(colours) : TRUE
           given(p) == IF call[p].colour = Undefined THEN Null ELSE new[call[p].colour]
<1>1. /\ Naming(colours) # {} /\ Waiting(h) = Group(h) /\ lib' = lib /\ obj' = obj
      /\ members' = [g \in Handles |->
           IF \E c \in colours : new[c] = g
           THEN Ordered(h, CHOOSE c \in colours : new[c] = g) ELSE members[g]]
      /\ held' = [p \in Ranks |->
           held[p] \union IF p \in Group(h) THEN {given(p)} \ {Null} ELSE {}]
      /\ call' = [p \in DOMAIN call |->
           IF p \in Group(h) THEN Answer(call[p], given(p)) ELSE call[p]]
  BY DEF Complete, Together
<1>2. new \in [colours -> Unused] /\ \A c, d \in colours : new[c] = new[d] => c = d
  BY <1>1 DEF Naming
<1> HIDE DEF new
<1>3. Numbered(h) /\ Group(h) \subseteq Ranks /\ Unused \subseteq Made
  BY GroupSize DEF RankInv, Unused
<1>4. \A p \in Group(h) : p \in DOMAIN call /\ call[p].on = h /\ call[p].new = Pending
  BY <1>1 DEF Waiting
<1>5. \A p \in Group(h) : Known(p) /\ call[p].key \in Int /\ h \in held[p]
  BY <1>3, <1>4 DEF RankInv, Ranked, Known
<1>6. ASSUME NEW c \in colours
      PROVE  new[c] \in Unused /\ members'[new[c]] = Ordered(h, c)
  <2>1. new[c] \in Unused /\ new[c] \in Handles
    BY <1>2, <1>3, Names
  <2>2. (CHOOSE d \in colours : new[d] = new[c]) = c
    BY <1>2
  <2>3. QED
    BY <1>1, <2>1, <2>2
<1>7. \A p \in Ranks : \A g \in held[p] : members'[g] = members[g]
  <2>1. ASSUME NEW p \in Ranks, NEW g \in held[p] PROVE members'[g] = members[g]
    <3>1. g \in Handles /\ g \notin Unused
      BY DEF IInv, Sound, Unused
    <3>2. ~ \E c \in colours : new[c] = g
      BY <1>6, <3>1
    <3>3. QED
      BY <1>1, <3>1, <3>2
  <2>2. QED
    BY <2>1
<1>8. ASSUME NEW g \in Handles PROVE Numbered(g)'
  <2>1. CASE \E c \in colours : new[c] = g
    <3>1. PICK c \in colours : new[c] = g
      BY <2>1
    <3>2. PICK S, s : S = {p \in Group(h) : call[p].colour = c} /\ s = Ordered(h, c)
      OBVIOUS
    <3>3. s \in Seq(Ranks) /\ Lists(s, Len(s), S)
      BY <1>3, <1>5, <3>2, OrderedFacts
    <3>4. \A i, j \in DOMAIN s : s[i] = s[j] => i = j
      BY <3>3 DEF Lists
    <3>5. members'[g] = s
      BY <1>6, <3>1, <3>2
    <3>6. QED
      BY <3>3, <3>4, <3>5 DEF Numbered
  <2>2. CASE ~ \E c \in colours : new[c] = g
    <3>1. members'[g] = members[g]
      BY <1>1, <2>2
    <3>2. QED
      BY <3>1, SameMembers DEF RankInv
  <2>3. QED
    BY <2>1, <2>2
<1>9. ASSUME NEW p \in Ranks PROVE Ranked(p)'
  <2>1. Sound(p) /\ Sound(p)' /\ Ranked(p)
    BY DEF IInv, RankInv
  <2>2. CASE p \notin Group(h)
    <3>1. held'[p] = held[p]
      BY <1>1, <2>2
    <3>2. p \in DOMAIN call' => p \in DOMAIN call /\ call'[p] = call[p]
      BY <1>1, <2>2
    <3>3. \A g \in held'[p] : members'[g] = members[g]
      BY <1>7, <3>1
    <3>4. \A o \in DOMAIN obj'[p] : Coherent(p, obj'[p][o])
      BY <1>1, <2>1 DEF Ranked
    <3>5. lib' = lib /\ held'[p] \subseteq held[p]
      BY <1>1, <3>1
    <3> HIDE DEF given, colours
    <3>6. QED
      BY <2>1, <3>1, <3>2, <3>3, <3>4, <3>5, RankedStep
  <2>3. CASE p \in Group(h)
    <3>1. PICK g, c : g = given(p) /\ c = call[p].colour
      OBVIOUS
    <3>2. /\ held'[p] = held[p] \union ({g} \ {Null})
          /\ p \in DOMAIN call' /\ call'[p] = Answer(call[p], g)
      BY <1>1, <1>4, <2>3, <3>1
    <3>3. g = Null \/ (c \in colours /\ g = new[c])
      BY <2>3, <3>1
    <3> HIDE DEF given, colours
    <3>4. g = Null \/ (g \in Made /\ members'[g] = Ordered(h, c))
      BY <1>3, <1>6, <3>3
    <3>5. ASSUME g # Null PROVE p \in Group(g)'
      <4>1. PICK S, s : S = {q \in Group(h) : call[q].colour = c} /\ s = Ordered(h, c)
        OBVIOUS
      <4>2. p \in S
        BY <2>3, <3>1, <4>1
      <4>3. s \in Seq(Ranks) /\ Lists(s, Len(s), S)
        BY <1>3, <1>5, <4>1, OrderedFacts
      <4>4. \E i \in DOMAIN s : s[i] = p
        BY <4>2, <4>3 DEF Lists
      <4>5. members'[g] = s
        BY <3>4, <3>5, <4>1
      <4>6. QED
        BY <4>4, <4>5 DEF Group
    <3>6. ASSUME g # Null, call[p].dup PROVE members'[g] = members[h]
      <4>1. \A q \in Group(h) : call[q].dup
        BY <1>1, <2>3, <3>6 DEF RankInv, Agreed
      <4>2. \A q \in Group(h) : call[q].colour = 0
                                /\ call[q].key = IF lib = "mpi" THEN 0 ELSE RankIn(q, h)
        BY <1>4, <1>5, <4>1 DEF Known
      <4>3. c = 0
        BY <2>3, <3>1, <4>2
      <4>4. Ordered(h, c) = members[h]
        <5>1. \A q \in Group(h) : call[q].colour = c /\ call[q].key \in Int
          BY <1>5, <4>2, <4>3
        <5>2. \/ \A q, r \in Group(h) : call[q].key = call[r].key
              \/ \A q \in Group(h) : call[q].key = RankIn(q, h)
          BY <4>2
        <5>3. QED
          BY <1>3, <5>1, <5>2, OrderedKeeps
      <4>5. QED
        BY <3>4, <3>6, <4>4
    <3>7. Known(p)'
      <4>1. call'[p].on = h /\ call'[p].dup = call[p].dup /\ call'[p].key = 0 /\ call'[p].new = g
        BY <1>4, <2>3, <3>2 DEF Answer
      <4>2. h \in held'[p] /\ members'[h] = members[h] /\ g # Pending
        BY <1>5, <1>7, <2>3, <3>2, <3>4, Names
      <4>3. QED
        BY <3>6, <4>1, <4>2, Names DEF Known
    <3>8. \A o \in DOMAIN obj'[p] : Coherent(p, obj[p][o])'
      <4>1. \A x : Coherent(p, x) /\ (x.comm \in Handles => x.comm \in held[p]) => Coherent(p, x)'
        BY <1>7, SameCoherent
      <4>2. \A o \in DOMAIN obj[p] : Coherent(p, obj[p][o])
                                     /\ (obj[p][o].comm \in Handles => obj[p][o].comm \in held[p])
        BY <2>1 DEF Sound, SoundObject, Ranked
      <4>3. ASSUME NEW o \in DOMAIN obj'[p] PROVE Coherent(p, obj[p][o])'
        <5>1. PICK x : x = obj[p][o]
          OBVIOUS
        <5>2. Coherent(p, x)' /\ x = obj'[p][o]
          BY <1>1, <4>1, <4>2, <5>1
        <5>3. QED
          BY <5>2 DEF Coherent
      <4>4. QED
        BY <4>3
    <3>9. \A f \in held'[p] : p \in Group(f)'
      BY <1>7, <2>1, <3>2, <3>5, SameMembers DEF Ranked
    <3>10. QED
      BY <3>7, <3>8, <3>9 DEF Ranked
  <2>4. QED
    BY <2>2, <2>3
<1>10. Agreed'
  <2>1. \A q \in Group(h) : call'[q].new # Pending
    <3>1. ASSUME NEW q \in Group(h) PROVE call'[q].new # Pending
      <4>1. call'[q].new = given(q)
        BY <1>1, <1>4 DEF Answer
      <4>2. given(q) = Null \/ given(q) \in Made
        BY <1>2, <1>3
      <4>3. QED
        BY <4>1, <4>2, Names
    <3>2. QED
      BY <3>1
  <2>2. DOMAIN call' = DOMAIN call /\ \A q \in DOMAIN call : q \notin Group(h) => call'[q] = call[q]
    BY <1>1
  <2>3. QED
    BY <2>1, <2>2, AgreedStep DEF RankInv
<1>11. held' \in [Ranks -> SUBSET Handles]
  <2>1. \A p \in Ranks : held'[p] \subseteq Handles
    BY DEF IInv, Sound
  <2>2. QED
    BY <1>1, <2>1
<1>12. DOMAIN members' = Handles
  BY <1>1
<1>13. QED
  BY <1>1, <1>8, <1>9, <1>10, <1>11, <1>12 DEF RankInv
LEMMA FailRanks ==
  ASSUME IInv, IInv', RankInv, NEW h \in Handles, Fail(h) PROVE RankInv'
<1>1. PICK left \in [Group(h) -> {Null, Junk}] :
        call' = [p \in DOMAIN call |->
                   IF p \in Group(h) THEN Answer(call[p], left[p]) ELSE call[p]]
  BY LeftFacts DEF Fail
<1>2. /\ Waiting(h) = Group(h) /\ lib' = lib /\ held' = held /\ obj' = obj /\ members' = members
  BY DEF Fail, Together
<1>3. /\ DOMAIN call' = DOMAIN call /\ \A q \in DOMAIN call : q \notin Group(h) => call'[q] = call[q]
      /\ \A q \in Group(h) : q \in DOMAIN call => call'[q].new \in {Null, Junk}
                             /\ call'[q].on = call[q].on /\ call'[q].key = 0
  BY <1>1 DEF Answer
<1>4. ASSUME NEW p \in Ranks PROVE Ranked(p)'
  <2>1. Sound(p) /\ Sound(p)' /\ Ranked(p)
    BY DEF IInv, RankInv
  <2>2. CASE p \notin Group(h)
    <3>1. \A o \in DOMAIN obj'[p] : Coherent(p, obj'[p][o])
      BY <1>2, <2>1 DEF Ranked
    <3>2. QED
      BY <1>2, <1>3, <2>1, <2>2, <3>1, RankedStep
  <2>3. CASE p \in Group(h)
    <3>1. Known(p)'
      BY <1>2, <1>3, <2>1, <2>3, Names DEF Known, Ranked
    <3>2. \A x : Coherent(p, x) => Coherent(p, x)'
      BY <1>2, SameCoherent
    <3>3. QED
      BY <1>2, <2>1, <3>1, <3>2, SameMembers DEF Ranked
  <2>4. QED
    BY <2>2, <2>3
<1>5. Agreed'
  BY <1>3, Names, AgreedStep DEF RankInv
<1>6. QED
  BY <1>2, <1>4, <1>5, SameMembers DEF RankInv

(* The other steps: p's objects change, and communicators may go that      *)
(* nobody holds any more.                                                  *)
LEMMA ObjectRanks ==
  ASSUME IInv, IInv', RankInv, NEW p \in Ranks, lib' = lib,
         DOMAIN members' = Handles, held' \in [Ranks -> SUBSET Handles],
         \A h \in Handles : members'[h] = members[h] \/ members'[h] = <<>>,
         \A q \in Ranks : held'[q] \subseteq held[q] /\ \A h \in held'[q] : members'[h] = members[h],
         \A q \in Ranks : q # p => held'[q] = held[q] /\ obj'[q] = obj[q],
         \A o \in DOMAIN obj'[p] : Coherent(p, obj'[p][o]),
         p \notin DOMAIN call', DOMAIN call' \subseteq DOMAIN call,
         \A q \in DOMAIN call' : call'[q] = call[q]
  PROVE  RankInv'
<1>1. ASSUME NEW q \in Ranks PROVE Ranked(q)'
  <2>1. Sound(q) /\ Sound(q)' /\ Ranked(q)
    BY DEF IInv, RankInv
  <2>2. \A o \in DOMAIN obj'[q] : Coherent(q, obj'[q][o])
    BY <2>1 DEF Ranked
  <2>3. q \in DOMAIN call' => q \in DOMAIN call /\ call'[q] = call[q] /\ held'[q] = held[q]
    OBVIOUS
  <2>4. QED
    BY <2>1, <2>2, <2>3, RankedStep
<1>2. ASSUME NEW h \in Handles PROVE Numbered(h)'
  <2>1. CASE members'[h] = members[h]
    BY <2>1, SameMembers DEF RankInv
  <2>2. CASE members'[h] = <<>>
    BY <2>2 DEF Numbered
  <2>3. QED
    BY <2>1, <2>2
<1>3. Agreed'
  BY AgreedStep DEF RankInv
<1>4. QED
  BY <1>1, <1>2, <1>3 DEF RankInv

LEMMA FreeFacts ==
  ASSUME RankInv, NEW p \in Ranks, NEW S, Free(p, S)
  PROVE  /\ DOMAIN members' = Handles /\ held' \in [Ranks -> SUBSET Handles]
         /\ \A h \in Handles : members'[h] = members[h] \/ members'[h] = <<>>
         /\ \A q \in Ranks : held'[q] \subseteq held[q] /\ \A h \in held'[q] : members'[h] = members[h]
         /\ \A q \in Ranks : q # p => held'[q] = held[q]
<1>1. held \in [Ranks -> SUBSET Handles]
  BY DEF RankInv
<1>2. held' = [held EXCEPT ![p] = held[p] \ S]
  BY DEF Free
<1>3. members' = [h \in Handles |->
        IF h \in Made /\ \A q \in Ranks : h \notin held'[q] THEN <<>> ELSE members[h]]
  BY DEF Free
<1>4. held' \in [Ranks -> SUBSET Handles]
  BY <1>1, <1>2
<1>5. \A q \in Ranks : held'[q] \subseteq held[q] /\ held'[q] \subseteq Handles
                       /\ (q # p => held'[q] = held[q])
  BY <1>1, <1>2
<1>6. QED
  BY <1>3, <1>4, <1>5

LEMMA NothingFreed ==
  ASSUME RankInv, held' = held, members' = members
  PROVE  /\ DOMAIN members' = Handles /\ held' \in [Ranks -> SUBSET Handles]
         /\ \A h \in Handles : members'[h] = members[h] \/ members'[h] = <<>>
         /\ \A q \in Ranks : held'[q] \subseteq held[q] /\ \A h \in held'[q] : members'[h] = members[h]
         /\ \A q \in Ranks : held'[q] = held[q]
  BY DEF RankInv

(* What a call returns knows its size and rank.                            *)
LEMMA Returned ==
  ASSUME IInv, RankInv, NEW p \in Ranks, p \in DOMAIN call,
         call[p].new # Pending, call[p].new # Null
  PROVE  Coherent(p, Construct(p, call[p].new, TRUE))
<1>1. call[p].new \in Made \union {Junk} /\ (call[p].new \in Made => call[p].new \in held[p])
  BY DEF IInv, Sound, SoundCall
<1>2. PICK h : h = call[p].new
  OBVIOUS
<1>3. h \in Handles \union {Junk} /\ (h \in Handles => h \in held[p] /\ h \in Handles)
  BY <1>1, <1>2, Names
<1>4. h \in Handles => Numbered(h) /\ p \in Group(h)
  BY <1>3 DEF RankInv, Ranked
<1>5. Coherent(p, Construct(p, h, TRUE))
  BY <1>3, <1>4, ConstructCoherent
<1>6. QED
  BY <1>2, <1>5

LEMMA ReturnRanks ==
  ASSUME IInv, IInv', RankInv, NEW p \in Ranks, Return(p) PROVE RankInv'
<1>1. PICK o, x : o = call[p].into /\ x = Construct(p, call[p].new, TRUE)
  OBVIOUS
<1>2. /\ p \in DOMAIN call /\ call[p].new # Pending
      /\ call' = Without(call, p) /\ lib' = lib /\ held' = held /\ members' = members
      /\ obj' = IF call[p].new = Null THEN obj ELSE [obj EXCEPT ![p] = With(@, o, x)]
  BY <1>1 DEF Return
<1>3. DOMAIN call' = DOMAIN call \ {p} /\ \A q \in DOMAIN call : q # p => call'[q] = call[q]
  BY <1>2, WithoutFacts
<1>4. Ranked(p) /\ DOMAIN obj = Ranks
  BY DEF RankInv, IInv
<1>5. \A q \in Ranks : q # p => obj'[q] = obj[q]
  BY <1>2
<1>6. \A i \in DOMAIN obj'[p] : Coherent(p, obj'[p][i])
  <2>1. CASE call[p].new = Null
    BY <1>2, <1>4, <2>1 DEF Ranked
  <2>2. CASE call[p].new # Null
    <3>1. Coherent(p, x)
      BY <1>1, <1>2, <2>2, Returned
    <3>2. obj'[p] = With(obj[p], o, x)
      BY <1>2, <1>4, <2>2
    <3>3. QED
      BY <1>4, <3>1, <3>2 DEF With, Ranked
  <2>3. QED
    BY <2>1, <2>2
<1>7. QED
  BY <1>2, <1>3, <1>5, <1>6, NothingFreed, ObjectRanks

LEMMA FromRawRanks ==
  ASSUME IInv, IInv', RankInv, NEW p \in Ranks, NEW h \in Raw, from_raw(p, h) PROVE RankInv'
<1>1. PICK d, x : d = Place(p) /\ x = Construct(p, h, FALSE)
  OBVIOUS
<1>2. /\ p \notin DOMAIN call /\ call' = call /\ held' = held /\ members' = members /\ lib' = lib
      /\ obj' = [obj EXCEPT ![p] = With(@, d, x)]
  BY <1>1 DEF from_raw, Ready, Idle
<1>3. h \in Handles /\ h \in held[p] /\ Ranked(p) /\ DOMAIN obj = Ranks
  BY Names DEF IInv, Sound, RankInv
<1>4. Numbered(h) /\ p \in Group(h)
  BY <1>3 DEF RankInv, Ranked
<1>5. Coherent(p, x)
  BY <1>1, <1>3, <1>4, ConstructCoherent
<1>6. obj'[p] = With(obj[p], d, x)
  BY <1>2, <1>3
<1>7. \A i \in DOMAIN obj'[p] : Coherent(p, obj'[p][i])
  BY <1>3, <1>5, <1>6 DEF With, Ranked
<1>8. \A q \in Ranks : q # p => obj'[q] = obj[q]
  BY <1>2
<1>9. QED
  BY <1>2, <1>7, <1>8, NothingFreed, ObjectRanks

LEMMA DestroyRanks ==
  ASSUME IInv, IInv', RankInv, NEW p \in Ranks, NEW o, Destroy(p, o) PROVE RankInv'
<1>1. /\ p \notin DOMAIN call /\ call' = call /\ lib' = lib
      /\ obj' = [obj EXCEPT ![p] = Without(@, o)]
  BY DEF Destroy, Ready, Idle
<1>2. PICK S : Free(p, S)
  BY DEF Destroy
<1>3. Ranked(p) /\ DOMAIN obj = Ranks
  BY DEF IInv, RankInv
<1>4. obj'[p] = Without(obj[p], o) /\ \A q \in Ranks : q # p => obj'[q] = obj[q]
  BY <1>1, <1>3
<1>5. \A i \in DOMAIN obj'[p] : Coherent(p, obj'[p][i])
  BY <1>3, <1>4 DEF Without, Ranked
<1>6. QED
  BY <1>1, <1>2, <1>4, <1>5, FreeFacts, ObjectRanks

(* A move hands the size and the rank on with the handle.                  *)
LEMMA HandOverCoherent ==
  ASSUME IInv, RankInv, NEW p \in Ranks, NEW o \in DOMAIN obj[p], NEW d, HandOver(p, o, d)
  PROVE  /\ \A i \in DOMAIN obj'[p] : Coherent(p, obj'[p][i])
         /\ \A q \in Ranks : q # p => obj'[q] = obj[q]
<1>1. Ranked(p) /\ DOMAIN obj = Ranks
  BY DEF IInv, RankInv
<1>2. obj' = [obj EXCEPT ![p] = With(With(obj[p], d, obj[p][o]), o, Moved)]
  BY DEF HandOver
<1>3. obj'[p] = With(With(obj[p], d, obj[p][o]), o, Moved) /\ \A q \in Ranks : q # p => obj'[q] = obj[q]
  BY <1>1, <1>2
<1>4. \A i \in DOMAIN obj'[p] : obj'[p][i] = Moved \/ \E j \in DOMAIN obj[p] : obj'[p][i] = obj[p][j]
  BY <1>3 DEF With
<1>5. QED
  BY <1>1, <1>3, <1>4, MovedCoherent DEF Ranked

LEMMA MoveConstructRanks ==
  ASSUME IInv, IInv', RankInv, NEW p \in Ranks, NEW o, NEW d, MoveConstruct(p, o, d) PROVE RankInv'
<1>1. /\ p \notin DOMAIN call /\ call' = call /\ held' = held /\ members' = members /\ lib' = lib
      /\ o \in DOMAIN obj[p] /\ HandOver(p, o, d)
  BY DEF MoveConstruct, Ready, Idle
<1>2. QED
  BY <1>1, HandOverCoherent, NothingFreed, ObjectRanks

LEMMA OverwriteRanks ==
  ASSUME IInv, IInv', RankInv, NEW p \in Ranks, NEW o, NEW d, NEW S, Overwrite(p, o, d, S)
  PROVE  RankInv'
<1>1. p \notin DOMAIN call /\ call' = call /\ lib' = lib /\ o \in DOMAIN obj[p]
  BY DEF Overwrite, Ready, Idle
<1>2. CASE o = d
  <2>1. held' = held /\ obj' = obj /\ members' = members
    BY <1>2 DEF Overwrite
  <2>2. \A i \in DOMAIN obj'[p] : Coherent(p, obj'[p][i])
    BY <2>1 DEF RankInv, Ranked
  <2>3. QED
    BY <1>1, <2>1, <2>2, NothingFreed, ObjectRanks
<1>3. CASE o # d
  <2>1. Free(p, S) /\ HandOver(p, o, d)
    BY <1>3 DEF Overwrite
  <2>2. QED
    BY <1>1, <2>1, HandOverCoherent, FreeFacts, ObjectRanks
<1>4. QED
  BY <1>2, <1>3

LEMMA NextRanks == IInv /\ IInv' /\ RankInv /\ [Next]_vars => RankInv'
<1> SUFFICES ASSUME IInv, IInv', RankInv, [Next]_vars PROVE RankInv'
  OBVIOUS
<1>1. ASSUME NEW p \in Ranks, Call(p) PROVE RankInv'
  BY <1>1, CallRanks
<1>2. ASSUME NEW p \in Ranks, Return(p) PROVE RankInv'
  BY <1>2, ReturnRanks
<1>3. ASSUME NEW p \in Ranks, NEW h \in Raw, from_raw(p, h) PROVE RankInv'
  BY <1>3, FromRawRanks
<1>4. ASSUME NEW p \in Ranks, NEW o, Destroy(p, o) PROVE RankInv'
  BY <1>4, DestroyRanks
<1>5. ASSUME NEW p \in Ranks, NEW o, NEW d, MoveConstruct(p, o, d) PROVE RankInv'
  BY <1>5, MoveConstructRanks
<1>6. ASSUME NEW p \in Ranks, NEW o, NEW d, mpi_MoveAssign(p, o, d) \/ nccl_MoveAssign(p, o, d)
      PROVE  RankInv'
  <2>1. PICK S : Overwrite(p, o, d, S)
    BY <1>6 DEF mpi_MoveAssign, nccl_MoveAssign
  <2>2. QED
    BY <2>1, OverwriteRanks
<1>7. ASSUME NEW h \in Handles, Complete(h) PROVE RankInv'
  BY <1>7, CompleteRanks
<1>8. ASSUME NEW h \in Handles, Fail(h) PROVE RankInv'
  BY <1>8, FailRanks
<1>9. CASE UNCHANGED vars
  <2>1. lib' = lib /\ members' = members /\ held' = held /\ obj' = obj /\ call' = call
    BY <1>9 DEF vars
  <2>2. \A p \in Ranks : \A o \in DOMAIN obj'[p] : Coherent(p, obj'[p][o])
    BY <2>1 DEF RankInv, Ranked
  <2>3. \A p \in Ranks : Ranked(p)'
    BY <2>1, <2>2, RankedStep DEF IInv, RankInv
  <2>4. Agreed'
    BY <2>1, AgreedStep DEF RankInv
  <2>5. QED
    BY <2>1, <2>3, <2>4, SameMembers DEF RankInv
<1>10. QED
  BY <1>1, <1>2, <1>3, <1>4, <1>5, <1>6, <1>7, <1>8, <1>9 DEF Next

THEOREM RankInvariance == LeavesNoHandle /\ Spec => []RankInv
  BY InitRanks, NextRanks, Invariance, PTL DEF Spec

-----------------------------------------------------------------------------
(* Objects, handles and calls have their types, and no communicator lists  *)
(* a rank twice.                                                           *)
THEOREM TypeCorrect == LeavesNoHandle /\ Spec => []TypeOK
<1>1. ASSUME IInv, RankInv PROVE TypeOK
  <2>1. \A h \in Handles : members[h] \in Seq(Ranks) /\ Cardinality(Group(h)) = Len(members[h])
    BY <1>1, GroupSize DEF RankInv, Numbered
  <2>2. \A p \in Ranks : DOMAIN obj[p] \subseteq Objects[p]
                         /\ \A o \in DOMAIN obj[p] : obj[p][o] \in Object
    BY <1>1 DEF IInv, Sound, RankInv, Ranked, Coherent
  <2>3. \A p \in DOMAIN call : call[p].on \in Handles /\ call[p].into \in Objects[p] \ DOMAIN obj[p]
                            /\ call[p].new \in Handles \union {Null, Junk, Pending}
    BY <1>1, Names DEF IInv, Sound, SoundCall, RankInv, Ranked, Known
  <2>4. QED
    BY <1>1, <2>1, <2>2, <2>3 DEF TypeOK, IInv, RankInv
<1>2. QED
  BY <1>1, Invariance, RankInvariance, PTL

(* The size and the rank that an object keeps are those that MPI or NCCL   *)
(* would answer, whichever constructor, move or assignment it has been     *)
(* through and whatever became of other communicators.                     *)
THEOREM CachesCoherent == LeavesNoHandle /\ Spec => []CacheCoherent
<1>1. ASSUME IInv, RankInv, NEW p \in Ranks, NEW o \in DOMAIN obj[p],
             obj[p][o].comm \in Handles
      PROVE  LET x == obj[p][o] IN
             x.size = Len(members[x.comm]) /\ x.rank < x.size /\ members[x.comm][x.rank + 1] = p
  <2>1. PICK x, h : x = obj[p][o] /\ h = x.comm
    OBVIOUS
  <2>2. x.size = Len(members[h]) /\ x.rank = RankIn(p, h) /\ h \in Handles
    BY <1>1, <2>1 DEF RankInv, Ranked, Coherent
  <2>3. h \in held[p] /\ p \in Group(h) /\ Numbered(h)
    BY <1>1, <2>1 DEF IInv, Sound, SoundObject, RankInv, Ranked
  <2>4. x.rank \in 0 .. Len(members[h]) - 1 /\ members[h][x.rank + 1] = p
        /\ Len(members[h]) \in 0 .. Cardinality(Ranks)
    BY <2>2, <2>3, RankFacts, GroupSize
  <2>5. Cardinality(Ranks) \in Nat
    BY CommunicatorAssumption, FS_CardinalityType
  <2>6. x.rank < x.size
    BY <2>2, <2>4, <2>5
  <2>7. QED
    BY <2>1, <2>2, <2>4, <2>6
<1>2. IInv /\ RankInv => CacheCoherent
  BY <1>1 DEF CacheCoherent, RankInv, Ranked, Coherent
<1>3. QED
  BY <1>2, Invariance, RankInvariance, PTL

(* The duplicate of a communicator numbers the ranks as the original does, *)
(* also with NCCL, where it is made by a split.                            *)
THEOREM DuplicateKeeps == LeavesNoHandle /\ Spec => DuplicateKeepsRank
<1>1. ASSUME IInv, RankInv, [Next]_vars, NEW p \in Ranks,
             p \in DOMAIN call, p \notin DOMAIN call', call[p].dup, call[p].new \in Made
      PROVE  /\ call[p].into \in DOMAIN obj'[p]
             /\ obj'[p][call[p].into].rank = RankIn(p, call[p].on)
             /\ obj'[p][call[p].into].size = Len(members[call[p].on])
  <2>1. Return(p)
    <3>1. ~ UNCHANGED vars
      BY <1>1 DEF vars
    <3>2. \A q, h, colour, key, dup : ~ Enter(q, h, colour, key, dup)
      BY <1>1 DEF Enter, With
    <3>3. \A q \in Ranks : ~ Call(q)
      BY <3>2 DEF Call, mpi_duplicate_from_raw, nccl_duplicate_from_raw, SplitToDuplicate,
                  split_from_raw, mpi_duplicate, nccl_duplicate, split
    <3>4. ASSUME NEW q \in Ranks, Return(q) PROVE q = p
      <4>1. DOMAIN call' = DOMAIN call \ {q}
        BY <3>4, WithoutFacts DEF Return
      <4>2. QED
        BY <1>1, <4>1
    <3>5. \A h : ~ Complete(h) /\ ~ Fail(h)
      BY <1>1 DEF Complete, Fail
    <3>6. \A q, h, o, d : /\ ~ from_raw(q, h) /\ ~ Destroy(q, o) /\ ~ MoveConstruct(q, o, d)
                          /\ ~ mpi_MoveAssign(q, o, d) /\ ~ nccl_MoveAssign(q, o, d)
      BY <1>1, ZenonT(30) DEF from_raw, Destroy, MoveConstruct, mpi_MoveAssign, nccl_MoveAssign, Overwrite
    <3>7. QED
      BY <1>1, <3>1, <3>3, <3>4, <3>5, <3>6 DEF Next
  <2>2. PICK o, x, h : o = call[p].into /\ h = call[p].new /\ x = Construct(p, h, TRUE)
    OBVIOUS
  <2>3. members[h] = members[call[p].on] /\ InGroup(p, h) /\ h # Null
    BY <1>1, <2>2, Names DEF IInv, Sound, SoundCall, RankInv, Ranked, Known, InGroup
  <2>4. x.rank = RankIn(p, call[p].on) /\ x.size = Len(members[call[p].on])
    BY <2>2, <2>3 DEF Construct, RankIn
  <2>5. obj'[p] = With(obj[p], o, x)
    BY <1>1, <2>1, <2>2, <2>3 DEF Return, IInv
  <2>6. o \in DOMAIN obj'[p] /\ obj'[p][o] = x
    BY <2>5 DEF With
  <2>7. QED
    BY <2>2, <2>4, <2>6
<1>2. IInv /\ RankInv /\ [Next]_vars =>
        [\A p \in Ranks :
           p \in DOMAIN call /\ p \notin DOMAIN call' /\ call[p].dup /\ call[p].new \in Made
           => /\ call[p].into \in DOMAIN obj'[p]
              /\ obj'[p][call[p].into].rank = RankIn(p, call[p].on)
              /\ obj'[p][call[p].into].size = Len(members[call[p].on])]_vars
  BY <1>1
<1>3. QED
  BY <1>2, Invariance, RankInvariance, PTL DEF Spec, DuplicateKeepsRank
=============================================================================
