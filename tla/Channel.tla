------------------------------ MODULE Channel ------------------------------
(***************************************************************************)
(* `Channel<MpiSpace>` (mpi/channel.hpp) on the ranks of a communicator:   *)
(* the persistent requests each channel object owns, the buffers they name, *)
(* the device work of the program, and the MPI library that matches sends  *)
(* with receives.  Every rank registers its operations, repeats start and  *)
(* wait for some rounds, may move the channel to another object at any     *)
(* time, and destroys it at the end.                                       *)
(*                                                                         *)
(* All operations of a rank go to one rank, come from one rank and have    *)
(* one tag, so MPI matches them in the order in which they were started.   *)
(***************************************************************************)
EXTENDS Integers, Sequences, FiniteSets, Functions

CONSTANTS
  Ranks,
  Dst, Src,  \* dst_rank_ and src_rank_ of each rank's channel
  Pattern,   \* Pattern[p]: "send" or "recv" for each operation p registers
  Rounds,    \* bound: how often the program repeats start and wait
  Objects    \* where a rank keeps Channel objects

Ops(p) == DOMAIN Pattern[p]
Spare == 0   \* an operation registered on another object, never started

(* The elements of a finite set of numbers, in ascending order.            *)
InOrder(T) ==
  CHOOSE s \in [1 .. Cardinality(T) -> T] :
    \A i, j \in 1 .. Cardinality(T) : i < j => s[i] < s[j]

Sends(p) == InOrder({i \in Ops(p) : Pattern[p][i] = "send"})
Recvs(p) == InOrder({i \in Ops(p) : Pattern[p][i] = "recv"})

ASSUME ChannelAssumption ==
  /\ Dst \in [Ranks -> Ranks] /\ Src \in [Ranks -> Ranks]
  /\ \A p \in Ranks : Dst[Src[p]] = p /\ Src[Dst[p]] = p
  /\ \A p \in Ranks : Pattern[p] \in Seq({"send", "recv"})
  /\ \A p \in Ranks : Len(Recvs(p)) = Len(Sends(Src[p]))
  /\ Rounds \in Nat

VARIABLES
  alive,     \* alive[p]: the Channel objects that exist
  requests,  \* requests[p][c]: requests_
  statuses,  \* statuses[p][c]: the length of statuses_
  home,      \* home[p]: the object the program uses
  state,     \* state[p][i]: "none", "inactive", "active", "complete", "freed"
  net,       \* net[p]: p's sends that are not matched, <<operation, data>>
  posted,    \* posted[p]: p's receives that are not matched
  buffer,    \* buffer[p][i]: what the view of operation i holds
  kernel,    \* kernel[p]: device work that fills the send and resets the
             \* receive buffers: "todo", "running" or "done"
  started, done  \* started[p], done[p]: the rounds p has started, finished

object == <<alive, requests, statuses, home>>
library == <<state, net, posted>>
vars == <<object, library, buffer, kernel, started, done>>

-----------------------------------------------------------------------------
Data == Ranks \X Nat \X (0 .. Rounds)   \* the rank, its operation, the round
Blank == <<>>                           \* what a view holds before, and after a reset
Unread == <<"unread">>                  \* a send whose buffer MPI has yet to read

Init ==
  /\ \E c \in Objects : home = [p \in Ranks |-> c]
  /\ alive = [p \in Ranks |-> {home[p]}]
  /\ requests = [p \in Ranks |-> [c \in Objects |-> <<>>]]
  /\ statuses = [p \in Ranks |-> [c \in Objects |-> 0]]
  /\ state = [p \in Ranks |-> [i \in Ops(p) \union {Spare} |-> "none"]]
  /\ net = [p \in Ranks |-> <<>>]
  /\ posted = [p \in Ranks |-> <<>>]
  /\ buffer = [p \in Ranks |-> [i \in Ops(p) |-> Blank]]
  /\ kernel = [p \in Ranks |-> "todo"]
  /\ started = [p \in Ranks |-> 0]
  /\ done = [p \in Ranks |-> 0]

(* Faulty variant: statuses_ is not resized.                               *)
Add_NoResize(p, c, i) ==
  /\ state[p][i] = "none"
  /\ requests' = [requests EXCEPT ![p][c] = Append(@, i)]
  /\ state' = [state EXCEPT ![p][i] = "inactive"]
  /\ UNCHANGED <<alive, statuses, home, net, posted, buffer, kernel, started, done>>

(* sendinit, recvinit: MPI_Send_init or MPI_Recv_init into a new element   *)
(* of requests_, and as many statuses as requests.                         *)
Add(p, c, i) ==
  /\ state[p][i] = "none"
  /\ requests' = [requests EXCEPT ![p][c] = Append(@, i)]
  /\ statuses' = [statuses EXCEPT ![p][c] = Len(requests[p][c]) + 1]
  /\ state' = [state EXCEPT ![p][i] = "inactive"]
  /\ UNCHANGED <<alive, home, net, posted, buffer, kernel, started, done>>

Registered(p) == Len(requests[p][home[p]])

Register(p) ==
  /\ home[p] \in alive[p]
  /\ Registered(p) < Len(Pattern[p])
  /\ Add(p, home[p], Registered(p) + 1)

RegisterSpare(p) == \E c \in alive[p] \ {home[p]} : Add(p, c, Spare)

(* The program launches the kernels of the next round, which run behind    *)
(* its back.                                                               *)
Launch(p) ==
  /\ kernel[p] = "todo" /\ started[p] = done[p] /\ done[p] < Rounds
  /\ kernel' = [kernel EXCEPT ![p] = "running"]
  /\ UNCHANGED <<object, library, buffer, started, done>>

KernelDone(p) ==
  /\ kernel[p] = "running"
  /\ kernel' = [kernel EXCEPT ![p] = "done"]
  /\ buffer' = [buffer EXCEPT ![p] =
       [i \in Ops(p) |-> IF Pattern[p][i] = "send" THEN <<p, i, done[p] + 1>> ELSE Blank]]
  /\ UNCHANGED <<object, library, started, done>>

-----------------------------------------------------------------------------
Held(p) == requests[p][home[p]]

(* MPI_Startall on the operations s of p, in order.                        *)
StartAll(p, s) ==
  /\ state' = [state EXCEPT ![p] =
       [i \in DOMAIN @ |-> IF i \in Range(s) THEN "active" ELSE @[i]]]
  /\ LET kind(k) == LET at == InOrder({h \in DOMAIN s : Pattern[p][s[h]] = k})
                    IN  [j \in DOMAIN at |-> s[at[j]]]
         sent == [j \in DOMAIN kind("send") |-> <<kind("send")[j], Unread>>]
     IN  /\ net' = [net EXCEPT ![p] = @ \o sent]
         /\ posted' = [posted EXCEPT ![p] = @ \o kind("recv")]

MayStart(p) == home[p] \in alive[p] /\ Registered(p) = Len(Pattern[p]) /\ started[p] = done[p]

(* Faulty variants: no fence; the sends are not started.                   *)
Start_NoFence(p) ==
  /\ MayStart(p) /\ kernel[p] \in {"running", "done"}
  /\ StartAll(p, Held(p))
  /\ started' = [started EXCEPT ![p] = @ + 1]
  /\ UNCHANGED <<object, buffer, kernel, done>>

Start_ReceivesOnly(p) ==
  /\ MayStart(p) /\ kernel[p] = "done"
  /\ StartAll(p, SelectSeq(Held(p), LAMBDA i : Pattern[p][i] = "recv"))
  /\ started' = [started EXCEPT ![p] = @ + 1]
  /\ UNCHANGED <<object, buffer, kernel, done>>

(* start: the fence waits for the kernels, then all requests start.        *)
Start(p) ==
  /\ MayStart(p) /\ kernel[p] = "done"
  /\ StartAll(p, Held(p))
  /\ started' = [started EXCEPT ![p] = @ + 1]
  /\ UNCHANGED <<object, buffer, kernel, done>>

(* MPI reads the buffer of a send that nobody has received yet, and is     *)
(* done with it.                                                           *)
Copy(p) ==
  \E k \in DOMAIN net[p] :
    LET i == net[p][k][1] IN
    /\ net[p][k][2] = Unread
    /\ net' = [net EXCEPT ![p][k][2] = buffer[p][i]]
    /\ state' = [state EXCEPT ![p][i] = "complete"]
    /\ UNCHANGED <<object, posted, buffer, kernel, started, done>>

(* MPI matches the oldest send from p with the oldest receive posted there. *)
Deliver(p) ==
  LET q == Dst[p]
      i == Head(net[p])[1]
      j == Head(posted[q])
      unread == Head(net[p])[2] = Unread
      data == IF unread THEN buffer[p][i] ELSE Head(net[p])[2]
      over == {<<q, j>>} \union IF unread THEN {<<p, i>>} ELSE {}
  IN  /\ net[p] # <<>> /\ posted[q] # <<>>
      /\ net' = [net EXCEPT ![p] = Tail(@)]
      /\ posted' = [posted EXCEPT ![q] = Tail(@)]
      /\ buffer' = [buffer EXCEPT ![q][j] = data]
      /\ state' = [r \in Ranks |-> [o \in DOMAIN state[r] |->
           IF <<r, o>> \in over THEN "complete" ELSE state[r][o]]]
      /\ UNCHANGED <<object, kernel, started, done>>

WaitFor(p, s) ==
  /\ started[p] > done[p]
  /\ \A i \in s : state[p][i] \in {"complete", "inactive"}
  /\ state' = [state EXCEPT ![p] = [i \in DOMAIN @ |-> IF i \in s THEN "inactive" ELSE @[i]]]
  /\ done' = [done EXCEPT ![p] = @ + 1]
  /\ kernel' = [kernel EXCEPT ![p] = "todo"]
  /\ UNCHANGED <<object, net, posted, buffer, started>>

(* Faulty variant: only the receives are waited for.                       *)
Wait_ReceivesOnly(p) ==
  WaitFor(p, {i \in Range(Held(p)) : Pattern[p][i] = "recv"})

(* wait: MPI_Waitall; persistent requests become inactive again.           *)
Wait(p) == WaitFor(p, Range(Held(p)))

-----------------------------------------------------------------------------
(* release_requests: every persistent request is freed.                    *)
Release(p, c) ==
  state' = [state EXCEPT ![p] =
    [i \in DOMAIN @ |-> IF i \in Range(requests[p][c]) THEN "freed" ELSE @[i]]]

(* Both moves take the vectors out of the source, which stays as an empty  *)
(* channel.                                                                *)
Adopt(p, d) ==
  /\ requests' = [requests EXCEPT ![p][d] = Held(p), ![p][home[p]] = <<>>]
  /\ statuses' = [statuses EXCEPT ![p][d] = statuses[p][home[p]], ![p][home[p]] = 0]
  /\ alive' = [alive EXCEPT ![p] = @ \union {d}]
  /\ home' = [home EXCEPT ![p] = d]
  /\ UNCHANGED <<net, posted, buffer, kernel, started, done>>

MoveConstruct(p) ==
  /\ home[p] \in alive[p]
  /\ \E d \in Objects \ alive[p] : Adopt(p, d)
  /\ UNCHANGED state

(* Faulty variant: what the target owned is forgotten.                     *)
MoveAssign_NoRelease(p) ==
  /\ home[p] \in alive[p]
  /\ \E d \in alive[p] \ {home[p]} : Adopt(p, d)
  /\ UNCHANGED state

MoveAssign(p) ==
  /\ home[p] \in alive[p]
  /\ \E d \in alive[p] \ {home[p]} : Release(p, d) /\ Adopt(p, d)

(* ~Channel.  The program keeps its channel until the last round is over.  *)
Destroy(p) ==
  \E c \in alive[p] :
    /\ c = home[p] => done[p] = Rounds
    /\ Release(p, c)
    /\ requests' = [requests EXCEPT ![p][c] = <<>>]
    /\ statuses' = [statuses EXCEPT ![p][c] = 0]
    /\ alive' = [alive EXCEPT ![p] = @ \ {c}]
    /\ UNCHANGED <<home, net, posted, buffer, kernel, started, done>>

-----------------------------------------------------------------------------
(* A rank whose program moves on: it registers, computes, starts, waits.   *)
Cycle(p) == Register(p) \/ Launch(p) \/ KernelDone(p) \/ Start(p) \/ Wait(p)

Next ==
  \E p \in Ranks :
    \/ Cycle(p) \/ Copy(p) \/ Deliver(p)
    \/ RegisterSpare(p) \/ MoveConstruct(p) \/ MoveAssign(p) \/ Destroy(p)

Spec == Init /\ [][Next]_vars

(* Every rank's program goes through its rounds, and MPI delivers.         *)
FairSpec == Spec /\ \A p \in Ranks : WF_vars(Cycle(p)) /\ WF_vars(Deliver(p))

-----------------------------------------------------------------------------
(* Types, and that statuses_ has room for what MPI_Waitall writes.         *)
TypeOK ==
  /\ \A p \in Ranks :
       /\ alive[p] \subseteq Objects /\ home[p] \in Objects
       /\ \A c \in Objects : requests[p][c] \in Seq(Ops(p) \union {Spare})
       /\ \A c \in Objects : statuses[p][c] = Len(requests[p][c])
       /\ state[p] \in [Ops(p) \union {Spare} ->
                          {"none", "inactive", "active", "complete", "freed"}]
       /\ net[p] \in Seq(Ops(p) \X (Data \union {Unread, Blank}))
       /\ posted[p] \in Seq(Ops(p))
       /\ buffer[p] \in [Ops(p) -> Data \union {Blank}]
  /\ kernel \in [Ranks -> {"todo", "running", "done"}]
  /\ started \in [Ranks -> 0 .. Rounds] /\ done \in [Ranks -> 0 .. Rounds]

(* Between wait and the next start MPI touches none of the buffers: the    *)
(* program may write the send buffers and read the receive buffers.        *)
QuietBetweenRounds ==
  \A p \in Ranks : started[p] = done[p] =>
    /\ \A i \in Ops(p) : state[p][i] \notin {"active", "complete"}
    /\ \A k \in DOMAIN net[p] : net[p][k][2] # Unread
    /\ posted[p] = <<>>

(* Where a living channel of p keeps the request of operation i.           *)
Owners(p, i) ==
  UNION {{c} \X {k \in DOMAIN requests[p][c] : requests[p][c][k] = i} : c \in alive[p]}

(* A channel exclusively owns its persistent requests: through all moves   *)
(* each has one owner until it is freed, and none is leaked.               *)
OneOwner ==
  \A p \in Ranks : \A i \in Ops(p) \union {Spare} :
    Cardinality(Owners(p, i)) = IF state[p][i] \in {"none", "freed"} THEN 0 ELSE 1

(* Every rank gets through all its rounds: no interleaving of the ranks    *)
(* leaves one waiting for ever.                                            *)
AllRoundsEnd == \A p \in Ranks : <>(done[p] = Rounds)

-----------------------------------------------------------------------------
(* Ranks that are rounds apart, a library that may copy early or late, and *)
(* moves of the channel: a rank still gets what its source sent in the     *)
(* same round.                                                             *)
Kept(p) == IF started[p] = done[p] /\ done[p] > 0 /\ kernel[p] # "done"
           THEN [j \in DOMAIN Recvs(p) |-> buffer[p][Recvs(p)[j]]]
           ELSE <<>>

Exchange == INSTANCE NeighbourExchange WITH
  Sent <- [p \in Ranks |-> [c \in 1 .. Rounds |->
            [j \in DOMAIN Recvs(p) |-> <<Src[p], Sends(Src[p])[j], c>>]]],
  got <- [p \in Ranks |-> Kept(p)]

KeepsExchange == Exchange!Spec
=============================================================================
