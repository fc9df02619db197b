# A TLA+ model of Kokkos Comm

Kokkos Comm is a header-only C++ layer that lets Kokkos programs pass views to MPI and to NCCL. It packs
strided views, fences execution spaces, keeps views alive while a library uses them, and wraps
communicators, requests and persistent operations. This directory holds TLA+ modules of the parts of it
that have state, the TLC configurations that check them, and proofs for TLAPS. Paths below are relative
to `src/src/KokkosComm/` unless they start with `src/`.

## 1. Inventory

| Part | State it keeps | Operations | Interacts with |
|---|---|---|---|
| MPI requests, `mpi/request.hpp` | `request_` (an `MPI_Request`), `callbacks_` | constructor, `add_callback`, `extend_view_lifetime`, `wait`, `test`, `wait_all`, `wait_any`, moves, destructor | the MPI library completes and frees handles; callbacks own shares of views |
| MPI non-blocking calls, `mpi/isend.hpp`, `irecv.hpp`, `reduce.hpp`, `broadcast.hpp`, `allgather.hpp`, `allreduce.hpp`, `alltoall.hpp` | none; they build a Request | start | packer, fences, MPI |
| NCCL requests, `nccl/request.hpp` | `request_` (a `cudaEvent_t`), `callbacks_` | the same, and `capture_stream_state` | CUDA streams and events |
| NCCL calls, `nccl/*.hpp` | none | enqueue on a stream, capture it | packer, NCCL |
| Channels, `mpi/channel.hpp` | `requests_`, `statuses_`, peer ranks | `sendinit`, `recvinit`, `start`, `wait`, moves, destructor | persistent MPI requests, device kernels |
| Communicators, `mpi/communicator.hpp`, `nccl/communicator.hpp` | handle, `owned_`, cached size and rank | `from_raw`, `split`, `duplicate`, moves, destructor | MPI and NCCL communicators |
| Blocking calls, `mpi/send.hpp`, `recv.hpp`, `reduce.hpp`, `scan.hpp`, ... | none | check, fence, pack, call, unpack | packer, execution space, MPI |
| Packing and layout, `impl/contiguous.hpp`, `mpi/impl/packer.hpp`, `nccl/impl/packer.hpp`, `traits.hpp` | none | allocate, pack, unpack, span | Kokkos |
| Compile-time tables, `datatype.hpp`, `reduction_op.hpp`, `concepts.hpp`, `fwd.hpp` | none | template dispatch | |
| Error handling, `*/impl/error_handling.hpp` | none | `fail_if`, check macros | ends the program |

What is hard here:

* Buffers in use by a library belong to nobody in particular. MPI or a stream reads and writes them after
  the call has returned; only callbacks hold them, and callbacks move between Request objects, are run,
  and are cleared.
* Handles are values. MPI and CUDA free them behind or through the object that stores them, and give the
  same value to a later operation. A stored copy becomes stale without any sign.
* Completion happens at any time and in any order (MPI), or in stream order (CUDA), while one thread is
  between two steps of a call.
* Ranks run apart: in a channel one rank can be a round ahead while a message of the last round is still
  travelling, and device kernels that fill the buffers run behind the program's back.
* Exceptions from callbacks, and objects that are moved from, overwritten or destroyed at a bad moment.

What makes each part correct: for requests, memory outlives the operation, each callback runs once, after
the operation and in order of registration, no dead handle is used, a completion call means completed,
and calls return. For channels, each round's receive gets the same round's send, buffers are quiet
between rounds, persistent requests have one owner and none leaks, and all ranks get through their
rounds. For communicators, each handle made by the library is released once and a borrowed one never, size
and rank are those of the handle, and a duplicate keeps the order of ranks. For blocking calls and
collectives, each rank ends with the data that its peers contributed to the matching call, MPI and the
kernels of the execution space keep out of each other's buffers, and no rank waits for one that does not
come. For packing, elements keep their index and memory around a view is left alone.

## 2. Modules

| Module | Stands for |
|---|---|
| `RequestContract` | what a Request promises its holder: the abstract specification of both request modules |
| `MpiRequest` | `Request<MpiSpace>` and the non-blocking MPI calls on one rank |
| `MCMpiRequest` | operations for TLC |
| `Orderings` | lemmas on things in order, for four of the proof modules: lists of callbacks in order of registration, the processes of a group, the operations of a channel |
| `MpiRequestProofs` | the inductive invariant of `MpiRequest`; proofs of types, safety, order of callbacks, and that `MpiRequest` implements `RequestContract` |
| `NcclRequest`, `MCNcclRequest` | `Request<NcclSpace>` and the NCCL calls on one rank; operations for TLC |
| `NcclRequestProofs` | the inductive invariant of documented use; proofs of safety and that `NcclRequest` implements `RequestContract`; then of types and `CallbackOnce` for every program, moves and `wait_all` included |
| `NeighbourExchange` | what a channel promises ranks that use it in rounds |
| `Channel`, `MCChannel` | `Channel<MpiSpace>` on all ranks, with the MPI matching of persistent operations; a ring for TLC |
| `ChannelProofs` | the inductive invariant of `Channel`; proofs of types, quiet buffers, ownership, and that `Channel` implements `NeighbourExchange` |
| `Communicator`, `MCCommunicator` | `Communicator` for both libraries, on all ranks; three ranks for TLC |
| `CommunicatorProofs` | two inductive invariants of `Communicator`; proofs of ownership, types, cached sizes and ranks, and ranks of duplicates |
| `Delivery` | what the calls promise a program on several ranks: the abstract specification of `BlockingCalls` |
| `BlockingCalls`, `MCBlockingCalls` | the blocking calls, and messages blocking or not, on all ranks with their execution spaces; programs for TLC |
| `BlockingCallsProofs` | the inductive invariant of `BlockingCalls`; proofs of types, that the fences keep kernels and MPI apart, and that results come in the order of the calls |
| `DeliveryProofs` | the invariant on messages, collectives and data; proof that `BlockingCalls` implements `Delivery` |
| `Packing`, `MCPacking` | strides, spans, packed copies and element order between two views; shapes for TLC |
| `PackingProofs` | folds over extents as functions, strides that keep elements apart; proofs of all properties of `Packing` |

The modules meet in the calls. `MpiRequest` and `NcclRequest` look at one rank and at who holds memory;
`BlockingCalls` looks at several ranks and at when buffers are used, and reduces a Request to its `wait`;
`Packing` opens up the view that the others treat as one value; `Communicator` provides the rank numbers
that the others take as given.

### MpiRequest

`cell[r]` says what is in a storage location: nothing, a Request that owns an operation, a moved-from
Request, or one whose handle was completed through a copy. `handle[r]` and `callbacks[r]` are `request_`
and `callbacks_`; `repr[r]` remembers which operation the object stands for. `opState` and `bound` are
the MPI library: an operation is idle, active, complete or freed, and a handle value stands for at most
one operation, and for another one later. `scope` is the set of views the program itself still holds; a
buffer is allocated while it is in `scope` or captured by a callback of an object (`Allocated`).

`Call[o]` is the call that starts operation `o`: its function, whether its views are contiguous and own
their memory, and whether this rank is the root. From it follow which views are packed, which buffers MPI
gets (`MpiUses`), and which callbacks the fresh Request carries, in order (`Registered`).

The calls are split where the MPI library or another event of the model can come in between. `Enter` is
the start of a completion call; the call blocks until `Done`; `CompleteOwn` is `MPI_Wait`
on `request_` itself (`Test` is `MPI_Test`, on whatever `request_` holds), `CompleteCopies` is `MPI_Waitall` or `MPI_Waitany` on the vector of copies that
`wait_all` and `wait_any` build; then `RunCallback` and `ClearCallbacks` are the loop and the `clear()`
of `execute_all_callbacks`, object by object for `wait_all`. A `test` that returns false changes nothing
and is not an action. Moves are as the compiler generates them: the vector leaves the source, the
`MPI_Request` value does not.

`Beyond` lists what the program may do beyond documented use: use a Request again after `wait_all` or
`wait_any` (`"stale"`), lose a Request that is active (`"drop"`), register a callback that throws
(`"throw"`). The documented program waits for what it starts before it drops it, and drops a view that
does not own its memory only after the operation.

### NcclRequest

The same objects over CUDA. `queue[s]` is what stream `s` has still to execute, in order; a call enqueues
packing and operation as one element, so a strided send view is in use by the stream although it is
packed (`StreamUses`). `events` and `before[e]` are the events that exist and what each was recorded
behind; an event is reached when that set is empty. `Recapture` is `capture_stream_state` on a Request
that has an event, of the operation's own stream or, for some programs, of another. `QueryReady`, `QueryNotReady` and `QueryError` are one `cudaEventQuery` of the polling
loops (for `wait`, the blocking `cudaEventSynchronize`), and `AllNext` is the bookkeeping of `wait_all`'s
two loops with its `remaining`. The fence that ends an unpacking callback waits for the whole stream,
later operations included. Nothing is nulled on completion: `cell[r] = "waited"` is the program's
knowledge that a call has returned for the Request.

`Beyond` here lists two uses that are documented and that the code does not carry: `wait_all` over
several requests (`"many"`) and moves (`"move"`). They are left out of the main passing run because of
the findings below, not because programs avoid them. A third one, `"other"`, is to capture a stream that
is not the operation's: `capture_stream_state` takes any stream, and what the Request then waits for is
up to the program.

### Channel

Every rank has operations in order of registration (`Pattern`), to one destination and from one source.
`requests`, `statuses` and `alive` are the Channel objects; `state` is MPI's view of each persistent
request; `net` holds what was sent and not matched, in order, `posted` the receives not matched, in order;
`InOrder` lists the sends or the receives among the operations in order of registration. MPI may copy a
send early (`Copy`) or read its buffer on delivery (`Deliver`). `Launch` and `KernelDone` are device work
of the program that fills the send buffers and resets the receive buffers, which `start`'s fence has to
wait for. A rank registers, launches, starts and waits for `Rounds` rounds, moves its channel by
construction or assignment at any time between two calls, also in the middle of a round, and destroys it.
A second object may own one persistent request of its own (`Spare`), so that move assignment has something
to release.

### Communicator

`obj[p]` holds the Communicator objects of rank `p`, with `comm_`, `size_`, `rank_` and `owned_`;
`members` and `held` are the library: the processes of each communicator in rank order, and which
communicators a process has not released. `lib` selects the specialization where the two differ: NCCL
duplicates by a split with its rank as key, and MPI's destructor spares the predefined communicators.

A collective call is entered (`Call`, through `split_from_raw`, `SplitToDuplicate`, ...), completed by
the library for all members at once (`Complete`), or failed (`Fail`) under an error handler that returns,
and then goes on in `Return`: `nullopt` for a null handle, otherwise an object that owns what is in
`new_comm`. The code does not initialise `new_comm`, so after a failure it holds any value of the constant
`Left`: null, a value that is never a handle (`Junk`), or the handle of any communicator, as a stack that
is used again may hold one. `LeavesNoHandle` says that `Left` has no handles; the passing run and the
proofs assume it, and `Communicator_failed` shows what happens without it. Moves and assignments are
member-wise, `Destroy` and `Overwrite` release what the object owns. The program makes the same calls on
all members, does not overlap calls on communicators that share processes, has a place for the result,
and comes when it is awaited.

### BlockingCalls

A call is a record: function, layout and extents of its views, root, peer, tag, mode, and the pair `v` of
views it uses. Each C++ overload is the list of steps its code takes, in order (`allgather`, `reduce`,
`recv`, ...), and each step is an action: `Check` (`fail_if`, or the exception of a scan), `Fence`,
`Enqueue` of packing and unpacking, `Enter` and `Leave` of a collective, `Message` and `Finish` of a
message. `Steps` adds what the program does around the function: the fence before the low-level overloads
(`Low`), which know no execution space, and the kernel that uses the result. `queue[p]` is the execution
space: its kernels run later and in order (`Run`), among them one that produces the data of each call and
clears its receive view, and one that consumes what the call brought. `buf` is memory by view and by
packed copy; data is the set of pairs of a rank and a call that contributed. MPI matches messages by peer
and tag in order of posting (`Match`), may or may not buffer a send that is not synchronous, and lets a
rank out of a collective as soon as its own result allows. An `alltoall` has a `sendCount` and a `recvCount`, each
checked against its own view. `BlockingCallsAssumption` is what MPI asks of a
program: it waits at most once for an operation it has started, and uses its views again only after that.

`Delivery` knows neither kernels nor buffers: a rank begins calls, and a supported call delivers what the
matching calls of its peers produced, once those that are needed have begun. Matching is defined there by
counting (the n-th message for a peer and tag, the n-th collective), independently of the queues.

### Packing

A view is an allocation, extents, strides, an offset and the execution space it lives in. `span`, `size`
and `is_contiguous` are those of `traits.hpp` and decide whether a view is packed; `contiguous_view` is
the packed view in the layout of the execution space; the message is the memory of the contiguous view or
of the packed copy, cell by cell. A persistent message (`persistent`) is the span of any view, as in
`sendinit` and `recvinit`. Cells hold the index of the sender's element they come from. `Build`,
`init_view`, `Number` and `count_errors` are the utilities of the unit tests.

## 3. Runs

| Run | What it shows |
|---|---|
| `MpiRequest` | all properties of a documented program: two operations (a reduction that unpacks at the root, the send of a strided view that the program owns), three cells, two handle values |
| `MpiRequest_exceptions` | with throwing callbacks, on the other kinds of call (receive into a strided view, reduction of a strided view away from the root): memory stays safe, no callback that is still to run is lost, only the list of a callback that threw can run again, the order of callbacks holds, calls return |
| `MpiRequest_stale` | violation: after `wait_all` or `wait_any`, a call on the same Request, in the trace `test`, gives MPI a freed handle |
| `NcclRequest` | all properties over streams: three operations on two streams, two cells, two event values |
| `NcclRequest_beyond` | with moves, `wait_all` on several requests and captures of other streams no callback runs twice |
| `NcclRequest_all` | violation: `wait_all` returns with a request pending |
| `NcclRequest_move` | violation: a destroyed event is used after a move |
| `Channel` | two ranks, two messages each way registered in different orders, two rounds, two objects on each rank |
| `Communicator` | both specializations on three ranks, one with two objects, splits into two groups, one of them in two orders, and out of every group: ownership, caches, ranks of duplicates, return of collective calls, with and without failures, as long as these leave no handle in `new_comm` |
| `Communicator_failed` | violation: a call that fails with a live handle in `new_comm` makes a second owner of a communicator |
| `BlockingCalls` | two ranks and 889 programs: every collective after every other, refused collectives and messages, all pairs of sends against all pairs of receives, non-blocking messages waited for in different orders, exchanges and replies |
| `Packing` | fifteen shapes of one to three dimensions, four kinds of view at both ends, hosts and GPUs, packed and persistent |

Three more configurations are kept beside these for the behaviours of section 4 that they reproduce, and
run by hand: `tlc -config NcclRequest_reduce.cfg MCNcclRequest` (a rank that is not the root has its
receive view overwritten, `OnlyRootReceives` is violated), `tlc -config MpiRequest_drop.cfg MCMpiRequest` (an active Request that is destroyed or
overwritten releases memory in use, `BuffersOutliveOperation` is violated), and
`tlc -config MpiRequest_throw.cfg MCMpiRequest` (after an exception callbacks run twice, `CallbackOnce`
is violated).

Properties, by what they would catch:

* `BuffersOutliveOperation`: a buffer that MPI or the stream uses and nobody holds.
* `NoFreedHandle`, `NoDeadEvent`: a call on a handle or event that the library has freed.
* `FinishedMeansDelivered`, `WaitMeansDelivered`: a completion call that returns with an operation
  pending, or a callback not run or run twice. Over MPI that is said of the callbacks that the library
  registers, since the program may register its own also after the call; over both, `CallbackOnce` is
  about the program's as well.
* `UnpackBeforeUser`: the program's callback that runs before the data is in its view.
* `CallbackOnce`: a callback that runs again.
* `RepeatsOnlyOwn`: after exceptions, a callback that runs again although nothing in its list has thrown.
* `KeptUntilRun`: a completion call that drops a callback, and with it a buffer, without having run it.
* `OneOwner` (of events, of persistent requests, of communicators), `ExactlyOneOwner`: shared, leaked or
  doubly released.
* `KeepsContract`: the request modules implement `RequestContract`. That rules out a callback before its
  operation, a callback on memory that is gone, and memory released under an operation, in one statement.
* `CallsReturn`: a call that waits for ever.
* `QuietBetweenRounds`: MPI still using a buffer after `wait`.
* `KeepsExchange`: `Channel` implements `NeighbourExchange`: each rank gets the same round's data
  whatever the ranks' pace, early or late copying, and moves.
* `AllRoundsEnd`: ranks that wait for each other.
* `BorrowedStays`: a communicator of the program that an object releases.
* `CacheCoherent`: `size_` or `rank_` that are not those of the handle, after whatever splits and moves.
* `DuplicateKeepsRank`: a duplicate with another order of ranks.
* `Quiet`: a queued kernel, of this call or an earlier one, that touches memory MPI is using.
* `KeepsDelivery`: `BlockingCalls` implements `Delivery`: stale, missing or foreign data, a call that
  delivers before its peers came, a refused call that delivers, an abort without cause.
* `AllCallsEnd`: a program that hangs, also with an MPI that buffers nothing.
* `Intact`, `NothingLost`: elements out of place, lost or doubled, and memory overwritten around a view.
* `ErrorsCounted`: a misplaced element that the comparison of the tests does not see.
* `TypeOK` in each module also bounds the cursors of the callback and span loops, and in `Channel` says
  that `statuses_` has room for what `MPI_Waitall` writes, in `BlockingCalls` that a blocking call leaves
  no operation behind, and in `Packing` that views stay in their allocations and messages have the length
  both ends announce.

`CHECK_DEADLOCK FALSE` is set because a program may end.

Bounds. Two operations are enough for what one does to another: one handle value freed and given to the
other, one complete and one pending in a span. Three cells add an empty or moved-from place to move
through. With two operations on one stream and one on another, `NcclRequest` has completion in order, out
of order, and a fence that waits for later work; event values are fewer than operations, so values are
used again. Two rounds let one rank be in round two while the other is in round one; a third cannot
overlap because a round needs the neighbour's start. Two messages each way show matching order. A
callback of the program is registered at most once per operation at a time, and throws only the first
time it runs, which bounds the counts.

Three ranks are the fewest on which a split makes a proper group that can be split or reordered again,
and three handle values are what one call may need; a rank with two objects has assignment over an owner,
onto itself, and a call whose result goes beside an object. In `BlockingCalls` two calls on the same views
show what one leaves for the next (kernels still queued, buffers still in use), and since steps, queues
and matching are per rank or per pair of ranks, two ranks show the interleavings; programs of three and
four calls are there for waits. In `Packing` extents from one to three, with unequal and unit dimensions,
tell layouts apart, and a shape of three dimensions has strides that are neither first nor last.

Fairness. `WF(Inside)`: the thread that is inside a call goes on. `WF(MpiComplete)`, `WF(StreamStep)`,
`WF(Deliver)`: a library that has started an operation, or has a send and its receive, completes it.
`WF(Cycle)` in `Channel`: a rank's program goes through its rounds and the device finishes kernels.
In `Communicator`, a rank that is awaited in a collective call comes, the library completes or fails a
call that all have entered, and the thread in a call goes on. In `BlockingCalls` hosts and execution
spaces go on, and MPI matches what can be matched and completes a collective that all have entered and a
message that was matched; that it buffers a send or lets a rank out early is possible and never assumed.
Nothing is assumed of a program between calls in the request modules.

## 4. Findings

* `wait_all` and `wait_any` over MPI complete a vector of copies (`mpi/request.hpp:137`, `:162`), and
  `request_` keeps a freed handle, which a later `test` gives to MPI (`MpiRequest_stale`): it does not
  return true for a null request, as the comment at `:82` says, since the request is not null.
* The destructor and move assignment of an active MPI Request drop the views it keeps
  (`mpi/request.hpp:33`).
* An exception out of a callback skips `callbacks_.clear()` (`mpi/request.hpp:101`), so callbacks run
  twice.
* NCCL `wait_all` decrements `remaining` for a finished request in every pass (`nccl/request.hpp:154`)
  and returns early.
* NCCL moves are defaulted over a pointer handle that the destructor releases (`nccl/request.hpp:54`).
* NCCL `reduce` unpacks into a strided receive view on every rank (`nccl/reduce.hpp:37`, `:56`), although
  `collective.hpp:83` says that it is ignored where the rank is not the root.
* `new_comm` is not initialised (`mpi/communicator.hpp:44`, `:64`, `nccl/communicator.hpp:44`). Under an
  error handler that returns, a failing split or duplicate is noticed only if the variable happens to hold
  null; `:60` promises `nullopt`. If it holds a live handle, two objects own one communicator
  (`src/docs/api/core.rst:22`: "There is always exactly one owner"), and both free it:
  `Communicator_failed`. If it holds a value that is not a handle, there is an object around that value,
  which the library will be asked to free, and the passing run shows what the other objects keep.

The second and third are reproduced by `MpiRequest_drop.cfg` and `MpiRequest_throw.cfg`, the sixth by
`NcclRequest_reduce.cfg`. Observed while modelling, without a run:

* `src/docs/api/mpi.rst:190` says that the raw `irecv` throws `std::runtime_error` when the view is not
  contiguous. It does not: it calls `fail_if` (`mpi/irecv.hpp:57`), which ends the program
  (`mpi/impl/error_handling.hpp:14`). `Delivery` has the behaviour of the code (`Abort`), and
  `BlockingCalls` has programs with strided views for `irecv_low`, `isend_low` and `recv_low`; the
  documentation of the latter two announces no exception.
* `src/docs/api/packing.rst:31` gives packed views `LayoutLeft`; the code uses the layout of the
  execution space (`impl/contiguous.hpp:21`), so that a message between a host and a GPU, or from a
  contiguous view of the other layout, arrives permuted. `Intact` states when it does not.
* A persistent receive into a strided view overwrites the gaps of that view (`mpi/channel.hpp:74`).
* A scan of a view that is not contiguous throws (`mpi/scan.hpp:32`) where the other collectives abort.
* `recv` and `reduce` return with the unpacking enqueued (`mpi/recv.hpp:40`, `mpi/reduce.hpp:148`):
  `KeepsDelivery` holds for kernels in the same execution space, a host thread has to fence.
* `ialltoall` does not compare its count with the extents (`mpi/alltoall.hpp:37`), `alltoall` does.

## 5. Proofs

The theorems hold for every value of the constants that satisfies the assumption of the module
(`MpiRequestAssumption`, `NcclRequestAssumption`, `CommunicatorAssumption`, `ChannelAssumption`,
`BlockingCallsAssumption`, `FitsAssumption`, `PackingAssumption`): constants have their types, values that mean "none" are not handles, calls that
the code or the library would abort start nothing, in a channel the source of a destination is the rank
itself and a rank registers as many receives as its source registers sends, and a program of blocking calls
waits at most once for what it started, and before it uses the views of it again. A shape is any sequence
of positive extents.
Where a row says "documented", the theorem also assumes `Beyond = {}`; the violating runs show that it is
needed.

| Theorem | Statement | Use |
|---|---|---|
| `MpiRequestProofs!TypeCorrect` | `TypeOK` | any |
| `MpiRequestProofs!BuffersSafe` | `BuffersOutliveOperation` | documented |
| `MpiRequestProofs!HandlesSafe` | `NoFreedHandle` | documented |
| `MpiRequestProofs!DeliveryCorrect` | `FinishedMeansDelivered` | documented |
| `MpiRequestProofs!CallbacksRunOnce` | `CallbackOnce` | documented |
| `MpiRequestProofs!UnpackFirst` | `UnpackBeforeUser` | documented |
| `MpiRequestProofs!UnrunKept` | `KeptUntilRun` | any |
| `MpiRequestProofs!Refinement` | `KeepsContract` | documented |
| `NcclRequestProofs!BuffersSafe` | `BuffersOutliveOperation` | documented |
| `NcclRequestProofs!EventsAlive` | `NoDeadEvent` | documented |
| `NcclRequestProofs!EventsOwned` | `OneOwner` | documented |
| `NcclRequestProofs!WaitDelivers` | `WaitMeansDelivered` | documented |
| `NcclRequestProofs!Refinement` | `KeepsContract` | documented |
| `NcclRequestProofs!TypeCorrect` | `TypeOK` | any |
| `NcclRequestProofs!CallbacksOnce` | `CallbackOnce` | any |
| `CommunicatorProofs!OwnersUnique` | `OneOwner` | no handle left |
| `CommunicatorProofs!BorrowedSafe` | `BorrowedStays` | no handle left |
| `CommunicatorProofs!TypeCorrect` | `TypeOK` | no handle left |
| `CommunicatorProofs!CachesCoherent` | `CacheCoherent` | no handle left |
| `CommunicatorProofs!DuplicateKeeps` | `DuplicateKeepsRank` | no handle left |
| `ChannelProofs!TypeCorrect` | `TypeOK` | rounds |
| `ChannelProofs!Quiet` | `QuietBetweenRounds` | rounds |
| `ChannelProofs!OwnersUnique` | `OneOwner` | rounds |
| `ChannelProofs!ImplementsExchange` | `KeepsExchange` | rounds |
| `BlockingCallsProofs!TypeCorrect` | `TypeOK` | any program |
| `BlockingCallsProofs!FencesSuffice` | `Quiet` | any program |
| `BlockingCallsProofs!DeliversInOrder` | results come in the order of the calls, each once; a property of its own | any program |
| `DeliveryProofs!ImplementsDelivery` | `KeepsDelivery` | programs that fit |
| `PackingProofs!TypeCorrect` | `TypeOK` | any shapes |
| `PackingProofs!ArrivesInPlace` | `Intact` | any shapes |
| `PackingProofs!ArrivesWhole` | `NothingLost` | any shapes |
| `PackingProofs!CountsErrors` | `ErrorsCounted` | any shapes |

`NcclRequest` excludes moves and `wait_all` over several requests from its "documented", for the reason
given in section 2; the theorems on `TypeOK` and `CallbackOnce` have no such exclusion. "No handle left" is `LeavesNoHandle`: failing
splits and duplicates leave nothing in `new_comm` that is a handle, now or later; `Communicator_failed`
shows that it is needed. "Rounds" is the
program of `Channel`: every rank registers its pattern, then starts and waits for any number of rounds.
"Any program" is any number of ranks, each with any sequence of calls that satisfies the assumption; the
programs need not fit together, since a rank that waits in MPI forever does no harm to a buffer.
"Programs that fit" satisfy `FitsAssumption` as well, which is what MPI asks of them: the n-th collective of
all ranks is of one kind, with one root if it is a broadcast. It also says that a scan is refused by all
ranks or by none: the scans throw where other collectives abort, and a rank whose scan throws may go on to its
next collective while the others are in the scan (`mpi/scan.hpp:32`), so that its later collectives meet the
wrong ones. Nothing is asked of messages: sends without receives, and receives of other tags, may be left
over. "Any shapes" is any number of dimensions with any extents, at both ends any of the four kinds of view and either
layout of execution spaces.

**MPI.** The properties are not inductive. `BuffersOutliveOperation` needs to know that each operation
under way has an object (`OwnerInv`) whose list holds what was registered (`ListInv`), and that a view
without a reference count stays with the program (`ScopeInv`). `NoFreedHandle` needs that an owner's
handle is null or MPI's handle for its own operation (`HandleInv`). `FinishedMeansDelivered` needs what
the loop has still to run while a call is inside it (`RunInv`, with `InTurn` and `Ran` for the cursor),
and that calls block only on owners (`CallInv`). Their conjunction with `TypeOK` is `IInv`. The order of
callbacks is carried by `Increasing` (in `Orderings`): lists follow the rank of the kinds, so
"unpack" precedes "user", and no kind occurs twice.

**NCCL.** The shape is the same, but what links an object to its operation is not a handle that the
library maps to it: it is an event behind which the operation may or may not still be queued. `EventInv`
says that the event of an object is not reached before the object's operation is finished, which is what
makes a positive `cudaEventQuery` mean something; it holds because a call enqueues before it captures.
`QueueInv` gives every queued operation an object that holds its views, and `OwnInv` gives every event
one object. `WaitDelivers` then rests on `CallInv`: `wait_all` over one request counts down from one.

The last part of `NcclRequestProofs` drops all of that, since moves break `OwnInv` and `wait_all` breaks
`CallInv`, and keeps what survives: what stands in a list has not run, unless the loop is past it
(`AheadInv`), at most one object stands for an operation (`HomeInv`), and the program's callback is
registered only where it has not run (`UserInv`).

**Refinement.** Both proofs map the start of a call, the completion of the operation and `RunCallback` to
`Post`, `Finish` and `Run` of the contract, and every other step to `Release` or a stutter: it only
shrinks `Allocated`, and by `BuffersSafe` for the next state never below what a pending operation uses.

**Communicators.** A rank's objects and handles are its own, so `IInv` says the same of each rank,
`Sound(p)`: an object names a handle that the rank has not released, owns it exactly when the library
made it (`SoundObject`), a call has a free place for its result (`SoundCall`), and each handle made and
not released has one owner among the objects and the call. `Frame` disposes of the ranks a step does not
touch; `Complete` touches several and needs that the library names new communicators with handles a rank
does not hold.

Sizes and ranks rest on a second invariant, `RankInv`: `size_` and `rank_` of an object are those of its
handle (`Coherent`), a group lists its processes once each, all members of a group have the same list
(`Agreed`), and a call in flight that duplicates carries the rank of its process as key. The heart is
`Complete`: a split by keys that are ranks gives back the list it started from, for a group of any size.
That the order a split asks for exists, and is the only one, is proved in `Orderings`.

**Channels.** The inductive invariant has two parts. `Local(p)` says where rank `p` is in its round and
what its objects own: between rounds nothing is under way and nothing is posted; in a round each
operation is active or complete and what was not received yet is active (`Phase`); the object in use owns
the operations registered so far and another object at most the spare (`Owned`, `OwnedSpare`); filled
send buffers hold the data of the round to come, receive buffers what came in this round so far
(`Filled`, `Holds`); and what is posted is the rest of the receives (`Posted`). These prove the types,
quiet buffers and ownership. They do not prove that a delivery meets the right receive, since messages on
their way carry no round. `Chain(p)` therefore says that the messages from `p` can be numbered by round
and place in the round, consecutively: the first is what the neighbour waits for next, the last is the
last one `p` started, and one that MPI has not copied is of the round under way, so that its buffer is
still untouched. A delivery takes the first of them to the first receive that is posted, so both have the
same number. For `ImplementsExchange`, `KernelDone`, `Start` and `Wait` map to `Reuse`, `Begin` and `End`
of `NeighbourExchange` and everything else stutters; that the source has begun the round that `End` waits
for follows from the chain, since a message of a round was started in it.

**Blocking calls.** `Quiet` is about one moment; why it holds depends on what the call still has to do and
on calls long past. `Ordered` says what the steps of any function have in common, whatever is left of them:
no MPI call comes before a fence, after kernels were enqueued none comes without one, and a message is
followed by its completion unless the call leaves that to a wait. The 26 functions are unfolded once
(`Lists`, `StepsOrdered`); after that only `Ordered` is used. `Drained` says that past its fence, and until
it enqueues kernels again, a call has an empty execution space: that settles all calls that block in MPI.
An operation left open by `isend` or `irecv` is different, since later calls queue kernels while it is under
way. `Open` says that these are kernels of later calls, or the consumer of the same call, and that no wait
for the operation is over; by the assumption the views of the later calls are then others, and so are those
of the operations whose waits queue kernels (`OtherViews`, `OtherWait`). Packed copies differ since each
belongs to one call. `Posted` numbers the messages of a rank by call, so that a completion closes the
right one. `Memory` says that data is of calls that have begun, for the types.

`KeepsDelivery` is proved in two parts. `Aligning` is about order: the kernels in the queue and the steps
that are left will use the results of exactly those calls that were begun, not refused, and not yet used, in
the order of the program; what is left of a call says, through its checks, whether its views are taken
(`Shape`). That alone gives `DeliversInOrder`, which is `Delivery` up to which data a call brings and from
when on, and holds for any programs.

`Delivering` is about data, and has a part for each way it goes. The messages of a rank are those its calls
asked for, in order, with the rank's own data (`Filed`), and an operation is complete only when it was waited
for (`Closed`). Calls match by place: the place of a call is how many calls of its sort come up to it, and
between two ranks with one tag the first n sends and the first n receives are matched for the same n
(`Paired`), so that matching in order is matching as `Delivery` says. For collectives the n-th entry of a
rank is what it contributes to its n-th collective (`Entries`); here `Fits` is needed, since a refused scan
takes a place in the program and no entry in MPI, and has to do so on all ranks. A call that is over has met
the peers it needs (`Met`). In the memory of a rank (`Flow`), what a queued kernel reads is in place, or the
kernel before it puts it there and none in between changes it (`Fed`); the same holds for what the current
call is about to give to MPI (`Giving`) and what it was brought (`Bringing`); and what was received for an
operation that is still open stays until its wait (`Landed`). That a match does not disturb any of this rests
on `Open` and `Drained` of the first invariant: it is `Quiet` that makes data stay. `Run` of a consumer then
maps to `Deliver`, `Call` to `Begin`, a failing `Check` to `Abort`, everything else stutters.

**Packing.** A transfer has four steps; the work is in the arithmetic. Products, offsets and numbers are
folds over the dimensions, which the provers cannot unfold. A fold of the community modules is defined by
a recursive function on sets, so `FoldPartial` first shows, from the definition, that the fold of a
sequence has a function of partial results `p`, with `p[0]` the base and `p[k]` one application after
`p[k - 1]`; `ProductFold`, `OffsetFold`, `NumberFold` and `BoundFold` are its cases. Whatever needs
induction over dimensions is then shown for `p` with `Upward` or `Downward`, which are induction on a set
of numbers.

Two indices have one offset only if they are equal, as soon as each stride is at least what the dimensions
below it span, counted from the first dimension (`Rising`) or from the last (`Falling`): all digits but one
stay below the stride of that one (`RisingBound`, `FallingBound`), so digits can be compared one by one
(`RisingApart`, `FallingApart`). Column-major strides and those of a corner of a larger view rise, row-major
strides and those of every other cell fall. The offset of the last index bounds all others, and with it the
span is the number of elements for the layouts in one piece (`LayoutStrides`), and no more than the
allocation for the others. Together that is `Sound`, for each kind of `Build` and for `contiguous_view`.
As many cells as the span has make a view without gaps (`NoGaps`), so that a contiguous view and a packed
copy fill a message without holes (`Positions`), in an order that depends only on strides. `IInv` says
which element each buffer and the message hold at which position; the positions of both ends are the same
(`OneOrder`) or a permutation of each other (`Exchanged`). `CountsErrors` rests on `NumbersApart`: a
row-major number determines its index.

The proof that a step keeps an invariant has one lemma per action. Where a fact needs induction over data
(a set can be listed in order, a numbering goes on), it is proved by taking a least counterexample.

Only model-checked: liveness (`CallsReturn`, `AllRoundsEnd`, `AllCallsEnd`), since fairness is out of the
prover's reach; and what holds under exceptions (`MpiRequest_exceptions`), `KeptUntilRun` excepted. Every other property of a passing
run is stated by a theorem.

## 6. Not modelled, and why

* Integer widths: `span` and counts become an `int` for MPI without a check, which no small size shows.
* What a reduction operator computes: a result is the set of its contributions.
* Where in the receive view of a gather each rank's part goes: a view is one value between ranks.
* The packer `MpiDatatype` (`mpi/impl/packer.hpp:57`): nothing uses it, and it does not compile.
* The members of a communicator being released one by one: `MPI_Comm_free` and `ncclCommDestroy` are
  local here. Inter-communicators, `MPI_COMM_SELF`.
* A `Request<NcclSpace>` that never captured a stream; CUDA and MPI errors other than dead handles. Most
  are printed or ignored by the code.
* Threads: the library has no synchronisation of its own, and an object is used by one thread.
* Compile-time tables, profiling regions, tests, benchmarks, build files.

## 7. Plan

1. `MpiRequest` with its contract and proofs: done.
2. `Channel` with `NeighbourExchange`: modelled, checked, and its safety and refinement proved.
3. `NcclRequest` against the same contract: modelled, checked, and its safety and refinement proved.
4. `Communicator`: modelled, checked, and its ownership, sizes and ranks proved.
5. `BlockingCalls` with `Delivery`: modelled, checked, and its safety and refinement proved; it took the
   place of the separate modules for point-to-point calls and collectives, which share fences, queues and
   buffers.
6. `Packing`: modelled, checked, and all its properties proved.
