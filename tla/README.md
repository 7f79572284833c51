# FlashReduce: a verification project

FlashReduce (`src/`) is an early-stage collective communication library. Workers meet at a
*controller* (a Python gRPC server) to synchronise and to exchange the data needed to connect RDMA
queue pairs; inside a worker a *proxy thread* drives communication tasks that client threads hand
to it. This directory holds TLA+ models of that code, the TLC configurations that check them, and
TLAPS proofs about them.

Everything here is translated from the source; `PROJECT.json` maps each definition to its lines.

## 1. The system

| Part | Source | State it keeps | Operations |
|---|---|---|---|
| Proxy | `csrc/proxy.cc`, `proxy.h` | handler: `proxyThread`, `ops`, `stop`, `*abortFlag`, `pool`, `pools`; per element: `next`, `nextPeer`, `state`, `proxyTail`, `iterations`; the thread's `op`, `idle`, `idleSpin` | `persistentThread`, `ProxyCreate`, `allocateArgs`, `ProxyArgsAppend`, `ProxyStart`, `ProxyWaitAllOpFinished`, `ProxyDestroy` |
| Controller | `controller/controller.py` | barrier id, counters and events; lists of broadcast operations; sessions; the executor's threads | `Barrier`, `Broadcast`, `RdmaSession` |
| gRPC client | `csrc/grpc_client.cc` | two stubs | the three calls, blocking, `CHECK`ing their arguments and the status |
| Generated code | `csrc/flashreduce.pb.*`, `flashreduce.grpc.pb.*` | the members of each message, its unknown fields | setters, `Clear`, `CopyFrom`, `MergeFrom`, `Swap`, `ByteSizeLong`, `_InternalSerialize`, the parse tables, the stubs |
| Socket endpoint | `csrc/socket_endpoint.cc` | one connected socket | connect with retries, accept, `syncData`, `syncReady` |
| RDMA utilities | `csrc/rdma_utils.cc` | none of their own | QP state changes INIT, RTR, RTS |
| Clock | `csrc/get_clock.cc` | the measurements of a call | `get_cycles`, `get_cpu_mhz` (regression, `/proc/cpuinfo`) |
| Programs | `examples/*.cc` | | `proxy_test`, `proxy_send_recv`, `grpc_test`, `rdma_write_rc_test`, `rdma_write_uc_test` |

How they interact: client threads and the proxy thread share the handler and the elements under one
mutex, except for the abort flag, the progress callbacks, the loop of `ProxyWaitAllOpFinished` and
`pthread_join`. Workers share nothing with each other; they call the controller, whose handlers run
in threads of one executor and share its dictionaries and lists under one lock, except for a second
look at a barrier counter, the value a broadcast returns and the session entries. `proxy_send_recv`
combines the proxy, the sockets and RDMA. What workers and controller tell each other goes through the
generated messages.

What is hard: lists spliced by the thread while clients append to them; sleeping and waking without
losing a signal; shutting down with work queued; in the controller, everything that is read or used
after the lock was released, and calls that keep a thread while they wait. `PROJECT.json` lists each
hazard at its line (`hazards`).

What makes each part correct:

* *Proxy*: one FIFO queue per channel; every element runs until it has finished and never again;
  nothing is lost, nothing is used after it was freed; a wait for all work is a wait for all work;
  shutdown drains the queue, wakes the thread and returns.
* *Barrier*: nobody leaves before everybody has come; nobody waits forever; no handler looks up
  state that another one has deleted.
* *Broadcast*: every worker gets the value its broadcast's root sent.
* *RdmaSession*: both sides get the other's QP info of the same round; the code does not always keep to it (section 5).
* *Controller as a whole*: the calls of all workers complete, with the threads there are; what a dead
  worker leaves behind does limited harm.
* *Client and messages*: what one process passes to a call comes out at the other one, every field at its
  full width; a message that is parsed is the one that was serialized, into a used object too.
* *RDMA programs*: queue pairs are connected to each other, no queue overflows, no write comes too early,
  both processes come to their end.
* *Clock*: the measured rate does not depend on what the measuring costs, and measuring ends.

## 2. The modules

### Proxy

`Proxy.tla` is `proxy.cc`. Its variables are the fields above, plus program counters for the thread
(`tpc`) and the clients (`cpc`), the element a client has allocated and not appended (`held`),
whether it has appended since its last `ProxyStart` (`unsignalled`), and one history variable,
`place`, the list an element belongs to, which no guard reads except the one that picks a block that
malloc has not handed out yet.

| Code | Actions |
|---|---|
| `persistentThread` 34-35, 37-47, 49-53 | `CheckAbort`, `Fetch` (with `SpuriousWakeup`), `Progress` |
| the locked section 54-92 | `AdvanceKeep`, `AdvancePeer`, `AdvanceUnlink`, one per branch, each with `CountIdle` |
| `ProxyCreate` | `ProxyCreate`, `CreateThread` |
| `allocateArgs` | `AllocFromPool`, `AllocNewBlock` |
| `ProxyArgsAppend`, `ProxyStart` | `ProxyArgsAppend` (after `Fill`), `ProxyStart` |
| `ProxyWaitAllOpFinished` | `WaitAllCall`, `WaitAllReturn` |
| `ProxyDestroy` | `DestroyStop` (to the join), `DestroyFree` (after it) |

*Atomicity.* What the mutex protects is one action. `Fetch` ends in `pthread_cond_wait`, which
releases the mutex and sleeps atomically. The lines 171 (clearing the links of an allocated element)
and the caller's stores into it touch an element that nobody else can reach, so they are merged with
the locked section before and after them. The progress call runs without the mutex, but `state` and
`iterations` of a queued element are written by the proxy thread only. The unlocked read of `ops` in
`ProxyWaitAllOpFinished` is a read of one aligned pointer; formally a data race, on the machines the
code is for it yields the value before or after a concurrent store, which is what interleaving says.

*Contract taken from the callers.* A client appends what it has allocated; it waits only after it
has called `ProxyStart`; `ProxyDestroy` is called once all other clients are done with the handler.
The progress functions count iterations and finish at a limit, as the ones of the examples do. An
element's task needs between one and `MaxIterations` calls.

`ProxyQueue.tla` is what the proxy promises: a FIFO queue per channel in which only the oldest
element can finish and only a finished one leaves. `ProxyRefinement.tla` maps the pointers to it:
the queue of a channel is the sequence that lists its elements from the one in the ring along `nextPeer`. The
specification has no liveness of its own (TLC does not evaluate `ENABLED` under such a mapping); that every
queue keeps moving is `OpCompletes` and `WaitAllReturns` of `Proxy`.

`ProxyLifecycle.tla` adds what `Proxy` excludes: a second `ProxyCreate` after `ProxyDestroy`.

### Controller

`ControllerWorkers.tla` declares the workers. `ControllerBarrier.tla` is the barrier: `Arrive` is the
locked section, `RecheckWaits` and `RecheckReturns` the unlocked second look at the counter, `Leave`
the part after `event.wait()`. The dictionary of counters is a function on the ids it holds, so a
deleted key is really gone. `barrier_events` holds the ids whose Event is set; an Event that a
handler has a reference to outlives the dictionary entry.

`ControllerBroadcast.tla` is `Broadcast`: `EnterBroadcast` is the locked section up to the wait or to
its end, `WakeBroadcast` the mark after the wait, `ReturnBroadcast` the unlocked read. The three
parallel lists are one sequence of records. An index past the end fails the call.

`Controller.tla` composes both with `RdmaSession` (which counts on the same barrier), the executor and
the program of `grpc_test.cc`: every worker calls `Barrier`, `Broadcast` and `RdmaSession` and then
starts over, as the next run of the program against the same controller does. Under the interpreter's
global lock a dictionary or list operation is atomic, so the unlocked reads are steps of their own.

| `RdmaSession` | Actions |
|---|---|
| lines 110-112 and 123-130, with the lock | `SessionStart`: `rpc` becomes `"storing"` |
| lines 114-121, with the lock | `SessionStore`: `rpc` becomes `"running"` |
| lines 132-138 | `BarrierStep`, as in `Barrier`; then `rpc` is `"reading"` |
| lines 140-161, without the lock | `SessionReturn`, or `SessionFails` if there is nothing to be found (`Found`) |

What `Barrier` does under the lock is one action: of all it changes, others look only at the counter without the
lock, and it changes once. So is what `Broadcast` does: its steps in between (an operation deleted, a new one without a
value) could be seen by a handler that is about to return only if its own operation had been deleted, which
`PositionsStayValid` excludes for this program; where it is not excluded, in `broadcast_value`, the atomic version
is wrong already. `RdmaSession` changes two things that others look at without the lock, the counter (line 112) and
the session (lines 114-119), so its locked section is two actions, and while one call is between them (`LockFree` is
false) no other one enters a locked section. The opening of the barrier (lines 123-130) comes after both in the code;
it is part of the first action, because the Event and the operation id it changes matter only to calls that have the
lock or have to take it next.

Calls that wait for a thread of the executor have done nothing yet, so a worker that has called and one that is
about to are the same (`StartHandler`). A failed lookup fails the call, and the client's `CHECK` aborts the process:
`rpc` is `"aborted"`, the round is over for this worker, and it comes back for the next one when somebody starts it
again (`Restart`, external).

`BarrierRestart.tla` is the same handler when workers die in it. A handler is then no longer the same thing as
its worker: the thread goes on waiting while the worker, started again, makes another call, so `handlers` is a
function on pairs of a worker and the number of its call, and `Crash` removes the worker from `calling` and
nothing else.

### Client and messages

`ProtoWire.tla` is what the generated code relies on in the protobuf library (external): varints, the parser
with its fast table, skip map and field entries, and the few ways generated code treats the members of a class
(zero a stretch of memory, swap a stretch of memory, write, measure and merge the fields that are not zero).
A byte of a varint is a record of its continuation bit and its payload. The parser is an automaton that takes one byte
at a time (`ReadByte`), with the number of the record it is in and what it has read of the value. Varints, the powers that
`UIntSizePlusOne` compares with and the sums of sizes are recursive functions. `FlashreduceMessages.tla` has the
five message classes with fields, one operator per generated function, with its own list of fields, its own
stretch of members and its own table, as the generated text has. `BarrierResponse` has no fields.

`MessageObjects.tla` has two objects of a class and the bytes that were serialized last; its actions are calls of
the class's functions in any order, and a peer with a newer protocol that adds a field. `GeneratedMessages.tla`
instantiates it for every class. `MessageValues.tla` is the abstract specification: objects that hold values.

`GrpcClient.tla` is `grpc_client.cc` used by the two processes of `grpc_test.cc`. Each call fills a request, sends its
bytes under the name the stub has for the method, and takes the response apart. The controller parses them and
answers as in the first round of module `Controller`; a session that is looked up too early is there a call that fails.
A rank that is out of range is caught by a `CHECK`; a status that is not ok aborts the process after its request
may have been counted (`CallFails`).

### Sockets and RDMA

`SocketEndpoint.tla` has the connection of `socket_endpoint.cc`: listen, accept, connect with retries, the two
calls of `syncData` in the order that depends on `isDaemon_`, and the destructor, after which the other end reads
end of file (`SyncEof`). `RdmaPeers.tla` is what the RDMA programs share: the queue pair states that `rdma_utils.cc`
drives (`OpenQp`, `ModifyToRtr`, `ModifyToRts`), posting and polling, and the NICs. The order of
`main`'s steps in each branch of each program is there too (`WriteTestServer`, `SendRecvClient`, ...), with the steps all
have. `RdmaWriteTest.tla` adds the first write and the benchmarks of `rdma_write_rc_test.cc` and `rdma_write_uc_test.cc`.
`ProxySendRecv.tla` adds what `proxy_send_recv.cc` does with the proxy: main's steps, and the proxy thread of each process
calling `send_benchmark` or `recv_benchmark` on the operation main has appended. Of
the proxy it takes what `ProxyQueue` promises: an appended operation may run at once, does run after `ProxyStart`, and
is taken off the list when it has finished. It keeps what is peculiar to these functions: a poll of a full send queue
counts as an iteration, and returns before it looks whether it was the last one; the receiver counts polls and not
completions, and starts its clock and its count at the first. `RdmaPrograms.tla` puts each program and the NICs together.

The NICs and the wire (`Transmit`, `Deliver`, `Acknowledge`, `Lose`) are external:
they are modelled from what the programs rely on. A write with immediate data uses up a receive and
completes at the server; at the client it completes when it is acknowledged (RC) or sent (UC). RC repeats
what is lost, and waits for a receive without limit (`rnr_retry` 7), as long as the client's queue pair
exists; that the seven repeats of `retry_cnt` (`rdma_utils.cc:210`) are never used up is an assumption.
`ibv_destroy_qp` discards what was not sent. Work requests are alike and are counted. `ibv_modify_qp`
and the posting calls succeed; that the queues have room for what is posted is a property.

### Clock

`Clock.tla` is `get_cpu_mhz` as built for x86-64. Frequencies are fractions, so that the regression and its
comparisons with 0.9 and 0.02 are exact; `NaN` is a value of its own for which comparisons are false, as in C.
`Poll` lets some microseconds, at most `MaxDelay`, pass between two calls of `gettimeofday`, `AdjustClock` sets the wall clock,
`GettimeofdayFails` is the error path.

The `MC*` modules and `.cfg` files are the instances for TLC; modules that need no definitions of their own for
that are run directly. The `*Proofs` modules hold the theorems: `ProxyProofs`, `ControllerProofs` (with the
barrier), `BarrierRestartProofs`, `RdmaProofs`, `ClockProofs`, `WireProofs` (the wire format and the five
classes), `GeneratedMessagesProofs` and `GrpcClientProofs`, of which the last two build on `WireProofs`. The
inductive invariants are defined beside the specifications (`IndInv`, `BarrierInv`, `ControllerInv`,
`RestartInv`, `ProgramsInv`) or, where they speak of what only the proofs need, beside the proofs (`ClockInv`,
`ClassInv`, `ClientInv`).

## 3. What is checked

| Run | Instance | Shows |
|---|---|---|
| `proxy_safety` | 2 clients, 3 channels, 3 elements, tasks of 1 or 2 calls, aborts, spurious wakeups | all list, memory, wakeup and shutdown invariants |
| `proxy_liveness` | 2 clients, 2 channels, 3 elements | every appended element finishes, whatever the other client appends; finished elements are never run again |
| `proxy_refinement` | 1 client, 2 channels, 3 elements, aborts | `Proxy` implements `ProxyQueue`; `ProxyWaitAllOpFinished` returns unless aborted, `ProxyDestroy` returns always |
| `controller` | 3 workers, 2 rounds (4 barriers), 3 threads | no early return from a barrier, no `KeyError`; broadcasts are right; a session's answer is stale by one round, or missing in the first, at most, and on one side only; all workers finish, with as many threads as workers, unless an aborted one stays away |
| `barrier_restart` | 3 workers, 2 calls each, each may die once | every crash shifts the barrier by one call at most; no handler of a dead worker hits a deleted counter; handlers that wait for an arrival are fewer than the workers; handlers left behind leave with the next opening |
| `messages` | 2 objects of each of 5 classes, 2 calls that make a value grow | `ByteSizeLong` measures what `_InternalSerialize` writes; the classes implement `MessageValues` |
| `grpc_client` | 2 processes, 3 QP infos, 2 values, a good and a bad rank, aborts | QP info and broadcast value arrive exactly; both finish unless one aborts, for a bad rank or a failed call |
| `rdma_programs` | each of the three programs, send queue of 3, benchmarks of 3 and 5, polls of up to 2, losses | queue pairs are connected to each other; no queue overflows; no write meets an unconnected queue pair or an empty receive queue; the supply of receives is kept; in `proxy_send_recv` the lopsided handshake orders the two operations and a receiver that finishes has seen every write; the programs end, but for the cases the properties name |
| `clock` | 3 measurements, overheads of 0, 20 and 300 cycles at 50 MHz, `/proc/cpuinfo` with up to two processors of 0, 49 or 51 | a constant overhead cancels out exactly, the result is the counter's rate or agrees with it; the measurement ends |
| `session_exchange` | 2 workers, 2 rounds | *violation*: see section 5 |
| `broadcast_value` | 2 workers, back-to-back broadcasts | *violation*: see section 5 |
| `proxy_recreate` | 1 client, 1 element | *violation*: see section 5 |

*Bounds and why they are enough.* Three elements are the fewest with which a ring of three, a ring of two with a
peer, and a chain of three exist, so that every branch of the splice happens with `op` equal to and different
from the element that leaves, with `ops` on it and not, and while elements are recycled. Three channels let all
three be in the ring. A block has three elements instead of 32: its elements run out, are recycled, and
`AllocNewBlock` runs when the pool is empty. Two clients race for the pool and for a channel's tail.
`IdleSpinLimit` is 2 instead of 10: zero, one and the reset. The runs have one block; the proofs cover any
number. The clients of the proxy never stop on their own account, so the state space is finite without a bound
on the number of appends. Four barriers are more than enough for a worker to be one ahead while another has not
left the one before; three workers for two of them to be in different phases of the same barrier while the third
moves on. Two rounds show what is left over from an earlier round: the session's entries, completed broadcasts,
counters; in the first a lookup finds nothing, in the second what is old. The RDMA run has all five retries, a benchmark that just fits the send queue, as in the programs, and
one longer than it, so that the sender has to poll (with 10 writes on 256 entries the programs never do); a poll
may return two completions, which is what makes the receiver of `proxy_send_recv` miscount. The one client of
`proxy_refinement` appends whenever it likes and to both channels; races of two clients are in the other two
runs of the proxy. In the message runs a varint's byte has 2 bits of payload and the types have 5, 8 and 32
values: 64-bit values take three bytes and 32-bit ones two, values at the limits are among those that are set,
and a field too wide for its member would be seen. Two calls that make a value grow put a value in each object
or a value and an unknown field in one; all other calls are unlimited. The QP infos of `grpc_client` are one
with all fields different, so that no two can be exchanged unseen, all zero (nothing is on the wire), and all at
their limits. `Clock` has three measurements, the fewest for which the correlation can be bad, and frequencies
that differ from the real one by exactly 2 percent; polls overshoot by enough (`MaxDelay` is 3) to make all
measurements equally long; `MaxWall` is more than any measurement takes. In
`barrier_restart` two calls and a crash make a worker's new call meet its old handler, in the same barrier or in
the next. No run has a state constraint; symmetry (clients, channels) is used in `proxy_safety` only, which has
no temporal property. Deadlock is checked in `messages` only: programs end, and a proxy nobody uses sleeps.

*Fairness.* Weak fairness of the proxy thread: it is a running pthread, its `sched_yield` included. Weak
fairness of `ProxyStart`, of the wait loop and of the end of `ProxyDestroy` for clients that have begun
them. Nobody is required to append or to destroy, `pthread_cond_wait` need not wake up spuriously, and
with an abort nothing is promised but that `ProxyDestroy` returns. That `ProxyWaitAllOpFinished` returns
is claimed for one client only: with two, the other may keep the list non-empty forever. For the
controller: as long as a worker, a handler or a call that finds a thread can go on, somebody does. Nothing is asked
for each of them, since every step brings a worker further in its program; nobody has to start an aborted process again.
With dying workers: handlers that can run do. For the RDMA programs: both processes and the NICs go on; the
network need not lose anything; a proxy thread is required to run only after `ProxyStart`. For the client:
processes, network and controller go on, and no call has to fail. For the clock: the program goes on; nobody has
to set the wall clock. Message objects have no liveness.

`AllFinish` holds when the executor has at least as many threads as there are workers, which
`ControllerAssumption` states: `ThreadPoolExecutor(max_workers=10)` limits the controller to ten
workers, since waiting calls keep their threads. The mutant `OneThreadIdle` is that deadlock. `AllFinish` leaves
one case out: a process that a failed session has aborted, and that nobody starts again while rounds are left
(`Missing`), keeps the others waiting for good. With orphaned handlers the threads suffice too: `WaitersBounded`.

## 4. What is proved

Every safety property that a passing run checks is a theorem too, and so are both refinements. A
theorem holds for all values of the constants that satisfy the assumptions named with it; TLC evaluates these
assumptions on the instances. The inductive invariants were model-checked before they were proved, as additional
invariants on the instances of the runs:

| Invariant | Instance of | States |
|---|---|---|
| `IndInv` | `proxy_safety` | 846,455 |
| `ControllerInv`, `NeverAllWaiting` | `controller` | 1,129,034 |
| `RestartInv` | `barrier_restart` | 59,650 |
| `ProgramsInv` | `rdma_programs` | 74,466 |
| `ClockInv` | `clock` | 404,573 |
| `ClassInv` | `messages` | 55,185 |
| `ClientInv` | `grpc_client` | 30,924 |

### The proxy

For any sets of clients, channels and blocks, any block size and any limits
(`ProxyAssumption`: the sizes are positive and `NULL` is no element and no channel):

* `ListsCorrect`: `Spec => []ListInv`. The ring is one cycle through every element it should hold; a
  channel has at most one element in it; its tail pointer names the end of its chain; every queued
  element is reached from the ring; the pool holds free elements.
* `RingIsSound`, `ChannelsAreSound`, `NothingIsLost`, `PoolIsSound` and `TypesKept` state its parts one by one, as
  the run `proxy_safety` checks them.
* `WaitAllIsSound`, `Invariance`, `ThreadMemorySafe`, `WakeupsNotLost`, `ExitIsDrained`, and the action
  property `FinishedIsFinal`.
* `ProxyImplementsQueues`: `Spec => ImplementsQueues`, the refinement of `ProxyQueue`.

The argument: none of the properties is inductive alone. That the walk meets every element needs the
ring to be *one* cycle, stated as "no proper subset is closed under `next`", which needs no induction
over the length of a path and is preserved when one element is put in, replaced or taken out. That
`ops = NULL` means "nothing queued" needs every peer to hang off a ring element (`NothingLost`, in the
same closed-set form). Splicing needs `ChannelTails`: the element without `nextPeer` is the one the tail
pointer names, or clearing the tail would cut off a chain. `PoolIsFree` keeps lists apart when elements
are recycled. `IndInv` adds `MemoryInv`, `ShutdownInv` and `NoLostWakeup`.
There is one lemma per action.

The refinement needs that a channel's pointers form a list at all (`Listed`, inductive on top of `ListInv`) and
that they form only one (`OneList`: the elements that two lists hold at the same place contain the ring's and are
closed under `nextPeer`, so by `NothingLost` they are all of them), so that what the mapping chooses is known
(`TheQueue`). `AppendLists` and `AdvanceLists` say how a list changes: an element more at its end, or its head gone.
`ProxyArgsAppend` is then `Submit`, a `Progress` call that ends a task is `Finish`, since an element in the ring is
the head of its queue, and `AdvancePeer` and `AdvanceUnlink` are `Reclaim`; every other step leaves the queues alone.

### The barrier

For any finite set of workers and any number of barriers `ControllerProofs` proves
`BarrierInvariance` (`BarrierSpec => []BarrierInv`), `BarrierIsBarrier` and `CountersPresent`. The counter
alone does not say who left early: the invariant relates it to `counted`, the set of workers it stands
for (those that returned at the second look stay in it for good), and `arrivals` and `departures` to the id
of the current operation. Facts about cardinality come from `FiniteSetTheorems`.

### The controller

`ControllerUsesBarrier` (`Spec => BarrierSpec`) carries the results about the barrier over to the controller, in
which `Barrier` and `RdmaSession` share it (`SharedBarrierHolds`). On top of it `ControllerInvariance`, from which
`BroadcastsDeliver`, `PositionsStayValid` and `SessionsLagByOne` follow, for any number of workers, threads and
rounds (`ControllerAssumption`). That broadcasts are right is *not* a property of the
`Broadcast` handler, as section 5 shows; it comes from how the program uses it. `Apart` derives from the barrier
which calls two workers can be in at the same time: between the two barriers of a round all of them are in the same
round. So the list of operations holds only the one of the current round, its index is 1 for everybody and nothing in
front of it can be deleted (`BroadcastInv`); it says exactly whose mark the bitmap has, and that the value is there iff
the root has called.

A session's entries are what each worker has stored last (`SessionInv`, with `Submitted`), and nobody stores
again before all have read, since a barrier comes first. So a worker that reads finds of every other one the request of this round, or,
if that one is counted and has not stored it, of the round before (`Looked`). There is one such worker at most,
since it has the lock. That is `SessionLag` but for its last part, that a round never goes wrong for the root and for another worker:
it needs what a stale answer tells, namely that the root had the lock when it was read, and all others had stored their
requests (the last conjunct of `SessionInv`).

`NobodyLeftWaiting` (`Spec => []NeverAllWaiting`) is that the controller has no deadlock: as long as a worker
has not finished all rounds, some worker or some call can take a step (`CanGoOn`), or an aborted process was not
started again (`Missing`). Suppose neither. The lock is free, since the call that holds it can go on. A new call
finds a thread, since there are as many threads as workers and it has none itself
(`ThreadsSuffice`). If a handler waits for the root of its broadcast, the root has not made this call, is in the
same round by `Apart`, and the barrier before the broadcast has opened: it can go on (`RootGoesOn`). So every
worker has finished or waits at a barrier that has not opened (`OthersGoOn`), and that can only be the current
one. Somebody is missing there, or it would have opened (`CounterInv`), and this worker has neither finished nor
waits at an earlier barrier: a contradiction (`SomebodyGoesOn`). It is the part of `AllFinish` that needs no
fairness, for any number of workers, threads and rounds; the mutant `OneThreadIdle` violates it. `MaxBarriers`
and `MaxBroadcasts`, the bounds of the model, are not what keeps anybody from going on, since
`ControllerAssumption` leaves room for all rounds.

### Workers that die

`RestartInvariance`, `SlipIsBounded`, `CountersOutliveCrashes` and `ThreadsRemain`, for any finite set of workers, any number of
calls and of crashes. The crashed calls are a history variable, `crashed`. A counter is at least the number of
handlers that will still decrement it (`HandlersCounted`), so none of them finds it deleted; the current one is
exactly that number and not full, so the handlers that wait for an arrival, orphans or not, leave a thread free
(`WaitersBounded`). For the slip,
`SlipInv` compares the current operation with the arrivals of each worker plus the crashed calls of the others.
It is the step that opens a barrier that needs an argument: `NumWorkers` handlers of one operation either
include one of each worker, or, by counting (`FullIsCovered`), two of the same, one of which is a crashed call.

### The RDMA programs

`RdmaProofs` treats the three programs together, for any send queue no deeper than the receive queue and any set
of positive lengths (`RdmaAssumption`): `ProgramsInvariance`, and from it `QueuePairsMatch`,
`QueuesNeverOverrun`, `ReceivesAreReplaced`, `WritesFindReceives`, `ReceiverIsFirst` and `ReceiverEndsComplete`.
`ProgramsInv` has four parts that carry the argument. `HandshakeInv` counts the calls of `syncData` each peer
has behind it (`Syncs`), which differ by one at most, and says which message is on its way; it orders the
program counters of the two processes, and needs the case in which the server of `proxy_send_recv` has closed
its socket. `SupplyInv` finds every receive in the receive queue or in the completion queue. `CreditInv` finds
every entry of the send queue in use at one place or free. `FlowInv` bounds what the server has seen by what the
client has posted; losses only widen the gap. `NoReceiverNotReady` and `QueuesFit` need all of them: a write can
be under way only after the handshake, and then the supply is complete.

### The clock

`ClockInvariant` and `OverheadAlwaysCancels`, for any number of measurements, any lengths, overheads and
readings (`ClockAssumption`). Unless the wall clock was set, every measurement lies on a line whose slope is the
rate of the counter (`LineInv`), one line if only one overhead was met. That the sums of the regression
(`Total`) are linear (`TotalLinear`) is proved by induction over the number of measurements; then the covariance
of points on a line is the slope times the variance of `x` (`LineCovariance`), whatever the constant. The
variance is never negative, and zero only if all measurements are equally long (`VarianceNonNegative`, from a
sum of squares), which is the case in which the code divides zero by zero. The slope is also what `Agree`
compares with `/proc/cpuinfo` (`AgreeScaled`).

### The messages on the wire

For any base and any widths of the types (`WireAssumption`: they grow; `TenBytesAssumption`: ten bytes hold the
widest):

* `RoundTrip`: of any class whose table finds each number it writes and whose numbers name all its members
  (`Complete`), the parser reads back any message from what `Written` writes, its unknown records included.
  `IsMessage` asks of a message what the class guarantees: values that fit their members, and unknown records whose number
  the table does not know and whose values are 64-bit ones.
* `GeneratedRoundTrip`: each of the five classes has such a table and starts from such an object. This is a check of
  the generated tables, number by number: fast table, skip map and entries.
* `GeneratedSizes`: `ByteSizeLong` of each class is the length of what `_InternalSerialize` writes. It computes lengths
  from magnitudes (`SizePlusOne` against `VarintDigits`) and adds them up in the order of the members in memory, which
  for `RdmaSessionResponse` is not the order in which they are written (`SevenSizes`).

Recursive functions are first shown to exist (`VarintExists`, `RunExists`, `PowerSteps`, `TotalSteps`): tlapm
takes nothing for granted about them. The induction theorems of the library take an operator as a parameter,
which the provers here cannot instantiate. So induction is stated for sets (`LeastElement`, `InductionTo`,
`StrongInduction`: a set of natural numbers that has a number whenever it has all smaller ones has all of them),
which follows from `WFMin` and needs no such parameter. The main step is `ReadConcat`: the automaton reads two
pieces of a wire one after the other. With it `ReadVarint` is an induction over the value and `ReadFields` one
over the list of fields.

### The message objects

`ClassInvariant`: both objects, the bytes and what was posted remain messages of the class (`IsMessage`), and a
parser that reads the bytes into a new object ends with what was posted, also after a newer peer has added a
field. From it `MessagesImplementValues` (`Spec => ImplementsValues`, the refinement of `MessageValues`) and
`SizeAlwaysAnnounced`, for any set of objects and any number of calls. The steps are first brought to one form
for all classes (`ObjectStep`, `WireStep`, with the table, the numbers and the names of a class as parameters)
and refined once (`ObjectStepRefines`, `WireStepRefines`); what is left for each class is that its functions are
of that form, `Clear` and `InternalSwap` over a stretch of memory included. Setters get values of the member's
type only, as a C++ compiler sees to; where the client converts one (the LID) `GrpcClient` does too.

### The client

`ClientInvariant`, `PeerInfoAlwaysExact` and `BroadcastValueAlwaysExact`, for any values and QP infos that fit
the types of the arguments (`ArgumentsAssumption`). `ClientInv` says of every call which bytes are under way,
which requests the controller has parsed, and what it answers: a session's answer is the bytes of the *other*
process's info, a broadcast's the bytes of the root's value. By `GeneratedRoundTrip` the bytes are the request
that was filled in (`ParsedIsSent`) and the response that was sent, so what is left is the route of each field:
argument, setter, request, controller, response, `QpInfo` and GID.

### Only model-checked

The liveness properties `OpCompletes`, `WaitAllReturns`, `DestroyReturns`, `AllFinish`, `OrphansLeave`, `CallsComplete`,
`BothFinish`, `SenderReturns`, `BothReturn` and `Returns`: fairness and `ENABLED` are out of the prover's reach.

## 5. Where the code and what is said of it part

* `session_exchange`: `RdmaSession` counts its arrival (line 112) before it stores its request (lines 114-119), and
  other calls look at the counter (line 132) and at the session (lines 140-154) without the lock. In the trace of
  the run the last arrival has been counted; the other worker sees the full counter, does not wait, and finds no entry. Its handler raises
  `IndexError` or `AttributeError`, and the `CHECK` on the status aborts its process. In the second round it finds
  the QP info of the first and returns it with status ok. The handler stores under the same lock it counts under;
  the order of the two makes the difference. `SessionLag`, in the run `controller` and as a theorem, is what remains true.
* `broadcast_value`: a `Broadcast` handler remembers a list index across the release
  of the lock, while another call deletes completed operations in front of it. Back-to-back broadcasts can
  silently return another broadcast's value, or raise `IndexError`. The program of `grpc_test`, in which a
  barrier separates two broadcasts, is not affected: that is what the run `controller` shows.
* `proxy_recreate`: `ProxyDestroy` does not reset `proxyThread`, so a later `ProxyCreate` does nothing.

The examples run into the guard of `proxy_recreate` too: their handler is an uninitialised local variable
(`proxy_test.cc:18`, `proxy_send_recv.cc:91`) of which `ProxyCreate` reads `proxyThread` (`proxy.cc:106`), and if it is
not zero by chance no thread is created. The models start from a zeroed handler.

Also visible in the models, and not contradicted by any text: the client of the RDMA tests destroys its queue
pair right after its last post, and a server whose writes were discarded polls forever (the `dropped` of
`BothFinish`); the receiver of `proxy_send_recv` counts a poll that finds two completions once and then waits for
a write that nobody sends (the `coalesced` of `BothReturn`); the client's second `syncReady` has no partner and
ends because the server's socket goes out of scope; a process that aborts in a call of the controller leaves the
other one waiting without a deadline; a clock sample of equally long measurements is 0/0, which the test for a bad
correlation lets pass, and the result is then `/proc/cpuinfo`'s; `ProxyWaitAllOpFinished` spins forever after an
abort with work queued; barrier counters that are never decremented to zero stay in the dictionaries.

## 6. Not modelled

* Of the generated code: asynchronous and callback stubs and the C++ services (used by nothing in the repository),
  arenas, reflection, descriptors and default instances; of the parser, lengths and malformed input.
* In `get_clock`: the versions for other architectures, and the text format of `/proc/cpuinfo`.
* The printing of port attributes, and the failure of `malloc`, of the verbs calls and of gRPC's transport other
  than as a failed call.
* `controller_.py`: an earlier version that imports modules the repository does not have; its `Barrier` and
  `Broadcast` are those of `controller.py`.
* Short reads: one `recv` is taken for one message of `syncData`, as the code takes it.
* A client that uses the handler during `ProxyDestroy`: the contract of section 2 excludes it, and a `ProxyStart`
  after `stop` was set would take it back. That counters of the barrier are never deleted when a caller returned at
  the second look is in the model, and no property forbids it.

## 7. Status and what is open

All components of section 1 are modelled and checked; all safety properties and both refinements are proved, and
so is that the workers of the controller never all wait for each other. Open:

1. An abstract barrier that `ControllerBarrier` implements. `BarrierHolds` states what such a specification would promise.
2. For the RDMA programs and the client what `NobodyLeftWaiting` is for the controller: an invariant that names
   the states in which the programs rest.
3. A use of the handler during `ProxyDestroy`, when the code says what it should do.
