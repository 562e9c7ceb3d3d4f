# Verification of hivelang3

TLA+ models of the hive runtime 0.3 (`runtimes/0.3/common`) and of the compiler
(`main`, `ir`, `optimization`, `analysis`, `codegen`), the TLC configurations that
check them on small instances, and TLAPS proofs that hold for every instance.
Paths below are relative to the repository; `common/` stands for
`runtimes/0.3/common/`, `x64/` for `common/x64/`.

- [The system](#the-system): the parts, their state, how they interact, what is hard
- [Modules](#modules): which module models which code, and how
- [Runs](#runs): what each configuration checks, its bounds and why they suffice
- [Fairness](#fairness)
- [Proofs](#proofs): what is proved, from what, along which argument
- [Findings](#findings): where the code and what is said of it disagree
- [Not modelled](#not-modelled) and [plan](#plan)

## The system

A compiled hive program is a set of *workers* (functions). A *hive* is a
process that runs them; hives connect over TCP and share *objects* (arrays,
classes, pipes, promises) under 64-bit ids. Calling a worker yields a promise;
awaiting (`?`) a promise pauses the worker until somebody pushes the value.

| part | state it keeps | operations | where |
|---|---|---|---|
| task queue | ring `buffer`, `head`, `tail` | `queue_push_front`, `queue_pop` | `common/queue.c` |
| scheduler | a queue per thread and priority, `active_mask`, `size`, `len` | `scheduler_enqueue`, `scheduler_dequeue` with stealing, `SheduleWorker` | `common/queue.c`, `common/sheduler.c` |
| wait list | lock-free list `wait_list`, free nodes | `WaitListWorker`, `UpdateWaitingWorkers`, `UpdateSingleWorker` | `common/allocators.c`, `common/runtime.c` |
| promise await and push | `ready` and data of the object, `get_wait_list` with tagged list pointers | `x64QueryObject`, `x64PushObject`, `UpdateWaitingQuery`, the same from other hives | `x64/query_object.c`, `x64/push_object.c`, `common/remote.c`, `common/callbacks.c` |
| object table | `i64hashtable`: cells, `len`, `updating`, chain of older tables | `i64GetHashtable`, `i64SetHashtable` | `common/api.c` |
| byte-key table | the same with keys in segments, and list values | `GetHashtable`, `SetHashtable`, tagged take and release | `common/api.c` |
| id and page broadcast | `thisServerId`, `pages`, `get_id_broadcasts`, `get_page_broadcasts` | ask, relay, answer; `GetNewObjectId` | `common/remote.c`, `common/runtime.c` |
| object discovery | `object_paths`, `global_id_paths`, path broadcasts | request, answer, redirect | `common/remote.c` |
| remote objects | `get_wait_list`, `set_wait_list` | `RequestObjectGet`, `RequestObjectSet`, their answers | `common/remote.c`, `common/callbacks.c` |
| connections | `connections`, the parser state of each, load of the other hive | accept, connect, handshake, disconnect, framing, `StateSender` | `common/remote.c` |
| worker start | call arguments, provider of each worker | `StartNewWorker`, remote call, `ExecuteWorker` | `common/runtime.c`, `x64/call_object.c`, `x64/execute_worker.c` |
| cast provider | state of each pending cast | `castOnQueryObject`, `anyCastStates` | `common/cast_provider.c` |
| thread pool | thread records, wait-for-exit flags, progress counts | `ShedulerStart`, `MasterSheduler` | `common/sheduler.c` |
| record allocators | free lists under spin locks | allocate and free of waiting and queued workers | `common/allocators.c` |
| gpu, dll, local providers | driver objects, loaded libraries | call, query, push | `common/gpu*`, `*/dll`, `common/loc` |
| loader, assembly, platform | the program image, saved frames | `LoadWorker`, pause and continue of a frame | `common/runtime.c`, `common/runtime.asm`, `lin`, `win` |
| front end | build context, graph of operations | parse, type, translate | `main/parser.cpp`, `ir` |
| optimizer | the workers of a build | inline, compress promises, strip what is unused | `optimization` |
| code generators | colouring, memory, code, jumps, header | spread registers, emit, expand jumps, export | `analysis`, `codegen`, `main/export.cpp` |

How they interact:

- A scheduler thread dequeues a worker and runs it on its own stack. A worker
  that must wait is copied into a record, linked to the wait list
  (`WaitListWorker`), and the thread jumps back to the scheduler.
- A thread that finds no task takes the whole wait list and asks each record's
  state function whether the wait is over. A worker that awaits a promise is
  moved from there to `get_wait_list` under the key of its query.
- A push stores the value, takes the list under the key and enqueues its workers
  again. Between take and release a tag in the low bits of the pointer says how
  many threads run the callbacks.
- Two network workers parse messages and call the same functions for requests
  of other hives; a listener accepts connections; `PagesAllocator` keeps two
  pages of object ids in stock; every object is registered in `local_objects`.

What is hard: nearly everything is lock-free and shared by scheduler threads,
network threads and background threads. The dangers are a worker that is in no
list or in two, a task taken twice, a node recycled under a reader, a table
that grows under an insertion, a count that lags behind what it counts, a
question that circulates for ever. None of them shows in a single-threaded
test. The compiler is one thread; what is hard there is that a dozen passes
edit one graph and that jumps, lengths and places are counted in several units:
a mistake shows passes later, in a program that returns something else. The
hazards are listed line by line in `PROJECT.json`.

What makes each part correct:

- *Queue*: each task is handed out once; a popper that moved `head` gets one;
  "empty" is true when it is said.
- *Scheduler*: the counts on which balancing rests never drift; work that can be
  seen is taken.
- *Wait list, promise*: a paused worker is in exactly one place; it goes on once
  its wait is over; it gets the value that was set.
- *Tables*: a registered key is found by every later lookup, in one cell.
- *Broadcast*: no number is accepted unheard, no object id is given twice, a
  question travels once along each connection.
- *Remote objects*: a push is stored once at most; a read does not return less
  than what its hive was told is stored; a read along a known path is answered.
- *Connections*: the messages of a socket arrive once and in order however the
  bytes are cut; the two ends agree on which sockets belong together; a hive
  forgets a peer that has ended.
- *Compiler*: a program returns what its source means, before and after the
  optimizer and as machine code.

## Modules

| module | models | depends on |
|---|---|---|
| `TaskPool` | what the queue promises: a pool with claims | |
| `TaskQueue` | `queue_push_front`, `queue_pop` | implements `TaskPool` |
| `TaskQueueProofs` | theorems about `TaskQueue` | `TaskQueue` |
| `Dispatch` | what the scheduler promises: each submission is executed once, by one thread | |
| `Scheduler` | enqueue, dequeue, stealing; a ring is used as a `TaskPool` | implements `Dispatch` |
| `SchedulerProofs` | theorems about `Scheduler` | `Scheduler`, `Dispatch` |
| `WaitList` | `wait_list` and its nodes | |
| `WaitListProofs` | theorems about `WaitList` | `WaitList` |
| `PromiseWait` | a promise, its waiters, pushes, remote pushes and queries | |
| `PromiseWaitProofs` | theorems about `PromiseWait` | `PromiseWait` |
| `HashTable` | `i64hashtable` with keys written once | |
| `HashTableProofs` | theorems about `HashTable` | `HashTable` |
| `Broadcast` | server ids, pages and the object ids given from them | |
| `BroadcastProofs` | theorems about `Broadcast` | `Broadcast` |
| `Channel` | what a socket promises: messages once and in order | |
| `Connection` | connect, handshake, framing, disconnection | implements `Channel` |
| `RemoteObject` | get and set of an object of another hive, the search for a path | a channel as in `Channel` |
| `RemoteObjectProofs` | theorems about `RemoteObject` | `RemoteObject` |
| `Ir` | types, operations, the graph of operation blocks and its edits | |
| `Parsing` | from the syntax tree to operations | `Ir` |
| `Optimizer` | the passes of `Optimize` | `Ir` |
| `Registers` | live ranges, colouring, splits, memory | `Ir` |
| `X64` | instructions and their lengths, the code of a worker, jumps | `Registers` |
| `Objects` | the runtime's calls on objects, as compiled code sees them | `Ir` |
| `IrMeaning` | what intermediate code does when it runs (a reference) | `Objects` |
| `Machine` | the executable, its loading and the processor | `X64`, `IrMeaning` |
| `Source` | what a syntax tree means (a reference) | `Ir` |
| `Samples` | the programs the compiler is checked with | |
| `Compiler` | the compiler pass by pass, and the runs of its output | all of these |
| `MC*` | the instances | the module of that name |

Conventions. A thread has a `pc`, and one action is one access to shared
memory, in the order of the code; steps on local variables are merged into the
access before or after them. Operations whose effect is one compare-exchange of
a whole word are one action. Definitions named `...` after a comment "Broken:"
are variants with a plausible bug; they are used by no specification and show
that the properties can fail.

**TaskQueue.** `pushStore` and `popLoad`/`popTake` are the loops of lines 40-46
and 63-74 of `queue.c`; `h[t]` is the position a thread reserved or claimed,
`data[t]` the datum it carries, `got[t]` the task it executes. `queue_push` is
compiled out by `ALWAYS_PUSH_FRONT`, so `head` decreases with pushes and
increases with pops and `tail` stays 0. The 64-bit positions are unbounded
integers: wrapping takes 2^63 pushes.

**Scheduler.** The ring takes one step per operation, as `TaskQueue` implements
the pool; the mask, `size` and `len` are separate steps. `VisibleWorkIsTaken`
speaks of tasks whose mask bit is set; a task may also be hidden (see Findings).

**WaitList.** `head`, `next` and `item` are the list; `free` is the stack of
freed nodes over the ones that were never allocated. `UpdateWaitingWorkers` is
taken apart into `TakeAll`, `Update` (the state function and, when the wait
goes on, the insertion of a new node), `Advance` (`curr = nxt` and the free of
the old node), `Walk` and `Splice`. The early return at the threshold does not
free its current node, as in the code: that node is lost.

**PromiseWait.** One key of `get_wait_list` (the tag and the list), the promise
(`ready`, `stored`), the wait list as a set, the list an updater has taken
(`hand`, `cur`), the list a push has taken (`taken`). Every worker asks for the
whole value, so there is one key. That a worker which is seen ready copies the
data before the store shows in `got` as `blank`.

**HashTable.** The Linux build, without 16-byte compare-exchange: a cell goes
from `STATE_FREE` to `STATE_BUSY` to `STATE_READY`. `op[t]` is where an
operation is: the table it loaded, the table and cell it works on. `i64_get`
goes down the chain of older tables (`GetFree`) and copies what it finds into
each table on the way back (`Copied`), which is the unwinding of the recursion
in lines 186-198. The keys are written once, as `RegisterObjectWithId` does.

**Broadcast.** A question is a broadcast id `b`; `entry[h][b]` is what hive `h`
keeps of it and in which of the two tables. `job[h][c]` is the worker that
serves connection `c`, or the asking thread for `c = Self`: it looks up,
inserts, sends to one neighbour, counts, and so on until everybody is asked.
The handlers of both kinds of question share their actions; where page questions
use the table of ids the model does too. A page number is compared with three
bytes that nobody wrote, so a hive that uses the page may refuse it or not.

**Connection.** The branches of `_WIN32`: overlapped receives, a completion port
and two network threads, which is the build that `README.md:29-38` of the
repository recommends. (The other branches cannot exchange a message:
`HandleNewConnection` stores a connection's socket for Windows only, `remote.c:236`,
so that `recv` reads descriptor 0.) A socket is `net[s]`: the bytes in flight
(`flight`), those that arrived (`here`), whether a receive is `posted` and whether
the next one fails (`failed`). `rx[s]` is the parser's state (`len`, `call`, `buf` of
`struct hive_connection`), `conns` the table of connections: `ctx` is the socket
a hive reads, `out` the one it writes. `ReadType`, `ReadLength` and `ReadBodyPart`
are the branches of the loop in `Worker` (`remote.c:1115-1261`), `Deliver` cuts the
stream anywhere. `ConnectBack`, `SendAnswerHeader` and `SendAnswerBody` are
`ConfirmConnection`, which sends without the lock: a flood may come between the
two sends (`torn`). What failure does is what the code does: a failed receive ends
the thread that is told (`RecvFails`, lines 1136-1139) and leaves the connection
in the table; a peer that closed in order is removed (`PeerDisconnected`, 1153-1174)
with the help of memory that was freed just before; a call that fails
closes both sockets and frees a connection that stays in the table (`CallFails`).
The last two put the hive into `freed`: what follows from the use of freed memory is
the allocator's choice, so the process may end at any later moment (`Exit`)
or go on. `PeerDisconnected` also leaves by `ReleaseSRWLockShared` a lock that it
has entered exclusively; Windows releases it, and what else may come of it is
covered by `freed`.

**RemoteObject.** `path[h]` is the entry of `object_paths` (the neighbour and the
distance), `getList` and `setList` the lists of the object in the two wait tables,
`act[a]` what a worker or a network thread is in the middle of. A network thread
is named by the link it serves. A *turn* is the n-th last thing a worker does, so
that a request can be told from the ones before it; `writes` are the turns whose
push is stored, and the content of the object is how many they are. `floor[w]` is what
worker `w`'s hive had been told is stored when its read began. `StoreVia` and
`StoreDist` are two steps, as in the code.

Whom an answer to a push continues is what the two tests of the code let
through. `equal_bytes` (`api.c:37-49`) never moves its pointers and so compares the
first eight bytes of a key of `set_wait_list`, which name the object; and
`GetByteStringHash` (`api.c:52-61`) gives all data the same hash, so `x64OnPushObject`
takes every answer for its own. One "done" therefore continues every worker
of the hive that pushes this object, also one that is listed (`remote.c:1737`) and
has not sent its push yet (1757): `Pushers`, and the run `remote_pushers`. The push is
sent afterwards all the same. The answer that a relay passes on holds an address in place
of the hash (`callbackPushAnswerLocalId`) and continues nobody (`Done("address", 0)`).

**The compiler.** The state is `program`, `stage`, `build` (what `buildAst` and the
optimizer make), `order` (the order of the workers, which in the code is that of
pointers in a map), `seed` (the next value of `rand()`), `work` (the worker the
generator is at), `asm` (what is emitted), `image` (the executable) and `run` (a
program being run). One action is one pass, one attempt of `spreadRegisters`, one
worker generated, or one step of a run. The operators have the names of the
functions they translate. Text is left out: the tree comes from `Samples`, an
instruction is a record with the length in bytes that the assembler gives it,
so that the lengths of jumps and the addresses are those of the code. Three runs
of each program are compared with `Source`, which is written from the language's
documentation: the operations as translated, those left by the optimizer
(both by `IrMeaning`), and the machine code (`Machine`). `Source` and `IrMeaning`
translate no code; they are the definition that the code is held against.
What the cost function of the splits compares (floating-point weights of
variables) is left open: any choice that `rand()` may lead to is possible.

## Runs

| run | instance | checks |
|---|---|---|
| `queue` | 3 threads, 4 tasks, ring of 2 | type, `NoTaskTwice`, `CellBalance`, `NoOrphanClaim`, refinement `ImplementsPool`, `PopsProgress` |
| `scheduler` | 2 scheduler threads, 1 network thread, 2 tasks, one with affinity | type, `SizeExact`, refinement `ImplementsDispatch`, `VisibleWorkIsTaken` |
| `promise` | 2 waiters, 2 local and 1 remote pusher, 1 remote reader, 2 updaters | type, `PausedInOnePlace`, `TagCountsProcessing`, `ListedAreWoken` |
| `promise_lost` | 1 waiter, 1 pusher, 1 updater | `AwaitContinues` is violated |
| `wait_list` | 2 sleepers, 1 allocator, 2 updaters, 5 nodes, threshold 1 | type, `OneNodePerWaiter`, `FreeNodesUnreachable`, `SleepersResume` |
| `hash_table` | 2 threads, 3 colliding keys, tables of 4 and 8 cells | type, `OneCellPerKey`, `ProbeFindsKey`, `RegisteredIsFound`, `OperationsEnd` |
| `broadcast` | 3 hives closing a cycle, 1 id and 1 page question | type, `AskedOnce`, `AcceptanceIsEarned`, `FloodEnds` |
| `connection` | 2 hives; one connects with 1 flood, 1 break and 2 cuts, or with 2 floods, or both at once; headers of 1 + 2 bytes | type, `EndsMatch`, refinement `ImplementsChannel`, `HandshakeEnds`, `PeerIsForgotten` |
| `remote_object` | 3 hives in a triangle, the object at one, 5 workers in 4 scenarios, 1 link that may break | type, `NoStaleRead`, `PushedOnce`, `KnownIsAnswered` |
| `remote_pushers` | the same hives, two pushers at one of them | `ContinuedByOwnAnswer` is violated |
| `compiler` | 10 programs, 3 registers, both orders of the workers, 2 seeds | `ReturnsMeaning`, `EdgesMatch`, `CodeIsWhole`, `Ends` |
| `query_var_option` | a loop over a variable with `--optimize_query_var` | `ReturnsMeaning` is violated |

Why the bounds are enough for what they are meant to show:

- *Queue*: a ring of two cells and four tasks let two positions meet in one
  cell, the ring fill up, and three threads contend for one cell, one of them
  with a stale `head`. The proofs cover all other sizes.
- *Scheduler*: two thieves that steal from each other and a producer that
  neither owns a queue nor dequeues; both ways of counting `len`.
- *Wait list*: `THRESHOLD` 1 (16384 in the code) makes every resumed worker cut
  the chain, so that splices race with insertions and with another updater's
  exchange. `MaxNodes` bounds the nodes ever allocated, and a thread that needs one
  more stops there. Five are enough for one updater that works alone, or
  `SleepersResume` would fail. `MaxPauses` is 1.
- *Promise*: two of everything that can meet at the key, with
  `GETSET_WAIT_LIST_PARALLEL_PROCESSING` 1 as in the code.
- *Hash table*: all keys fall on the last cell of the first table, so every
  probe collides and wraps around. The first table grows with the second key
  (more than 4/4), so that the third insertion and the lookups meet two
  tables. `MaxTables` 2 stops further growth.
- *Broadcast*: a cycle of three is the smallest graph in which a question
  reaches a hive twice, and the hives may ask before or after each connection
  comes up. Numbers are random (63 or 40 bits) and are taken as distinct. A page
  has one object id (2^24 in the code), so that stock runs out.
- *Connection*: two sockets for each direction and attempt suffice for the
  temporary connections of both hives. A buffer of 6 bytes (4096 in the code) is
  longer than one message and shorter than two, so that a `recv` ends inside a
  message. A byte has four values and a length two bytes (seven in the code).
  Three budgets stand for three questions: every fault and every cut of one
  handshake; two floods in a row, of which one tears an answer and the other follows
  it; and two handshakes that cross.
- *Remote objects*: three hives in a triangle are the smallest graph with a
  relay, a cycle, and a hive that hears of the object from two sides. The scenarios: two
  pushers at the relay R and one beyond it, at A; two readers of A whose requests
  meet on the relay's list with a reader and pusher of the relay; a
  writer of A against one at the owner; and a push that must search first, while no
  path of A is known. In each one link may break, at any time.
  `INFINITY_DISTANCE` 9 exceeds every distance.
- *Compiler*: the programs are those of `examples/constructions` with smaller
  numbers (loops up and down, choices, calls and recursion through promises,
  several outputs, records and classes, a dll import, the local provider) and
  one, `many`, that needs more variables at once than there are registers. Three
  registers are the least that the instruction templates can do with. After
  `maxOptimizableIterations` 8 (50 in the code) everything is split, so that both
  ways of splitting are taken. Not run by any program: bit complement, records
  as arguments of the runtime's calls, the generic cast provider, the gpu.

Deadlock is checked for the queue, the scheduler and the hash table. In the
other runs the system may stop: all sleepers have slept, the promise is set,
all questions are asked, a program has ended.

## Fairness

Weak fairness, per thread, of the steps inside an operation: a thread that is
in the middle of a push, a pop, an insertion or a message handler is a running
operating-system thread and goes on. No thread has to begin an operation: a
worker need not push or call. Two exceptions, both loops in the code: a
scheduler thread without a task comes back for one (`ShedulerInstance`,
`sheduler.c:121-124`), and an idle one looks through the wait list
(`SheduleWorker`, `sheduler.c:88-91`). In `Broadcast` messages arrive: TCP
delivers, and the two workers read every connection. `PopsProgress` and
`VisibleWorkIsTaken` are statements about the system, not about one thread: a
single popper or thief may be overtaken for ever by others. `SleepersResume` is
said of the behaviours in which from some time on one updater alone is at work
(`OnlyOneWorks`), because two can hand the rest of a chain to each other for ever.
In `Connection` and `RemoteObject` a network thread serves what has arrived, a
listener accepts, and bytes arrive unless the connection breaks; no worker has to
begin a request. A network thread that ended (`RecvFails`) serves nothing, which
`PeerIsForgotten` excuses only when none is left. In `Compiler` the whole step is fair: the
compiler is one thread, and scheduler threads run the tasks of a program as long
as one can go on. `Spec` writes out when a step is possible (`CanGoOn`) because
evaluating `ENABLED Next` would run each pass twice.

## Proofs

Twenty-five theorems about seven modules hold for every value of the constants
that satisfies the modules' assumptions. Each is `Spec => []P` for the property
`P` of a run, except `Implementation` and `SchedulerDispatches`, which are
refinements, and `ExecutedOnce`, which follows from one. None has a hypothesis
about the initial states. Each proof has one step per action.

| module | theorem | `P` |
|---|---|---|
| `TaskQueueProofs` | `Typing` | `TypeOK` |
| | `ExactlyOnce` | `NoTaskTwice` |
| | `Balance` | `CellBalance` |
| | `ClaimsServed` | `NoOrphanClaim` |
| | `Implementation` | `Spec => ImplementsPool`: every step of the ring is a step of `TaskPool` or changes nothing of it |
| `SchedulerProofs` | `SchedulerTyping` | `TypeOK` |
| | `SizesNeverDrift` | `SizeExact` |
| | `SchedulerDispatches` | `Spec => ImplementsDispatch`: every step of the scheduler submits, starts or ends a record of `Dispatch`, or changes nothing of it |
| | `ExecutedOnce` | `D!Once`, the invariant of `Dispatch`, of the scheduler's rings and threads |
| `WaitListProofs` | `WaitListTyping` | `TypeOK` |
| | `OneNode` | `OneNodePerWaiter` |
| | `LiveNotRecycled` | `FreeNodesUnreachable` |
| `PromiseWaitProofs` | `PromiseTyping` | `TypeOK` |
| | `CallbacksCounted` | `TagCountsProcessing` |
| | `OnePlace` | `PausedInOnePlace` |
| `HashTableProofs` | `TableTyping` | `TypeOK` |
| | `KeysAreSingle` | `OneCellPerKey` |
| | `ProbesReachKeys` | `ProbeFindsKey` |
| | `RegisteredAreFound` | `RegisteredIsFound` |
| `BroadcastProofs` | `BroadcastTyping` | `TypeOK` |
| | `NeighboursAskedOnce` | `AskedOnce` |
| | `YesIsEarned` | `AcceptanceIsEarned` |
| `RemoteObjectProofs` | `RemoteTyping` | `TypeOK` |
| | `RemotePushedOnce` | `PushedOnce` |
| | `RemoteReads` | `NoStaleRead` |

**The queue**, for every ring size and all finite sets of threads and tasks
(`RingAssumption`). `NoTaskTwice` is inductive with `TypeOK`: a task enters with a
push only when it is in no hand, and the compare-exchange of `PopTake` empties
the very cell whose task it takes. `NoOrphanClaim` is not inductive: that a cell
a popper waits on will be filled depends on every position that falls on the
same cell. The strengthening is `CellBalance`, an equation for each cell: pushes
that are about to store there, plus the stored task, are as many as poppers
that wait there plus positions nobody has claimed. A push adds one to both
sides, a store moves one on the left, a claim moves one on the right, a take
removes one from each; `HeadInv` (`head` is never above `tail`, and a popper
about to claim saw a `head` below it) makes the claimed position one of those
counted. If a claimed cell is empty the equation leaves a pusher. For the
refinement, `PoolTally` counts over all cells at once: tasks in the pool are
claims plus free positions, so a claim is allowed exactly when `head < tail`,
and `head = tail` means that every task is claimed.

**The scheduler**, for all finite sets of threads, tasks and priorities. Typing
needs `Bound`: a thread that works on a queue has one. `SizeExact` compares a
stored number with four counts (the tasks in the rings, the pushes and the pops
that have not been counted). Every step moves one member between two of the
counted sets, or one between a set and `size`; `Single` says that a task is in
one ring or carried by one thread, without which a push might add nothing to its
ring. For the refinement, what waits (`Waiting`) is what the rings hold together
with the records that a thread carries to a ring or away from it (`Carrying`): a
push and a pop move a record between these and so change nothing, and when
`scheduler_dequeue` returns, `Single` makes the record disappear from all of them
at once. A pusher that only counts any more (`setBit` and later) carries nothing:
its record may have been executed already. `Free` says that a thread which looks
for work executes none. No two threads executing one record (`Once`) is then
proved of `Dispatch`, where it is inductive, and carried over.

**The wait list**, for any sets of workers and updaters, any finite set of nodes
and any threshold. That a freed node is on no chain says nothing by itself about
the next step: a thread may hold a node it has taken from its chain, or one it
is about to link. `Busy` gives every node that is in a thread's hands a place that
excludes the list of free nodes, `Apart` keeps what the public list, the updater
and the inserting threads reach disjoint, `Acyclic` keeps a node from following
itself, without which unlinking one would leave it reachable, and `Waits` ties
a node to the worker it was made for. What a chain reaches (`Follow`) is defined
as the nodes met after some number of links; the lemmas show that it is the least
set with its first node and what follows each of its members, and the proofs
about steps use only that. The library's induction over numbers cannot be
instantiated by the provers here, so `NatIsInductive` gets it from the least
number of a set.

**The promise**, for any sets of waiters, pushers, remote pushers and updaters.
`TagInv` has the types, `LocalTakes` (only a push of this hive takes the list, so
the threads that run callbacks are among `Pushers`, which is finite) and
`TagCountsProcessing` itself: the tag is the number of threads that wake. For
`PausedInOnePlace` the invariant says for each waiter that it is paused exactly
when it is somewhere (`Somewhere`), that the places exclude one another (`Apart`:
the wait list, the hand of an updater, the list under the key, the list of a
push), and that the lists which a step overwrites are empty (`Emptied`).

**The table**, for any keys, hash function, number of threads and of tables.
`ProbeInv` is about the cells between the home of a key and where it is held or
being brought: none is free and none holds that key (`HeldBehind`,
`BroughtBehind`); a cell that was claimed stays busy (`StoresBusy`), and
two threads never store to one cell (`StoresApart`). A cell that was taken is
never freed, so these survive the steps of all other threads, and two cells with
one key would each lie behind the other. `RegisteredIsFound` speaks of lookups
that begin after the registration: `InsertedHeld` says that a registered key is
in some table, `DueAhead` that a lookup which must succeed still has it ahead, in
the cells of its table that it has not seen or in an older table. That holds
across the publication of a table because a new table is entered above all
others and one thread at a time publishes (`PublishInv`). `AllocAssumption` (a
table's size, `INIT_ALLOC * 2 ^ h`, is a positive natural) is an assumption only
because the provers know nothing of powers; TLC evaluates it.

**The broadcasts**, for every finite graph of hives, with cycles, to which
connections may be added at any time, any broadcasts and any number of network
workers. `Typed` says besides the types that messages, entries and redirections
are on connections that exist and about broadcasts that have begun, and
(`AskersOK`) that a thread which asks the neighbours does so for the connection
that the entry came from; so two threads never ask in one broadcast. `CountInv`
counts: the neighbours asked, those still to be asked and the one that was asked
but is not counted yet are together at most the neighbours other than the one
that asked (`AskAt`); and the hive has told that one only after an answer, or with
nobody asked and no thread asking (`EarnAt`).

**Remote objects**, for any graph of hives with an owner, cycles included, any
paths at the start, any programs of gets and sets, any number of searches at a
time, and any number of broken connections. `Typed` has the types (`TypeOK`), that an agent with
work is not at the owner and that a path which is being changed exists (`Agency`), and
that a worker is paused where its hive's lists say (`Lists`).

`PushedOnce` is about where a push can be: in the hands of an agent that will ask,
in a request under way, or stored. `OnePush` says that it is in one place of the
first two kinds, and only while it is pending, that is begun and not stored; a
search drops it, a relay takes it out of the channel in the step that puts it into
an agent's hands, the owner in the step that stores it. What its worker does meanwhile is
left open, since that may go on by the answer to another push.

`NoStaleRead` rests on two facts. `Known` needs no condition: nobody is told more than is
stored, and an answer under way holds no more than its sender was told
(`Bound`). The other is `Fresh`, which says that what a hive learned from
a neighbour the neighbour was told before, that the answers on a channel never go
back, and that what comes from a source is not older than what it told
before; so an answer that wakes a reader is not older than its `floor`, whichever
request it answers. `Fresh` needs that the answers of a hive come from one neighbour:
with two, one may be behind the other. So the inductive invariant is
`Typed /\ Known /\ (Single => Fresh)`. `Single` is a state predicate over the history
variable `sources`, which only grows, so that a state in which it holds was
reached through such states. Without the condition the property is false, and
this is a fact about the code: see the findings.

Only model-checked:

- liveness (`PopsProgress`, `VisibleWorkIsTaken`, `ListedAreWoken`,
  `SleepersResume`, `OperationsEnd`, `FloodEnds`, `HandshakeEnds`,
  `PeerIsForgotten`, `KnownIsAnswered`, `Ends`), which is out of reach of the prover;
- `Connection`. `ConnectionAssumption` asks that types and numbers of connections
  fit a byte and that a body is shorter than `Byte`. The code needs this too: it
  writes the lengths of these messages, at most 24 bytes, to the first byte of a
  header whose other length bytes are zero (`remote.c:1791`). A longer body, whose
  length the header cannot say, is not checked, since none of the messages
  modelled there has one;
- the compiler, whose modules are recursive throughout.

## Findings

Shown by a run:

- A worker that awaits a promise may never continue: an idle thread sees the
  promise not ready, the push takes the (empty) list, then the thread inserts
  the worker (`promise_lost`, `x64/query_object.c:109-122`).
- With `--optimize_query_var=true`, which `README.md` recommends, a while loop over a
  variable is never entered: the jump over the body counts on an operation
  that this option leaves out (`query_var_option`, `ir/parsing/statement.cpp:50`).
- The answer to one push continues every worker of the hive that pushes the same
  object, also one whose push is not sent yet; that worker may then read what was
  there before (`remote_pushers`, `api.c:45`, `remote.c:924`).

Reached in these models by these or other instances, and kept as facts about the
code:

- A scheduler queue's mask bit is cleared after its ring was found empty. A push
  in between has set the bit already: its task stays hidden until the next push
  to that queue (`queue.c:134`).
- A push from another hive never takes the list of waiters (`remote.c:893-898`).
  A query from another hive is answered without a look at `ready`
  (`remote.c:847-851`), and `ready` is set before the data is stored
  (`x64/push_object.c:16`), so that either may return the old bytes.
- A worker paused by `x64NewObject` because there is no page of ids is linked
  nowhere and never continues (`x64/new_object.c:151`).
- A question is counted after it is sent. If the first neighbour answers before
  the second is counted, a page is confirmed twice and its ids are given twice
  (`remote.c:1303`; `ObjectIdsAreNew` of `Broadcast` with two neighbours). In the
  other order, an answer that comes before its question is counted is lost to
  the comparison.
- `ConfirmConnection` makes the new socket visible and then sends its answer in two
  pieces without the lock; what another thread sends in between lands in the
  middle of the answer (`remote.c:1372-1378`, `Flood` between `SendAnswerHeader` and
  `SendAnswerBody`). The receiver takes the other message's header for the number of a
  connection, finds none, and the call fails: both sockets are closed, the
  connection is freed and stays in the table. `ImplementsChannel` says that
  nothing is handled in the answer's place; the handshake never ends.
- A receive that fails ends the network thread that is told, and the connection
  stays (`remote.c:1136-1139`); after two of them the hive has no network thread
  (`RecvFails`). A peer that closes in order is removed, but the connection is used
  after it was freed (`remote.c:1170-1172`).
- A hive may read less than it was told is stored, when its answers come from two
  neighbours: a search resets the known path and the hive's next request goes to one
  that answers from an older value (`remote.c:982`; `NoStaleRead` of `RemoteObject`
  without its condition, on a line of three hives, the one in the middle with unknown
  path and three workers).
- A second search for the same object sets the distance of the known path to
  infinity while answers to the first are under way; two hives may then come
  to send requests for the object to each other for ever (`remote.c:982`, `1586`;
  `RemoteObject` with two workers of A that search).
- One search is enough where the hives form a cycle. A path is compared, then its
  neighbour and its distance are stored without a lock; two network threads of
  one hive may do so in turns and leave the neighbour of one answer with the
  distance of the other. Two hives can then keep paths to each other for ever
  (`remote.c:980-985`; `RemoteObject` on a cycle of four hives with one worker that
  searches, no path known). That paths lead to the owner is therefore not a
  property of this code, and `KnownIsAnswered`, which asks for known paths at the
  start of a request, is checked where they stay known.

Met while reading, and not shown by a run (hazards in `PROJECT.json`): the
thread that should update the wait list tests a pointer instead of the flag and
never runs, so requests to other hives are never repeated
(`sheduler.c:26`); a relayed page question is entered in one table and its
answers are looked up in another (`remote.c:753`); nothing is ever written to the
tables of numbers that are asked for (`remote.c:607`, `735`); the load of a hive
is never sent (`remote.c:1861`); the key space of the byte table can hand out
one cell twice (`api.c:235`); `recv` is called once per event of at most 4096
bytes on an edge-triggered descriptor (`remote.c:1144`), and several lengths are
written to one byte of the header (`remote.c:1546`, `1758`, `1774`); a path that
leads through a broken connection stays and its connection is then looked up
without a test for NULL (`remote.c:1694`, `1755`). In the compiler: `!x` is
translated without a negation (`ir/parsing/prefixOp.cpp:39`); the comparison of
signed numbers follows the type of its result (`operation.cpp:47`); record-valued
forms of query index, push and bit complement read the wrong operand
(`operation.cpp:471`, `608`); an empty block is taken as if it had an operation
(`buildWorkerContent`). A product with a constant above 127
(the size of large elements, `printRRC`) is written with eight bytes of constant where
the processor reads four, so that the rest is code (`asm.cpp:748-753`).
`Parsing` and `X64` translate these as they stand; the programs avoid them.

## Not modelled

- The text parser (generated from the grammar) and the gpu generator, which
  writes OpenCL text. Of the compiler's output only x64 and dll items are loaded.
- Placement of workers, the cast provider, start and stop of the thread pool, the
  record allocators and the byte-key table: see the plan.
- Runtimes 0.1 and 0.2: superseded (`README.md` of the repository names 0.3).
- The gpu, dll and local providers: marshalling around calls of a driver or a
  foreign function.
- Assembly and the platform layer: the step that pauses or continues a worker,
  and sockets and threads, are atomic steps of the other models.
- Contents of messages and objects beyond what the properties tell apart;
  logging, printing and the console.
- `Broadcast` while connections break.

## Plan

Done: the queue, the scheduler, the wait list, promises, the integer table, the
broadcasts, remote objects and connections, and the compiler from the tree to
the loaded program. The map covers 38 % of the implementation's lines. What is
left, in this order:

1. *ByteTable*: `hashtable` with values that are updated: the key space
   (`api.c:235-270`), insertion, tagged take and release, and growth under
   updates. Abstract specification: a map from keys to tagged lists; the table
   shown to implement it while no growth happens, and what growth breaks.
   `PromiseWait` then rests on it.
2. *WorkerStart*: `StartNewWorker`, the choice of a hive and a provider, the cast
   provider and its states; and *ThreadPool*: start, stop and stall.
3. *Allocators*: the spin-locked free lists, as a pool of records.
4. The gpu generator and its header item.
