----------------------------- MODULE TaskQueue -----------------------------
(***************************************************************************)
(* The ring of src/runtimes/0.3/common/queue.c that holds the runnable     *)
(* workers of one scheduler queue at one priority.  The build defines      *)
(* ALWAYS_PUSH_FRONT, so the only operations are queue_push_front and      *)
(* queue_pop: the ring is used as a stack that grows downwards from        *)
(* position 0, and tail never moves.                                       *)
(*                                                                         *)
(* Both operations first move head and only then touch the cell: between   *)
(* the two a cell may be reserved by several pushers and claimed by        *)
(* several poppers at once.  One action per access to shared memory.       *)
(***************************************************************************)
EXTENDS Integers, FiniteSets

CONSTANTS Threads,    \* threads that call into the queue
          Tasks,      \* struct queued_worker records
          RING_SIZE,  \* cells of the ring (262144 in the code)
          NULL        \* the null pointer

ASSUME RingAssumption ==
    /\ RING_SIZE \in Nat \ {0}
    /\ IsFiniteSet(Threads)
    /\ IsFiniteSet(Tasks)
    /\ NULL \notin Tasks

VARIABLES buffer,  \* the cells
          head,    \* next position to pop; a push takes head - 1
          tail,    \* stays 0: only queue_push would move it
          pc,      \* where each thread is inside a queue operation
          h,       \* local variable h of queue_push_front and queue_pop
          data,    \* local variable data of both operations
          got      \* the task a thread popped and is now executing

vars == <<buffer, head, tail, pc, h, data, got>>

Cells == 0 .. (RING_SIZE - 1)

\* h & RING_MASK: RING_SIZE is a power of two in the code, so masking a
\* negative position is this modulus.
Cell(i) == i % RING_SIZE

Claiming == {t \in Threads : pc[t] \in {"popLoad", "popTake"}}
Pushing  == {t \in Threads : pc[t] = "pushStore"}

\* The tasks in the hands of the queue: reserved by a pusher or in a cell.
Stored == {buffer[c] : c \in {k \in Cells : buffer[k] # NULL}}
Pool   == {data[t] : t \in Pushing} \cup Stored

Held == {got[t] : t \in {u \in Threads : got[u] # NULL}}

Init ==
    /\ buffer = [c \in Cells |-> NULL]
    /\ head = 0
    /\ tail = 0
    /\ pc = [t \in Threads |-> "idle"]
    /\ h = [t \in Threads |-> 0]
    /\ data = [t \in Threads |-> NULL]
    /\ got = [t \in Threads |-> NULL]

---------------------------------------------------------------------------
(* queue_push_front *)

\* h = fetch_add(head, -1) - 1, for a record no one else is using.
PushReserve(t, d) ==
    /\ pc[t] = "idle"
    /\ d \notin Pool \cup Held
    /\ head' = head - 1
    /\ h' = [h EXCEPT ![t] = head - 1]
    /\ data' = [data EXCEPT ![t] = d]
    /\ pc' = [pc EXCEPT ![t] = "pushStore"]
    /\ UNCHANGED <<buffer, tail, got>>

\* Broken: a plain store, as queue_push has it, overwrites a full cell.
PushOverwrite(t) ==
    /\ pc[t] = "pushStore"
    /\ buffer' = [buffer EXCEPT ![Cell(h[t])] = data[t]]
    /\ data' = [data EXCEPT ![t] = NULL]
    /\ pc' = [pc EXCEPT ![t] = "idle"]
    /\ UNCHANGED <<head, tail, h, got>>

\* The compare-exchange of the cell from NULL; a failed one only spins.
PushStore(t) ==
    /\ pc[t] = "pushStore"
    /\ buffer[Cell(h[t])] = NULL
    /\ buffer' = [buffer EXCEPT ![Cell(h[t])] = data[t]]
    /\ data' = [data EXCEPT ![t] = NULL]
    /\ pc' = [pc EXCEPT ![t] = "idle"]
    /\ UNCHANGED <<head, tail, h, got>>

---------------------------------------------------------------------------
(* queue_pop *)

PopLoadHead(t) ==
    /\ pc[t] = "idle"
    /\ got[t] = NULL
    /\ h' = [h EXCEPT ![t] = head]
    /\ pc' = [pc EXCEPT ![t] = "popTail"]
    /\ UNCHANGED <<buffer, head, tail, data, got>>

\* Broken: an off-by-one in the test for the empty queue.
PopLoadTailOff(t) ==
    /\ pc[t] = "popTail"
    /\ pc' = [pc EXCEPT ![t] = IF h[t] > tail THEN "idle" ELSE "popClaim"]
    /\ UNCHANGED <<buffer, head, tail, h, data, got>>

\* Load tail; an empty queue returns NULL.
PopLoadTail(t) ==
    /\ pc[t] = "popTail"
    /\ pc' = [pc EXCEPT ![t] = IF h[t] >= tail THEN "idle" ELSE "popClaim"]
    /\ UNCHANGED <<buffer, head, tail, h, data, got>>

\* Broken: a plain store of head in place of the compare-exchange.
PopClaimBlind(t) ==
    /\ pc[t] = "popClaim"
    /\ head' = h[t] + 1
    /\ pc' = [pc EXCEPT ![t] = "popLoad"]
    /\ UNCHANGED <<buffer, tail, h, data, got>>

\* The compare-exchange of head; on failure it reloads h and tries again.
PopClaim(t) ==
    /\ pc[t] = "popClaim"
    /\ IF head = h[t]
       THEN /\ head' = head + 1
            /\ pc' = [pc EXCEPT ![t] = "popLoad"]
            /\ h' = h
       ELSE /\ h' = [h EXCEPT ![t] = head]
            /\ pc' = [pc EXCEPT ![t] = "popTail"]
            /\ head' = head
    /\ UNCHANGED <<buffer, tail, data, got>>

\* Broken: no wait for the pusher.
PopLoadAtOnce(t) ==
    /\ pc[t] = "popLoad"
    /\ data' = [data EXCEPT ![t] = buffer[Cell(h[t])]]
    /\ pc' = [pc EXCEPT ![t] = "popTake"]
    /\ UNCHANGED <<buffer, head, tail, h, got>>

\* Spin until the cell of the claimed position is not NULL.
PopLoad(t) ==
    /\ pc[t] = "popLoad"
    /\ buffer[Cell(h[t])] # NULL
    /\ data' = [data EXCEPT ![t] = buffer[Cell(h[t])]]
    /\ pc' = [pc EXCEPT ![t] = "popTake"]
    /\ UNCHANGED <<buffer, head, tail, h, got>>

\* Broken: the cell is cleared without a compare.
PopTakeBlind(t) ==
    /\ pc[t] = "popTake"
    /\ buffer' = [buffer EXCEPT ![Cell(h[t])] = NULL]
    /\ got' = [got EXCEPT ![t] = data[t]]
    /\ data' = [data EXCEPT ![t] = NULL]
    /\ pc' = [pc EXCEPT ![t] = "idle"]
    /\ UNCHANGED <<head, tail, h>>

\* The compare-exchange of the cell to NULL.
PopTake(t) ==
    /\ pc[t] = "popTake"
    /\ buffer[Cell(h[t])] = data[t]
    /\ buffer' = [buffer EXCEPT ![Cell(h[t])] = NULL]
    /\ got' = [got EXCEPT ![t] = data[t]]
    /\ data' = [data EXCEPT ![t] = NULL]
    /\ pc' = [pc EXCEPT ![t] = "idle"]
    /\ UNCHANGED <<head, tail, h>>

\* Broken: the compare-exchange is repeated with the stale datum.
PopRetryStale(t) ==
    /\ pc[t] = "popTake"
    /\ buffer[Cell(h[t])] # data[t]
    /\ UNCHANGED vars

\* Another popper emptied the cell first: load it again.
PopRetry(t) ==
    /\ pc[t] = "popTake"
    /\ buffer[Cell(h[t])] # data[t]
    /\ data' = [data EXCEPT ![t] = NULL]
    /\ pc' = [pc EXCEPT ![t] = "popLoad"]
    /\ UNCHANGED <<buffer, head, tail, h, got>>

\* The caller has run the task: x64ExecuteWorker frees the record, which
\* AllocateQueuedWorker may hand out again.
Release(t) ==
    /\ pc[t] = "idle"
    /\ got[t] # NULL
    /\ got' = [got EXCEPT ![t] = NULL]
    /\ UNCHANGED <<buffer, head, tail, pc, h, data>>

---------------------------------------------------------------------------

\* The steps of an operation under way.
Continue(t) ==
    \/ PushStore(t)
    \/ PopLoadTail(t)
    \/ PopClaim(t)
    \/ PopLoad(t)
    \/ PopTake(t)
    \/ PopRetry(t)

Next ==
    \E t \in Threads :
        \/ Continue(t)
        \/ PopLoadHead(t)
        \/ Release(t)
        \/ \E d \in Tasks : PushReserve(t, d)

Spec == Init /\ [][Next]_vars

\* A thread inside an operation keeps running; none has to start one.
FairSpec == Spec /\ \A t \in Threads : WF_vars(Continue(t))

---------------------------------------------------------------------------
(* Properties *)

TypeOK ==
    /\ buffer \in [Cells -> Tasks \cup {NULL}]
    /\ head \in Int
    /\ tail = 0
    /\ pc \in [Threads -> {"idle", "pushStore", "popTail", "popClaim",
                           "popLoad", "popTake"}]
    /\ h \in [Threads -> Int]
    /\ data \in [Threads -> Tasks \cup {NULL}]
    /\ got \in [Threads -> Tasks \cup {NULL}]
    /\ \A t \in Threads : pc[t] \in {"pushStore", "popTake"} => data[t] \in Tasks

\* No record is in two places: a task reserved, stored or executing is
\* reserved, stored or executing once.  A second copy would make two worker
\* threads run the same paused worker (queue.c:63-74, the take of a cell).
NoTaskTwice ==
    /\ \A t \in Pushing : data[t] \notin Stored \cup Held
    /\ \A t, u \in Pushing : data[t] = data[u] => t = u
    /\ \A b, c \in Cells : buffer[b] = buffer[c] /\ buffer[b] # NULL => b = c
    /\ Stored \cap Held = {}
    /\ \A t, u \in Threads : got[t] = got[u] /\ got[t] # NULL => t = u

\* The bookkeeping of one cell: the pushes and the datum it can give cover
\* the pops that wait on it and the positions nobody claimed yet.
PushingAt(c)  == {t \in Pushing : Cell(h[t]) = c}
ClaimingAt(c) == {t \in Claiming : Cell(h[t]) = c}
FreeAt(c)     == {i \in head .. (tail - 1) : Cell(i) = c}

CellBalance ==
    \A c \in Cells :
        Cardinality(PushingAt(c)) + (IF buffer[c] = NULL THEN 0 ELSE 1)
            = Cardinality(ClaimingAt(c)) + Cardinality(FreeAt(c))

\* A popper that moved head and spins on a cell is never abandoned: the cell
\* is full or a pusher is about to fill it (queue.c:62-73, "wait for data").
NoOrphanClaim ==
    \A t \in Claiming :
        \/ buffer[Cell(h[t])] # NULL
        \/ PushingAt(Cell(h[t])) # {}

\* The queue is a pool of tasks.  A pop learns that there is no task when it
\* loads head (line 50) or when its compare-exchange reloads it (line 60).
ToldEmpty == {t \in Threads : pc[t] = "popTail" /\ h[t] >= tail}

P == INSTANCE TaskPool WITH pool <- Pool, claimed <- Claiming, toldEmpty <- ToldEmpty

\* Implementation of the abstract pool (queue_push_front and queue_pop).
ImplementsPool == P!PoolSpec

\* Lock-freedom of queue_pop: while some popper stays inside its wait for a
\* cell, tasks keep being taken.  (One popper alone may be overtaken for ever.)
SomeTake == \E t \in Threads : PopTake(t)

PopsProgress == <>[](Claiming # {}) => []<><<SomeTake>>_vars
=============================================================================
