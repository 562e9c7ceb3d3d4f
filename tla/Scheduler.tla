----------------------------- MODULE Scheduler -----------------------------
(***************************************************************************)
(* The work-stealing scheduler of src/runtimes/0.3/common/queue.c: one     *)
(* scheduler_queue per scheduler thread, each with a ring per priority, a  *)
(* mask of the priorities that may hold tasks and a count of its tasks;    *)
(* and the global count scheduler.len.                                     *)
(*                                                                         *)
(* A ring is the pool of TaskPool, which TaskQueue implements: here        *)
(* queue_push_front and queue_pop each take one step, at the moment they   *)
(* touch the ring.  Everything around the ring (mask, size, len) is one    *)
(* action per access to shared memory, in the order of the code.           *)
(*                                                                         *)
(* The rings are pushed to by the scheduler threads themselves, while they *)
(* run a worker or look through the wait list, and by the threads that     *)
(* read the network.                                                       *)
(***************************************************************************)
EXTENDS Integers, FiniteSets

CONSTANTS SchedulerThreads,  \* ShedulerInstance threads; each names its queue
          NextQueue,         \* NextQueue[q]: the victim tried after q
          OtherThreads,      \* threads that only enqueue (network listeners)
          Tasks,             \* struct queued_worker records
          Affinity,          \* Affinity[d]: the queue of d's worker, or None
          Priorities,        \* priorities in use (1 in every call of the code)
          None

Threads == SchedulerThreads \cup OtherThreads
Queues  == SchedulerThreads

ASSUME SchedulerAssumption ==
    /\ IsFiniteSet(SchedulerThreads) /\ SchedulerThreads # {}
    /\ IsFiniteSet(OtherThreads)
    /\ IsFiniteSet(Tasks)
    /\ Priorities \subseteq Nat /\ IsFiniteSet(Priorities)
    /\ NextQueue \in [Queues -> Queues]
    /\ Affinity \in [Tasks -> Queues \cup {None}]
    /\ None \notin Tasks \cup Queues

VARIABLES ring,     \* ring[q][i]: the tasks of queue q at priority i
          mask,     \* active_mask of each queue, as the set of its bits
          size,     \* size of each queue
          len,      \* scheduler.len
          pc,       \* where each thread is
          task,     \* the task being enqueued, or dequeued and not yet counted
          queue,    \* the queue a thread works on (target, victim)
          prio,     \* the priority a thread works on
          seen,     \* local variable mask of scheduler_queue_pop
          scanned,  \* local variable n of the steal loop; -1 in its own queue
          running   \* the task a scheduler thread executes

vars == <<ring, mask, size, len, pc, task, queue, prio, seen, scanned, running>>

Highest(i, s) == i \in s /\ \A j \in s : j <= i

\* The records that are in some hand: of a ring, or of a thread.
InUse ==
    (UNION {ring[q][i] : q \in Queues, i \in Priorities})
        \cup {task[t] : t \in Threads} \cup {running[t] : t \in Threads}

Init ==
    /\ ring = [q \in Queues |-> [i \in Priorities |-> {}]]
    /\ mask = [q \in Queues |-> {}]
    /\ size = [q \in Queues |-> 0]
    /\ len = 0
    /\ pc = [t \in Threads |-> "idle"]
    /\ task = [t \in Threads |-> None]
    /\ queue = [t \in Threads |-> None]
    /\ prio = [t \in Threads |-> 0]
    /\ seen = [t \in Threads |-> {}]
    /\ scanned = [t \in Threads |-> 0]
    /\ running = [t \in Threads |-> None]

Goto(t, label) == pc' = [pc EXCEPT ![t] = label]

---------------------------------------------------------------------------
(* scheduler_enqueue and scheduler_enqueue_with_affinity *)

\* A fresh record goes to the queue of its affinity, or to the smaller of two
\* queues drawn at random.
Enqueue(t, d, i) ==
    /\ pc[t] = "idle"
    /\ d \notin InUse
    /\ task' = [task EXCEPT ![t] = d]
    /\ prio' = [prio EXCEPT ![t] = i]
    /\ \/ /\ Affinity[d] # None
          /\ queue' = [queue EXCEPT ![t] = Affinity[d]]
          /\ Goto(t, "countFirst")
       \/ /\ Affinity[d] = None
          /\ \E q, r \in Queues :
                queue' = [queue EXCEPT ![t] = IF size[q] < size[r] THEN q ELSE r]
          /\ Goto(t, "push")
    /\ UNCHANGED <<ring, mask, size, len, seen, scanned, running>>

\* s->len++ of scheduler_enqueue_with_affinity, before the push.
CountFirst(t) ==
    /\ pc[t] = "countFirst"
    /\ len' = len + 1
    /\ Goto(t, "push")
    /\ UNCHANGED <<ring, mask, size, task, queue, prio, seen, scanned, running>>

\* queue_push_front
Push(t) ==
    /\ pc[t] = "push"
    /\ ring' = [ring EXCEPT ![queue[t]][prio[t]] = @ \cup {task[t]}]
    /\ Goto(t, "setBit")
    /\ UNCHANGED <<mask, size, len, task, queue, prio, seen, scanned, running>>

SetBit(t) ==
    /\ pc[t] = "setBit"
    /\ mask' = [mask EXCEPT ![queue[t]] = @ \cup {prio[t]}]
    /\ Goto(t, "addSize")
    /\ UNCHANGED <<ring, size, len, task, queue, prio, seen, scanned, running>>

\* size++ ends a push with affinity; without, s->len++ is still to come.
AddSize(t) ==
    /\ pc[t] = "addSize"
    /\ size' = [size EXCEPT ![queue[t]] = @ + 1]
    /\ Goto(t, IF Affinity[task[t]] # None THEN "idle" ELSE "countLast")
    /\ task' = [task EXCEPT ![t] = IF Affinity[@] # None THEN None ELSE @]
    /\ UNCHANGED <<ring, mask, len, queue, prio, seen, scanned, running>>

CountLast(t) ==
    /\ pc[t] = "countLast"
    /\ len' = len + 1
    /\ task' = [task EXCEPT ![t] = None]
    /\ Goto(t, "idle")
    /\ UNCHANGED <<ring, mask, size, queue, prio, seen, scanned, running>>

---------------------------------------------------------------------------
(* scheduler_dequeue and scheduler_queue_pop *)

\* A scheduler thread that runs nothing looks in its own queue first.
Dequeue(t) ==
    /\ t \in SchedulerThreads
    /\ pc[t] = "idle"
    /\ running[t] = None
    /\ queue' = [queue EXCEPT ![t] = t]
    /\ scanned' = [scanned EXCEPT ![t] = -1]
    /\ Goto(t, "loadMask")
    /\ UNCHANGED <<ring, mask, size, len, task, prio, seen, running>>

\* Broken: the early return on an empty mask is missing.
LoadMaskAlways(t) ==
    /\ pc[t] = "loadMask"
    /\ seen' = [seen EXCEPT ![t] = mask[queue[t]]]
    /\ Goto(t, "pop")
    /\ UNCHANGED <<ring, mask, size, len, task, queue, prio, scanned, running>>

\* Load active_mask; with no bit set there is nothing in this queue.
LoadMask(t) ==
    /\ pc[t] = "loadMask"
    /\ seen' = [seen EXCEPT ![t] = mask[queue[t]]]
    /\ Goto(t, IF mask[queue[t]] = {} THEN "nextVictim" ELSE "pop")
    /\ UNCHANGED <<ring, mask, size, len, task, queue, prio, scanned, running>>

\* Broken: the task is read and its cell is not emptied.
PopKeeps(t) ==
    /\ pc[t] = "pop"
    /\ \E i \in Priorities :
           /\ Highest(i, seen[t])
           /\ prio' = [prio EXCEPT ![t] = i]
           /\ \/ \E d \in ring[queue[t]][i] :
                    /\ task' = [task EXCEPT ![t] = d]
                    /\ Goto(t, "subSize")
              \/ /\ ring[queue[t]][i] = {}
                 /\ Goto(t, "clearBit")
                 /\ UNCHANGED task
    /\ UNCHANGED <<ring, mask, size, len, queue, seen, scanned, running>>

\* queue_pop of the highest priority seen: some task of that ring, or NULL.
Pop(t) ==
    /\ pc[t] = "pop"
    /\ \E i \in Priorities :
           /\ Highest(i, seen[t])
           /\ prio' = [prio EXCEPT ![t] = i]
           /\ \/ \E d \in ring[queue[t]][i] :
                    /\ ring' = [ring EXCEPT ![queue[t]][i] = @ \ {d}]
                    /\ task' = [task EXCEPT ![t] = d]
                    /\ Goto(t, "subSize")
              \/ /\ ring[queue[t]][i] = {}
                 /\ Goto(t, "clearBit")
                 /\ UNCHANGED <<ring, task>>
    /\ UNCHANGED <<mask, size, len, queue, seen, scanned, running>>

\* "this is empty bucket - clear it", then the mask is loaded again.
ClearBit(t) ==
    /\ pc[t] = "clearBit"
    /\ mask' = [mask EXCEPT ![queue[t]] = @ \ {prio[t]}]
    /\ Goto(t, "loadMask")
    /\ UNCHANGED <<ring, size, len, task, queue, prio, seen, scanned, running>>

\* Broken: a thief counts down its own queue and not its victim's.
SubOwnSize(t) ==
    /\ pc[t] = "subSize"
    /\ size' = [size EXCEPT ![t] = @ - 1]
    /\ Goto(t, "subLen")
    /\ UNCHANGED <<ring, mask, len, task, queue, prio, seen, scanned, running>>

SubSize(t) ==
    /\ pc[t] = "subSize"
    /\ size' = [size EXCEPT ![queue[t]] = @ - 1]
    /\ Goto(t, "subLen")
    /\ UNCHANGED <<ring, mask, len, task, queue, prio, seen, scanned, running>>

\* s->len--; the task is returned and SheduleWorker executes it.
SubLen(t) ==
    /\ pc[t] = "subLen"
    /\ len' = len - 1
    /\ running' = [running EXCEPT ![t] = task[t]]
    /\ task' = [task EXCEPT ![t] = None]
    /\ Goto(t, "idle")
    /\ UNCHANGED <<ring, mask, size, queue, prio, seen, scanned>>

\* Broken: the victim is never advanced.
SameVictim(t) ==
    /\ pc[t] = "nextVictim"
    /\ scanned' = [scanned EXCEPT ![t] = @ + 1]
    /\ Goto(t, IF scanned'[t] < Cardinality(Queues) THEN "loadMask" ELSE "idle")
    /\ UNCHANGED <<ring, mask, size, len, task, queue, prio, seen, running>>

\* The steal loop: every other queue once, then its own again; a victim whose
\* mask is 0 is passed over.  When all were tried, there is no task (NULL).
NextVictim(t) ==
    /\ pc[t] = "nextVictim"
    /\ scanned' = [scanned EXCEPT ![t] = @ + 1]
    /\ \/ /\ scanned'[t] < Cardinality(Queues)
          /\ queue' = [queue EXCEPT ![t] = NextQueue[@]]
          /\ Goto(t, IF mask[queue'[t]] = {} THEN "nextVictim" ELSE "loadMask")
       \/ /\ scanned'[t] >= Cardinality(Queues)
          /\ queue' = queue
          /\ Goto(t, "idle")
    /\ UNCHANGED <<ring, mask, size, len, task, prio, seen, running>>

\* The worker ends or pauses: its record is freed.
Finish(t) ==
    /\ pc[t] = "idle"
    /\ running[t] # None
    /\ running' = [running EXCEPT ![t] = None]
    /\ UNCHANGED <<ring, mask, size, len, pc, task, queue, prio, seen, scanned>>

---------------------------------------------------------------------------

Continue(t) ==
    \/ CountFirst(t) \/ Push(t) \/ SetBit(t) \/ AddSize(t) \/ CountLast(t)
    \/ LoadMask(t) \/ Pop(t) \/ ClearBit(t) \/ SubSize(t) \/ SubLen(t)
    \/ NextVictim(t)

Next ==
    \E t \in Threads :
        \/ Continue(t)
        \/ Dequeue(t)
        \/ Finish(t)
        \/ \E d \in Tasks, i \in Priorities : Enqueue(t, d, i)

Spec == Init /\ [][Next]_vars

\* A thread inside a scheduler call goes on, and a scheduler thread that runs
\* nothing calls scheduler_dequeue again (the loop of ShedulerInstance).  A
\* worker need never end.
FairSpec ==
    Spec /\ \A t \in Threads : WF_vars(Continue(t)) /\ WF_vars(Dequeue(t))

---------------------------------------------------------------------------
(* Properties *)

TypeOK ==
    /\ ring \in [Queues -> [Priorities -> SUBSET Tasks]]
    /\ mask \in [Queues -> SUBSET Priorities]
    /\ size \in [Queues -> Int]
    /\ len \in Int
    /\ pc \in [Threads -> {"idle", "countFirst", "push", "setBit", "addSize",
                           "countLast", "loadMask", "pop", "clearBit", "subSize",
                           "subLen", "nextVictim"}]
    /\ task \in [Threads -> Tasks \cup {None}]
    /\ queue \in [Threads -> Queues \cup {None}]
    /\ prio \in [Threads -> Priorities \cup {0}]
    /\ seen \in [Threads -> SUBSET Priorities]
    /\ scanned \in [Threads -> Int]
    /\ running \in [Threads -> Tasks \cup {None}]
    /\ \A t \in Threads : pc[t] = "pop" => seen[t] # {}
    /\ \A t \in Threads :
          task[t] # None <=> pc[t] \in {"countFirst", "push", "setBit", "addSize",
                                       "countLast", "subSize", "subLen"}

At(label, q) == {t \in Threads : pc[t] = label /\ queue[t] = q}

Queued(q) == UNION {ring[q][i] : i \in Priorities}

\* size, which scheduler_enqueue compares to balance the queues, is off only by
\* the pushes and pops in flight (queue.c:101-104, 126-129): no sequence of
\* steals and pushes by several threads lets it drift.
SizeExact ==
    \A q \in Queues :
        size[q] = Cardinality(Queued(q))
                    - Cardinality(At("setBit", q)) - Cardinality(At("addSize", q))
                    + Cardinality(At("subSize", q))

\* Between a submission and its execution a record is carried by the thread
\* that pushes it, in a ring, or carried by the thread that popped it.  From
\* setBit on, the pusher only counts: the record may run, and end, meanwhile.
Carrying == {t \in Threads : pc[t] \in {"countFirst", "push", "subSize", "subLen"}}

Waiting == (UNION {Queued(q) : q \in Queues}) \cup {task[t] : t \in Carrying}

\* Each submission is executed once, however its record travels between queues,
\* thieves and the counters, and never on top of another (sheduler.c:67-92,
\* queue.c:214-242): see Dispatch.
D == INSTANCE Dispatch WITH waiting <- Waiting

ImplementsDispatch == D!DispatchSpec

\* No scheduling livelock: while some ring with its bit set holds a task and
\* thread t keeps coming back for work, tasks keep being taken, whatever the
\* other threads execute (queue.c:223-238, the steal loop).
Visible == \E q \in Queues, i \in Priorities : i \in mask[q] /\ ring[q][i] # {}

TakesTask == \E t \in Threads : Pop(t) /\ pc'[t] = "subSize"

VisibleWorkIsTaken ==
    \A t \in SchedulerThreads :
        <>[]Visible /\ []<>(pc[t] = "idle" /\ running[t] = None)
            => []<><<TakesTask>>_vars
=============================================================================
