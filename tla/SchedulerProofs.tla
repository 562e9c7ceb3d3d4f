--------------------------- MODULE SchedulerProofs ---------------------------
(***************************************************************************)
(* Proofs about Scheduler for every number of threads, tasks and           *)
(* priorities: types, and the size of every queue is what its rings hold,  *)
(* up to the pushes and pops that are under way.                           *)
(***************************************************************************)
EXTENDS Scheduler, FiniteSetTheorems, TLAPS

\* A thread that works on a queue has one, and a push has its priority.
Bound ==
    \A t \in Threads :
        /\ pc[t] # "idle" => queue[t] \in Queues
        /\ pc[t] \in {"countFirst", "push", "setBit"} => prio[t] \in Priorities

Typed == TypeOK /\ Bound

LEMMA TypedInit == Init => Typed
  BY DEF Init, Typed, TypeOK, Bound

LEMMA TypedStep == Typed /\ [Next]_vars => Typed'
<1> SUFFICES ASSUME Typed, [Next]_vars PROVE Typed'
  OBVIOUS
<1> USE SchedulerAssumption DEF Typed, TypeOK, Bound, Goto, Queues, Threads
<1>1. ASSUME NEW t \in Threads, NEW d \in Tasks, NEW i \in Priorities, Enqueue(t, d, i)
      PROVE  Typed'
  <2>1. PICK q \in Queues, l \in {"countFirst", "push"} :
           queue' = [queue EXCEPT ![t] = q] /\ pc' = [pc EXCEPT ![t] = l]
    BY <1>1 DEF Enqueue
  <2>2. /\ task' = [task EXCEPT ![t] = d] /\ prio' = [prio EXCEPT ![t] = i] /\ d # None
        /\ UNCHANGED <<ring, mask, size, len, seen, scanned, running>>
    BY <1>1 DEF Enqueue
  <2>3. QED
    BY <2>1, <2>2
<1>2. ASSUME NEW t \in Threads, CountFirst(t) PROVE Typed'
  BY <1>2 DEF CountFirst
<1>3. ASSUME NEW t \in Threads, Push(t) PROVE Typed'
  BY <1>3 DEF Push
<1>4. ASSUME NEW t \in Threads, SetBit(t) PROVE Typed'
  BY <1>4 DEF SetBit
<1>5. ASSUME NEW t \in Threads, AddSize(t) PROVE Typed'
  BY <1>5 DEF AddSize
<1>6. ASSUME NEW t \in Threads, CountLast(t) PROVE Typed'
  BY <1>6 DEF CountLast
<1>7. ASSUME NEW t \in Threads, Dequeue(t) PROVE Typed'
  <2>1. /\ t \in Queues /\ queue' = [queue EXCEPT ![t] = t] /\ pc[t] = "idle"
        /\ pc' = [pc EXCEPT ![t] = "loadMask"] /\ scanned' = [scanned EXCEPT ![t] = -1]
        /\ UNCHANGED <<ring, mask, size, len, task, prio, seen, running>>
    BY <1>7 DEF Dequeue
  <2>2. TypeOK'
    BY <2>1
  <2>3. Bound'
    BY <2>1
  <2>4. QED
    BY ONLY <2>2, <2>3 DEF Typed
<1>8. ASSUME NEW t \in Threads, LoadMask(t) PROVE Typed'
  BY <1>8 DEF LoadMask
<1>9. ASSUME NEW t \in Threads, Pop(t) PROVE Typed'
  <2>1. PICK i \in Priorities :
           /\ prio' = [prio EXCEPT ![t] = i]
           /\ \/ \E d \in ring[queue[t]][i] :
                    /\ ring' = [ring EXCEPT ![queue[t]][i] = @ \ {d}]
                    /\ task' = [task EXCEPT ![t] = d]
                    /\ pc' = [pc EXCEPT ![t] = "subSize"]
              \/ /\ pc' = [pc EXCEPT ![t] = "clearBit"]
                 /\ UNCHANGED <<ring, task>>
    BY <1>9 DEF Pop
  <2>2. pc[t] = "pop" /\ queue[t] \in Queues
        /\ UNCHANGED <<mask, size, len, queue, seen, scanned, running>>
    BY <1>9 DEF Pop
  <2>3. ASSUME NEW d \in ring[queue[t]][i],
               ring' = [ring EXCEPT ![queue[t]][i] = @ \ {d}],
               task' = [task EXCEPT ![t] = d], pc' = [pc EXCEPT ![t] = "subSize"]
        PROVE  Typed'
    <3>1. d \in Tasks /\ d # None
      BY <2>2, <2>3
    <3>2. ring' \in [Queues -> [Priorities -> SUBSET Tasks]]
      BY <2>2, <2>3
    <3>3. QED
      BY <2>1, <2>2, <2>3, <3>1, <3>2
  <2>4. CASE pc' = [pc EXCEPT ![t] = "clearBit"] /\ UNCHANGED <<ring, task>>
    BY <2>1, <2>2, <2>4
  <2>5. QED
    BY <2>1, <2>3, <2>4
<1>10. ASSUME NEW t \in Threads, ClearBit(t) PROVE Typed'
  BY <1>10 DEF ClearBit
<1>11. ASSUME NEW t \in Threads, SubSize(t) PROVE Typed'
  BY <1>11 DEF SubSize
<1>12. ASSUME NEW t \in Threads, SubLen(t) PROVE Typed'
  BY <1>12 DEF SubLen
<1>13. ASSUME NEW t \in Threads, NextVictim(t) PROVE Typed'
  <2>1. PICK q \in Queues, l \in {"nextVictim", "loadMask", "idle"} :
           queue' = [queue EXCEPT ![t] = q] /\ pc' = [pc EXCEPT ![t] = l]
    BY <1>13 DEF NextVictim
  <2>2. /\ pc[t] = "nextVictim" /\ scanned' = [scanned EXCEPT ![t] = @ + 1]
        /\ UNCHANGED <<ring, mask, size, len, task, prio, seen, running>>
    BY <1>13 DEF NextVictim
  <2>3. QED
    BY <2>1, <2>2
<1>14. ASSUME NEW t \in Threads, Finish(t) PROVE Typed'
  BY <1>14 DEF Finish
<1>15. CASE UNCHANGED vars
  BY <1>15 DEF vars
<1>16. QED
  BY <1>1, <1>2, <1>3, <1>4, <1>5, <1>6, <1>7, <1>8, <1>9, <1>10, <1>11, <1>12,
     <1>13, <1>14, <1>15 DEF Next, Continue

\* The variables keep their types: a thread that pops has seen a bit, and a
\* thread carries a task exactly while it enqueues or has dequeued one.
THEOREM SchedulerTyping == Spec => []TypeOK
<1>1. Typed => TypeOK
  BY DEF Typed
<1>2. QED
  BY <1>1, TypedInit, TypedStep, PTL DEF Spec

---------------------------------------------------------------------------
(* A record is in one ring at most, and one that a thread carries to a ring *)
(* or away from it is in none, nor in the hands of another thread: so that  *)
(* a push or a pop changes the number of records by one.                    *)

Single ==
    /\ \A q, r \in Queues : \A i, j \in Priorities : \A d \in Tasks :
          d \in ring[q][i] /\ d \in ring[r][j] => q = r /\ i = j
    /\ \A t \in Carrying :
          /\ \A q \in Queues : \A i \in Priorities : task[t] \notin ring[q][i]
          /\ \A u \in Carrying : task[u] = task[t] => u = t

\* A record that is not in use is in no ring and no thread's task.
LEMMA InUseHolds ==
  ASSUME NEW d, d \notin InUse
  PROVE  /\ \A q \in Queues : \A i \in Priorities : d \notin ring[q][i]
         /\ \A t \in Threads : task[t] # d
<1>1. \A q \in Queues : \A i \in Priorities : d \notin ring[q][i]
  <2> SUFFICES ASSUME NEW q \in Queues, NEW i \in Priorities, d \in ring[q][i] PROVE FALSE
    OBVIOUS
  <2>1. ring[q][i] \in {ring[r][j] : r \in Queues, j \in Priorities}
    OBVIOUS
  <2>2. d \in UNION {ring[r][j] : r \in Queues, j \in Priorities}
    BY <2>1
  <2>3. QED
    BY <2>2 DEF InUse
<1>2. \A t \in Threads : task[t] # d
  <2> SUFFICES ASSUME NEW t \in Threads, task[t] = d PROVE FALSE
    OBVIOUS
  <2>1. d \in {task[u] : u \in Threads}
    OBVIOUS
  <2>2. QED
    BY <2>1 DEF InUse
<1>3. QED
  BY <1>1, <1>2

LEMMA SingleStep == Typed /\ Single /\ [Next]_vars => Single'
<1> SUFFICES ASSUME Typed, Single, [Next]_vars PROVE Single'
  OBVIOUS
<1> USE SchedulerAssumption DEF Typed, TypeOK, Bound, Goto, Single, Carrying
<1>1. ASSUME NEW t \in Threads, NEW d \in Tasks, NEW i \in Priorities, Enqueue(t, d, i)
      PROVE  Single'
  <2>1. /\ \A q \in Queues : \A j \in Priorities : d \notin ring[q][j]
        /\ \A u \in Threads : task[u] # d
    BY <1>1, InUseHolds DEF Enqueue
  <2>2. ring' = ring /\ task' = [task EXCEPT ![t] = d] /\ Carrying' \subseteq Carrying \cup {t}
    BY <1>1 DEF Enqueue
  <2>3. QED
    BY <2>1, <2>2
<1>2. ASSUME NEW t \in Threads, CountFirst(t) PROVE Single'
  BY <1>2 DEF CountFirst
<1>3. ASSUME NEW t \in Threads, Push(t) PROVE Single'
  <2>1. /\ t \in Carrying /\ Carrying' = Carrying \ {t} /\ task' = task
        /\ queue[t] \in Queues /\ prio[t] \in Priorities
        /\ ring' = [ring EXCEPT ![queue[t]][prio[t]] = @ \cup {task[t]}]
    BY <1>3 DEF Push
  <2>2. \A q \in Queues : \A i \in Priorities :
           ring'[q][i] = IF q = queue[t] /\ i = prio[t] THEN ring[q][i] \cup {task[t]}
                         ELSE ring[q][i]
    BY <2>1
  <2>3. QED
    BY <2>1, <2>2
<1>4. ASSUME NEW t \in Threads, SetBit(t) PROVE Single'
  BY <1>4 DEF SetBit
<1>5. ASSUME NEW t \in Threads, AddSize(t) PROVE Single'
  BY <1>5 DEF AddSize
<1>6. ASSUME NEW t \in Threads, CountLast(t) PROVE Single'
  BY <1>6 DEF CountLast
<1>7. ASSUME NEW t \in Threads, Dequeue(t) PROVE Single'
  BY <1>7 DEF Dequeue
<1>8. ASSUME NEW t \in Threads, LoadMask(t) PROVE Single'
  BY <1>8 DEF LoadMask
<1>9. ASSUME NEW t \in Threads, Pop(t) PROVE Single'
  <2>1. PICK i \in Priorities :
           \/ \E d \in ring[queue[t]][i] :
                 /\ ring' = [ring EXCEPT ![queue[t]][i] = @ \ {d}]
                 /\ task' = [task EXCEPT ![t] = d]
                 /\ pc' = [pc EXCEPT ![t] = "subSize"]
           \/ ring' = ring /\ task' = task /\ pc' = [pc EXCEPT ![t] = "clearBit"]
    BY <1>9 DEF Pop
  <2>2. pc[t] = "pop" /\ queue[t] \in Queues
    BY <1>9 DEF Pop
  <2>3. ASSUME NEW d \in ring[queue[t]][i],
               ring' = [ring EXCEPT ![queue[t]][i] = @ \ {d}],
               task' = [task EXCEPT ![t] = d], pc' = [pc EXCEPT ![t] = "subSize"]
        PROVE  Single'
    <3>1. \A q \in Queues : \A j \in Priorities : ring'[q][j] = ring[q][j] \ {d}
      <4> SUFFICES ASSUME NEW q \in Queues, NEW j \in Priorities
                   PROVE  ring'[q][j] = ring[q][j] \ {d}
        OBVIOUS
      <4>1. CASE q = queue[t] /\ j = i
        BY <2>2, <2>3, <4>1
      <4>2. CASE ~(q = queue[t] /\ j = i)
        <5>1. d \notin ring[q][j]
          BY <2>2, <4>2
        <5>2. ring'[q][j] = ring[q][j]
          BY <2>2, <2>3, <4>2
        <5>3. QED
          BY <5>1, <5>2
      <4>3. QED
        BY <4>1, <4>2
    <3>2. Carrying' = Carrying \cup {t} /\ t \notin Carrying
      BY <2>2, <2>3
    <3>3. \A u \in Carrying : task'[u] = task[u] /\ task[u] # d
      BY <2>2, <2>3, <3>2
    <3>4. task'[t] = d
      BY <2>3
    <3>5. QED
      BY <3>1, <3>2, <3>3, <3>4
  <2>4. CASE ring' = ring /\ task' = task /\ pc' = [pc EXCEPT ![t] = "clearBit"]
    BY <2>2, <2>4
  <2>5. QED
    BY <2>1, <2>3, <2>4
<1>10. ASSUME NEW t \in Threads, ClearBit(t) PROVE Single'
  BY <1>10 DEF ClearBit
<1>11. ASSUME NEW t \in Threads, SubSize(t) PROVE Single'
  BY <1>11 DEF SubSize
<1>12. ASSUME NEW t \in Threads, SubLen(t) PROVE Single'
  BY <1>12 DEF SubLen
<1>13. ASSUME NEW t \in Threads, NextVictim(t) PROVE Single'
  BY <1>13 DEF NextVictim
<1>14. ASSUME NEW t \in Threads, Finish(t) PROVE Single'
  BY <1>14 DEF Finish
<1>15. CASE UNCHANGED vars
  BY <1>15 DEF vars
<1>16. QED
  BY <1>1, <1>2, <1>3, <1>4, <1>5, <1>6, <1>7, <1>8, <1>9, <1>10, <1>11, <1>12,
     <1>13, <1>14, <1>15 DEF Next, Continue

---------------------------------------------------------------------------
(* The equation of SizeExact.  A step changes at most two of its four terms. *)

LEMMA QueuedFinite ==
  ASSUME Typed, NEW q \in Queues
  PROVE  IsFiniteSet(Queued(q)) /\ Cardinality(Queued(q)) \in Nat
<1>1. Queued(q) \subseteq Tasks
  BY DEF Queued, Typed, TypeOK
<1>2. QED
  BY <1>1, SchedulerAssumption, FS_Subset, FS_CardinalityType

LEMMA AtFinite ==
  ASSUME NEW q, NEW l
  PROVE  IsFiniteSet(At(l, q)) /\ Cardinality(At(l, q)) \in Nat
<1>1. IsFiniteSet(Threads)
  BY SchedulerAssumption, FS_Union DEF Threads
<1>2. At(l, q) \subseteq Threads
  BY DEF At
<1>3. QED
  BY <1>1, <1>2, FS_Subset, FS_CardinalityType

\* A thread comes to a label, leaves one, or has nothing to do with it.
LEMMA AtGains ==
  ASSUME Typed, NEW t \in Threads, NEW l, NEW q, queue[t] = q,
         pc[t] # l, pc' = [pc EXCEPT ![t] = l], queue' = queue
  PROVE  Cardinality(At(l, q)') = Cardinality(At(l, q)) + 1
<1>1. At(l, q)' = At(l, q) \cup {t} /\ t \notin At(l, q)
  BY DEF At, Typed, TypeOK
<1>2. QED
  BY <1>1, AtFinite, FS_AddElement

LEMMA AtLoses ==
  ASSUME Typed, NEW t \in Threads, NEW l, NEW q, queue[t] = q, pc[t] = l,
         pc'[t] # l, \A u \in Threads \ {t} : pc'[u] = pc[u], queue' = queue
  PROVE  Cardinality(At(l, q)') = Cardinality(At(l, q)) - 1
<1>1. At(l, q)' = At(l, q) \ {t} /\ t \in At(l, q)
  BY DEF At, Typed, TypeOK
<1>2. QED
  BY <1>1, AtFinite, FS_RemoveElement

LEMMA AtKeeps ==
  ASSUME NEW t \in Threads, NEW l, NEW q,
         \A u \in Threads \ {t} : pc'[u] = pc[u] /\ queue'[u] = queue[u],
         \/ pc[t] # l /\ pc'[t] # l
         \/ queue[t] # q /\ queue'[t] # q
  PROVE  At(l, q)' = At(l, q)
  BY DEF At

SizeAt(q) ==
    size[q] = Cardinality(Queued(q))
                - Cardinality(At("setBit", q)) - Cardinality(At("addSize", q))
                + Cardinality(At("subSize", q))

Counting == {"setBit", "addSize", "subSize"}

\* Most steps touch no term.
LEMMA QuietStep ==
  ASSUME SizeExact, NEW t \in Threads, ring' = ring, size' = size,
         \A u \in Threads \ {t} : pc'[u] = pc[u] /\ queue'[u] = queue[u],
         pc[t] \notin Counting, pc'[t] \notin Counting
  PROVE  SizeExact'
<1> SUFFICES ASSUME NEW q \in Queues PROVE SizeAt(q)'
  BY DEF SizeExact, SizeAt
<1>1. \A l \in Counting : At(l, q)' = At(l, q)
  BY AtKeeps
<1>2. Queued(q)' = Queued(q)
  BY DEF Queued
<1>3. QED
  BY <1>1, <1>2 DEF SizeExact, SizeAt, Counting

\* A record comes to a queue or leaves it.
LEMMA QueuedGains ==
  ASSUME Typed, NEW q \in Queues, NEW i \in Priorities, NEW d,
         d \notin Queued(q), ring' = [ring EXCEPT ![q][i] = @ \cup {d}]
  PROVE  Cardinality(Queued(q)') = Cardinality(Queued(q)) + 1
<1>1. Queued(q)' = Queued(q) \cup {d}
  BY DEF Queued, Typed, TypeOK
<1>2. QED
  BY <1>1, QueuedFinite, FS_AddElement

LEMMA QueuedLoses ==
  ASSUME Typed, Single, NEW q \in Queues, NEW i \in Priorities, NEW d \in ring[q][i],
         ring' = [ring EXCEPT ![q][i] = @ \ {d}]
  PROVE  Cardinality(Queued(q)') = Cardinality(Queued(q)) - 1
<1>1. \A j \in Priorities : ring'[q][j] = ring[q][j] \ {d}
  BY DEF Single, Typed, TypeOK
<1>2. Queued(q)' = Queued(q) \ {d} /\ d \in Queued(q)
  BY <1>1 DEF Queued
<1>3. QED
  BY <1>2, QueuedFinite, FS_RemoveElement

LEMMA QueuedKeeps ==
  ASSUME NEW q \in Queues, ring'[q] = ring[q]
  PROVE  Queued(q)' = Queued(q)
  BY DEF Queued

\* The four terms of a queue are integers.
LEMMA Terms ==
  ASSUME Typed, NEW q \in Queues
  PROVE  /\ size[q] \in Int /\ Cardinality(Queued(q)) \in Nat
         /\ \A l \in Counting : Cardinality(At(l, q)) \in Nat
  BY QueuedFinite, AtFinite DEF Typed, TypeOK

LEMMA SizeStep == Typed /\ Single /\ SizeExact /\ [Next]_vars => SizeExact'
<1> SUFFICES ASSUME Typed, Single, SizeExact, [Next]_vars PROVE SizeExact'
  OBVIOUS
<1>a. \A t \in Threads : pc[t] # "idle" => queue[t] \in Queues
  BY DEF Typed, Bound
<1>b. /\ DOMAIN pc = Threads /\ DOMAIN queue = Threads
      /\ \A q \in Queues : SizeAt(q)
  BY DEF Typed, TypeOK, SizeExact, SizeAt
<1> USE <1>b DEF Goto, Counting
<1>1. ASSUME NEW t \in Threads, NEW d \in Tasks, NEW i \in Priorities, Enqueue(t, d, i)
      PROVE  SizeExact'
  <2>1. /\ ring' = ring /\ size' = size /\ pc[t] = "idle"
        /\ \E l \in {"countFirst", "push"} : pc' = [pc EXCEPT ![t] = l]
        /\ \E q : queue' = [queue EXCEPT ![t] = q]
    BY <1>1 DEF Enqueue
  <2>2. QED
    BY <2>1, QuietStep
<1>2. ASSUME NEW t \in Threads, CountFirst(t) PROVE SizeExact'
  BY <1>2, QuietStep DEF CountFirst
<1>3. ASSUME NEW t \in Threads, Push(t) PROVE SizeExact'
  <2>1. /\ pc[t] = "push" /\ pc' = [pc EXCEPT ![t] = "setBit"] /\ queue' = queue /\ size' = size
        /\ queue[t] \in Queues /\ prio[t] \in Priorities
        /\ ring' = [ring EXCEPT ![queue[t]][prio[t]] = @ \cup {task[t]}]
    BY <1>3, <1>a DEF Push, Typed, Bound
  <2>2. task[t] \notin Queued(queue[t])
    BY <2>1 DEF Single, Carrying, Queued
  <2> SUFFICES ASSUME NEW q \in Queues PROVE SizeAt(q)'
    BY DEF SizeExact, SizeAt
  <2>3. At("addSize", q)' = At("addSize", q) /\ At("subSize", q)' = At("subSize", q)
    BY <2>1, AtKeeps
  <2>4. CASE q = queue[t]
    <3>1. Cardinality(At("setBit", q)') = Cardinality(At("setBit", q)) + 1
      BY <2>1, <2>4, AtGains
    <3>2. Cardinality(Queued(q)') = Cardinality(Queued(q)) + 1
      BY <2>1, <2>2, <2>4, QueuedGains
    <3>3. QED
      BY <2>1, <2>3, <3>1, <3>2, Terms DEF SizeAt
  <2>5. CASE q # queue[t]
    <3>1. At("setBit", q)' = At("setBit", q)
      BY <2>1, <2>5, AtKeeps
    <3>2. Queued(q)' = Queued(q)
      BY <2>1, <2>5, QueuedKeeps DEF Typed, TypeOK
    <3>3. QED
      BY <2>1, <2>3, <3>1, <3>2 DEF SizeAt
  <2>6. QED
    BY <2>4, <2>5
<1>4. ASSUME NEW t \in Threads, SetBit(t) PROVE SizeExact'
  <2>1. /\ pc[t] = "setBit" /\ pc' = [pc EXCEPT ![t] = "addSize"] /\ queue' = queue
        /\ size' = size /\ ring' = ring
    BY <1>4 DEF SetBit
  <2> SUFFICES ASSUME NEW q \in Queues PROVE SizeAt(q)'
    BY DEF SizeExact, SizeAt
  <2>2. At("subSize", q)' = At("subSize", q)
    BY <2>1, AtKeeps
  <2>3. Queued(q)' = Queued(q)
    BY <2>1, QueuedKeeps
  <2>4. CASE q = queue[t]
    <3>1. Cardinality(At("setBit", q)') = Cardinality(At("setBit", q)) - 1
      BY <2>1, <2>4, AtLoses
    <3>2. Cardinality(At("addSize", q)') = Cardinality(At("addSize", q)) + 1
      BY <2>1, <2>4, AtGains
    <3>3. QED
      BY <2>1, <2>2, <2>3, <3>1, <3>2, Terms DEF SizeAt
  <2>5. CASE q # queue[t]
    <3>1. At("setBit", q)' = At("setBit", q) /\ At("addSize", q)' = At("addSize", q)
      BY <2>1, <2>5, AtKeeps
    <3>2. QED
      BY <2>1, <2>2, <2>3, <3>1 DEF SizeAt
  <2>6. QED
    BY <2>4, <2>5
<1>5. ASSUME NEW t \in Threads, AddSize(t) PROVE SizeExact'
  <2>1. /\ pc[t] = "addSize" /\ queue' = queue /\ ring' = ring /\ queue[t] \in Queues
        /\ size' = [size EXCEPT ![queue[t]] = @ + 1]
    BY <1>5, <1>a DEF AddSize
  <2>2. PICK m \in {"idle", "countLast"} : pc' = [pc EXCEPT ![t] = m]
    BY <1>5 DEF AddSize
  <2> SUFFICES ASSUME NEW q \in Queues PROVE SizeAt(q)'
    BY DEF SizeExact, SizeAt
  <2>3. At("setBit", q)' = At("setBit", q) /\ At("subSize", q)' = At("subSize", q)
    BY <2>1, <2>2, AtKeeps
  <2>4. Queued(q)' = Queued(q)
    BY <2>1, QueuedKeeps
  <2>5. CASE q = queue[t]
    <3>1. Cardinality(At("addSize", q)') = Cardinality(At("addSize", q)) - 1
      BY <2>1, <2>2, <2>5, AtLoses
    <3>2. size'[q] = size[q] + 1
      BY <2>1, <2>5 DEF Typed, TypeOK
    <3>3. QED
      BY <2>3, <2>4, <3>1, <3>2, Terms DEF SizeAt
  <2>6. CASE q # queue[t]
    <3>1. At("addSize", q)' = At("addSize", q) /\ size'[q] = size[q]
      BY <2>1, <2>2, <2>6, AtKeeps DEF Typed, TypeOK
    <3>2. QED
      BY <2>3, <2>4, <3>1 DEF SizeAt
  <2>7. QED
    BY <2>5, <2>6
<1>6. ASSUME NEW t \in Threads, CountLast(t) PROVE SizeExact'
  BY <1>6, QuietStep DEF CountLast
<1>7. ASSUME NEW t \in Threads, Dequeue(t) PROVE SizeExact'
  BY <1>7, QuietStep DEF Dequeue
<1>8. ASSUME NEW t \in Threads, LoadMask(t) PROVE SizeExact'
  BY <1>8, QuietStep DEF LoadMask
<1>9. ASSUME NEW t \in Threads, Pop(t) PROVE SizeExact'
  <2>1. PICK i \in Priorities :
           \/ /\ \E d \in ring[queue[t]][i] : ring' = [ring EXCEPT ![queue[t]][i] = @ \ {d}]
              /\ pc' = [pc EXCEPT ![t] = "subSize"]
           \/ /\ ring' = ring /\ pc' = [pc EXCEPT ![t] = "clearBit"]
    BY <1>9 DEF Pop
  <2>2. pc[t] = "pop" /\ queue' = queue /\ size' = size /\ queue[t] \in Queues
    BY <1>9, <1>a DEF Pop
  <2>3. ASSUME NEW d \in ring[queue[t]][i], ring' = [ring EXCEPT ![queue[t]][i] = @ \ {d}],
               pc' = [pc EXCEPT ![t] = "subSize"]
        PROVE  SizeExact'
    <3> SUFFICES ASSUME NEW q \in Queues PROVE SizeAt(q)'
      BY DEF SizeExact, SizeAt
    <3>1. At("setBit", q)' = At("setBit", q) /\ At("addSize", q)' = At("addSize", q)
      BY <2>2, <2>3, AtKeeps
    <3>2. CASE q = queue[t]
      <4>1. Cardinality(At("subSize", q)') = Cardinality(At("subSize", q)) + 1
        BY <2>2, <2>3, <3>2, AtGains
      <4>2. Cardinality(Queued(q)') = Cardinality(Queued(q)) - 1
        BY <2>3, <3>2, QueuedLoses
      <4>3. QED
        BY <2>2, <3>1, <4>1, <4>2, Terms DEF SizeAt
    <3>3. CASE q # queue[t]
      <4>1. At("subSize", q)' = At("subSize", q)
        BY <2>2, <2>3, <3>3, AtKeeps
      <4>2. Queued(q)' = Queued(q)
        BY <2>2, <2>3, <3>3, QueuedKeeps DEF Typed, TypeOK
      <4>3. QED
        BY <2>2, <3>1, <4>1, <4>2 DEF SizeAt
    <3>4. QED
      BY <3>2, <3>3
  <2>4. CASE ring' = ring /\ pc' = [pc EXCEPT ![t] = "clearBit"]
    BY <2>2, <2>4, QuietStep
  <2>5. QED
    BY <2>1, <2>3, <2>4
<1>10. ASSUME NEW t \in Threads, ClearBit(t) PROVE SizeExact'
  BY <1>10, QuietStep DEF ClearBit
<1>11. ASSUME NEW t \in Threads, SubSize(t) PROVE SizeExact'
  <2>1. /\ pc[t] = "subSize" /\ queue' = queue /\ ring' = ring /\ queue[t] \in Queues
        /\ size' = [size EXCEPT ![queue[t]] = @ - 1] /\ pc' = [pc EXCEPT ![t] = "subLen"]
    BY <1>11, <1>a DEF SubSize
  <2> SUFFICES ASSUME NEW q \in Queues PROVE SizeAt(q)'
    BY DEF SizeExact, SizeAt
  <2>2. At("setBit", q)' = At("setBit", q) /\ At("addSize", q)' = At("addSize", q)
    BY <2>1, AtKeeps
  <2>3. Queued(q)' = Queued(q)
    BY <2>1, QueuedKeeps
  <2>4. CASE q = queue[t]
    <3>1. Cardinality(At("subSize", q)') = Cardinality(At("subSize", q)) - 1
      BY <2>1, <2>4, AtLoses
    <3>2. size'[q] = size[q] - 1
      BY <2>1, <2>4 DEF Typed, TypeOK
    <3>3. QED
      BY <2>2, <2>3, <3>1, <3>2, Terms DEF SizeAt
  <2>5. CASE q # queue[t]
    <3>1. At("subSize", q)' = At("subSize", q) /\ size'[q] = size[q]
      BY <2>1, <2>5, AtKeeps DEF Typed, TypeOK
    <3>2. QED
      BY <2>2, <2>3, <3>1 DEF SizeAt
  <2>6. QED
    BY <2>4, <2>5
<1>12. ASSUME NEW t \in Threads, SubLen(t) PROVE SizeExact'
  BY <1>12, QuietStep DEF SubLen
<1>13. ASSUME NEW t \in Threads, NextVictim(t) PROVE SizeExact'
  <2>1. /\ ring' = ring /\ size' = size /\ pc[t] = "nextVictim"
        /\ \E l \in {"nextVictim", "loadMask", "idle"} : pc' = [pc EXCEPT ![t] = l]
        /\ \A u \in Threads \ {t} : queue'[u] = queue[u]
    BY <1>13 DEF NextVictim
  <2>2. QED
    BY <2>1, QuietStep
<1>14. ASSUME NEW t \in Threads, Finish(t) PROVE SizeExact'
  BY <1>14, QuietStep DEF Finish
<1>15. CASE UNCHANGED vars
  BY <1>15 DEF vars, SizeExact, SizeAt, Queued, At
<1>16. QED
  BY <1>1, <1>2, <1>3, <1>4, <1>5, <1>6, <1>7, <1>8, <1>9, <1>10, <1>11, <1>12,
     <1>13, <1>14, <1>15 DEF Next, Continue

LEMMA SizeInit == Init => Single /\ SizeExact
<1> SUFFICES ASSUME Init PROVE Single /\ SizeExact
  OBVIOUS
<1>1. Single
  BY DEF Init, Single, Carrying
<1>2. \A q \in Queues : Queued(q) = {} /\ \A l \in Counting : At(l, q) = {}
  BY DEF Init, Queued, At, Counting
<1>3. \A q \in Queues : SizeAt(q)
  <2> SUFFICES ASSUME NEW q \in Queues PROVE SizeAt(q)
    OBVIOUS
  <2>1. size[q] = 0
    BY DEF Init
  <2>2. QED
    BY <1>2, <2>1, FS_EmptySet DEF SizeAt, Counting
<1>4. QED
  BY <1>1, <1>3 DEF SizeExact, SizeAt

\* The size of a queue, which scheduler_enqueue compares to balance the queues,
\* never drifts: it differs from what the rings hold by exactly the pushes that
\* have not counted yet and the pops that have not counted yet
\* (queue.c:101-104, 126-129).
THEOREM SizesNeverDrift == Spec => []SizeExact
  BY TypedInit, TypedStep, SizeInit, SingleStep, SizeStep, PTL DEF Spec

---------------------------------------------------------------------------
(* The scheduler implements Dispatch: submissions are its Submit, the end   *)
(* of scheduler_dequeue is its Start, and nothing else changes what waits.  *)

Dequeuing == {"loadMask", "pop", "clearBit", "subSize", "subLen", "nextVictim"}

\* A thread looks for work only while it executes nothing.
Free ==
    \A t \in Threads : pc[t] \in Dequeuing => running[t] = None

LEMMA FreeStep == Typed /\ Free /\ [Next]_vars => Free'
<1> SUFFICES ASSUME Typed, Free, [Next]_vars PROVE Free'
  OBVIOUS
<1>a. DOMAIN pc = Threads /\ running \in [Threads -> Tasks \cup {None}]
  BY DEF Typed, TypeOK
<1> USE <1>a DEF Free, Dequeuing, Goto
<1>1. ASSUME NEW t \in Threads, NEW d \in Tasks, NEW i \in Priorities, Enqueue(t, d, i)
      PROVE  Free'
  BY <1>1 DEF Enqueue
<1>2. ASSUME NEW t \in Threads, Continue(t) PROVE Free'
  <2>1. CASE CountFirst(t) \/ Push(t) \/ SetBit(t) \/ AddSize(t) \/ CountLast(t)
    BY <2>1 DEF CountFirst, Push, SetBit, AddSize, CountLast
  <2>2. CASE LoadMask(t) \/ Pop(t) \/ ClearBit(t)
    BY <2>2 DEF LoadMask, Pop, ClearBit
  <2>3. CASE SubSize(t) \/ SubLen(t) \/ NextVictim(t)
    BY <2>3 DEF SubSize, SubLen, NextVictim
  <2>4. QED
    BY <1>2, <2>1, <2>2, <2>3 DEF Continue
<1>3. ASSUME NEW t \in Threads, Dequeue(t) PROVE Free'
  BY <1>3 DEF Dequeue
<1>4. ASSUME NEW t \in Threads, Finish(t) PROVE Free'
  BY <1>4 DEF Finish
<1>5. QED
  BY <1>1, <1>2, <1>3, <1>4 DEF Next, vars

\* What waits, record by record.
LEMMA WaitingIs ==
  \A d : d \in Waiting <=> \/ \E q \in Queues : \E i \in Priorities : d \in ring[q][i]
                           \/ \E t \in Carrying : task[t] = d
  BY DEF Waiting, Queued

\* A step that touches no ring, and neither makes a thread carry a record nor
\* relieves it of one, changes nothing of what waits.
LEMMA WaitingKeeps ==
  ASSUME ring' = ring, Carrying' = Carrying, \A t \in Carrying : task'[t] = task[t]
  PROVE  Waiting' = Waiting
<1>1. \A q \in Queues : Queued(q)' = Queued(q)
  BY DEF Queued
<1>2. {task'[t] : t \in Carrying} = {task[t] : t \in Carrying}
  OBVIOUS
<1>3. QED
  BY <1>1, <1>2 DEF Waiting

LEMMA DispatchStep ==
  Typed /\ Single /\ Free /\ [Next]_vars => [D!DispatchNext]_(D!dispatchVars)
<1> SUFFICES ASSUME Typed, Single, Free, [Next]_vars
             PROVE  D!DispatchNext \/ (Waiting' = Waiting /\ running' = running)
  BY DEF D!dispatchVars
<1>a. /\ DOMAIN pc = Threads /\ task \in [Threads -> Tasks \cup {None}]
      /\ \A t \in Threads : pc[t] # "idle" => queue[t] \in Queues
      /\ \A t \in Threads : pc[t] = "push" => prio[t] \in Priorities
      /\ ring \in [Queues -> [Priorities -> SUBSET Tasks]]
  BY DEF Typed, TypeOK, Bound
<1> USE <1>a DEF Goto, Carrying
<1>1. ASSUME NEW t \in Threads, NEW d \in Tasks, NEW i \in Priorities, Enqueue(t, d, i)
      PROVE  D!Submit(d)
  <2>1. /\ ring' = ring /\ task' = [task EXCEPT ![t] = d] /\ running' = running /\ pc[t] = "idle"
        /\ \E l \in {"countFirst", "push"} : pc' = [pc EXCEPT ![t] = l]
    BY <1>1 DEF Enqueue
  <2>2. /\ \A q \in Queues : \A j \in Priorities : d \notin ring[q][j]
        /\ \A u \in Threads : task[u] # d
    BY <1>1, InUseHolds DEF Enqueue
  <2>3. d \notin Waiting
    BY <2>2, WaitingIs
  <2>4. \A u \in Threads : running[u] # d
    BY <1>1 DEF Enqueue, InUse
  <2>5. Carrying' = Carrying \cup {t} /\ t \notin Carrying
    BY <2>1
  <2>6. {task'[u] : u \in Carrying'} = {task[u] : u \in Carrying} \cup {d}
    BY <2>1, <2>5
  <2>7. \A q \in Queues : Queued(q)' = Queued(q)
    BY <2>1 DEF Queued
  <2>8. Waiting' = Waiting \cup {d}
    <3>1. UNION {Queued(q)' : q \in Queues} = UNION {Queued(q) : q \in Queues}
      BY <2>7
    <3>2. QED
      BY <2>6, <3>1 DEF Waiting
  <2>9. QED
    BY <2>1, <2>3, <2>4, <2>8 DEF D!Submit
<1>2. ASSUME NEW t \in Threads, Push(t) PROVE Waiting' = Waiting /\ running' = running
  <2>1. /\ pc[t] = "push" /\ pc' = [pc EXCEPT ![t] = "setBit"] /\ task' = task
        /\ ring' = [ring EXCEPT ![queue[t]][prio[t]] = @ \cup {task[t]}] /\ running' = running
        /\ queue[t] \in Queues /\ prio[t] \in Priorities
    BY <1>2 DEF Push
  <2>2. Carrying' = Carrying \ {t} /\ t \in Carrying
    BY <2>1
  <2>3. \A q \in Queues : \A i \in Priorities :
           ring'[q][i] = IF q = queue[t] /\ i = prio[t] THEN ring[q][i] \cup {task[t]}
                         ELSE ring[q][i]
    BY <2>1
  <2>4. \A d : (\E q \in Queues : \E i \in Priorities : d \in ring'[q][i])
               <=> d = task[t] \/ \E q \in Queues : \E i \in Priorities : d \in ring[q][i]
    BY <2>1, <2>3
  <2>5. \A d : (\E u \in Carrying' : task'[u] = d) \/ d = task[t]
               <=> \E u \in Carrying : task[u] = d
    BY <2>1, <2>2
  <2>6. \A d : d \in Waiting' <=> \/ \E q \in Queues : \E i \in Priorities : d \in ring'[q][i]
                                  \/ \E u \in Carrying' : task'[u] = d
    BY DEF Waiting, Queued
  <2>7. \A d : d \in Waiting' <=> d \in Waiting
    BY <2>4, <2>5, <2>6, WaitingIs
  <2>8. Waiting' = Waiting
    BY <2>7
  <2>9. QED
    BY <2>1, <2>8
<1>3. ASSUME NEW t \in Threads, Pop(t) PROVE Waiting' = Waiting /\ running' = running
  <2>1. PICK i \in Priorities :
           \/ \E d \in ring[queue[t]][i] :
                 /\ ring' = [ring EXCEPT ![queue[t]][i] = @ \ {d}]
                 /\ task' = [task EXCEPT ![t] = d]
                 /\ pc' = [pc EXCEPT ![t] = "subSize"]
           \/ ring' = ring /\ task' = task /\ pc' = [pc EXCEPT ![t] = "clearBit"]
    BY <1>3 DEF Pop
  <2>2. pc[t] = "pop" /\ queue[t] \in Queues /\ running' = running
    BY <1>3 DEF Pop
  <2>3. ASSUME NEW e \in ring[queue[t]][i],
               ring' = [ring EXCEPT ![queue[t]][i] = @ \ {e}],
               task' = [task EXCEPT ![t] = e], pc' = [pc EXCEPT ![t] = "subSize"]
        PROVE  Waiting' = Waiting
    <3>1. Carrying' = Carrying \cup {t} /\ t \notin Carrying
      BY <2>2, <2>3
    <3>2. \A q \in Queues : \A j \in Priorities :
             ring'[q][j] = IF q = queue[t] /\ j = i THEN ring[q][j] \ {e} ELSE ring[q][j]
      BY <2>2, <2>3
    <3>3. \A d : (\E q \in Queues : \E j \in Priorities : d \in ring'[q][j]) \/ d = e
                 <=> \E q \in Queues : \E j \in Priorities : d \in ring[q][j]
      BY <2>2, <3>2
    <3>4. \A d : (\E u \in Carrying' : task'[u] = d)
                 <=> d = e \/ \E u \in Carrying : task[u] = d
      BY <2>3, <3>1
    <3>5. \A d : d \in Waiting' <=> \/ \E q \in Queues : \E j \in Priorities : d \in ring'[q][j]
                                    \/ \E u \in Carrying' : task'[u] = d
      BY DEF Waiting, Queued
    <3>6. \A d : d \in Waiting' <=> d \in Waiting
      BY <3>3, <3>4, <3>5, WaitingIs
    <3>7. QED
      BY <3>6
  <2>4. CASE ring' = ring /\ task' = task /\ pc' = [pc EXCEPT ![t] = "clearBit"]
    <3>1. Carrying' = Carrying
      BY <2>2, <2>4
    <3>2. ring' = ring /\ \A u \in Carrying : task'[u] = task[u]
      BY <2>4
    <3>3. QED
      BY <2>2, <3>1, <3>2, WaitingKeeps
  <2>5. QED
    BY <2>1, <2>2, <2>3, <2>4
<1>4. ASSUME NEW t \in Threads, SubLen(t) PROVE D!Start(t, task[t]) /\ task[t] \in Tasks
  <2>1. /\ pc[t] = "subLen" /\ pc' = [pc EXCEPT ![t] = "idle"] /\ ring' = ring
        /\ task' = [task EXCEPT ![t] = None] /\ running' = [running EXCEPT ![t] = task[t]]
    BY <1>4 DEF SubLen
  <2>2. running[t] = None /\ task[t] \in Tasks
    BY <2>1 DEF Free, Dequeuing, Typed, TypeOK
  <2>3. Carrying' = Carrying \ {t} /\ t \in Carrying
    BY <2>1
  <2>4. \A u \in Carrying' : task'[u] = task[u] /\ task[u] # task[t]
    BY <2>1, <2>3 DEF Single
  <2>5. \A q \in Queues : \A i \in Priorities : task[t] \notin ring[q][i]
    BY <2>3 DEF Single
  <2>6. {task'[u] : u \in Carrying'} = {task[u] : u \in Carrying} \ {task[t]}
    BY <2>3, <2>4
  <2>7. \A q \in Queues : Queued(q)' = Queued(q) /\ task[t] \notin Queued(q)
    BY <2>1, <2>5 DEF Queued
  <2>8. Waiting' = (UNION {Queued(q) : q \in Queues}) \cup ({task[u] : u \in Carrying} \ {task[t]})
    BY <2>6, <2>7 DEF Waiting
  <2>9. task[t] \notin UNION {Queued(q) : q \in Queues}
    BY <2>7
  <2>10. Waiting' = Waiting \ {task[t]}
    BY <2>8, <2>9 DEF Waiting
  <2>11. task[t] \in Waiting
    BY <2>3, WaitingIs
  <2>12. QED
    BY <2>1, <2>2, <2>10, <2>11 DEF D!Start
<1>5. ASSUME NEW t \in Threads, Finish(t) PROVE D!End(t)
  <2>1. /\ running[t] # None /\ running' = [running EXCEPT ![t] = None]
        /\ ring' = ring /\ task' = task /\ pc' = pc
    BY <1>5 DEF Finish
  <2>2. Waiting' = Waiting
    BY <2>1, WaitingKeeps
  <2>3. QED
    BY <2>1, <2>2 DEF D!End
<1>6. ASSUME NEW t \in Threads, CountFirst(t) \/ SetBit(t) \/ AddSize(t) \/ CountLast(t)
      PROVE  Waiting' = Waiting /\ running' = running
  <2>1. ring' = ring /\ running' = running /\ Carrying' = Carrying
    BY <1>6 DEF CountFirst, SetBit, AddSize, CountLast
  <2>2. \A u \in Carrying : task'[u] = task[u]
    BY <1>6 DEF CountFirst, SetBit, AddSize, CountLast
  <2>3. QED
    BY <2>1, <2>2, WaitingKeeps
<1>7. ASSUME NEW t \in Threads,
             LoadMask(t) \/ ClearBit(t) \/ SubSize(t) \/ NextVictim(t) \/ Dequeue(t)
      PROVE  Waiting' = Waiting /\ running' = running
  <2>1. ring' = ring /\ running' = running /\ task' = task /\ Carrying' = Carrying
    BY <1>7 DEF LoadMask, ClearBit, SubSize, NextVictim, Dequeue
  <2>2. QED
    BY <2>1, WaitingKeeps
<1>8. CASE UNCHANGED vars
  <2>1. ring' = ring /\ running' = running /\ task' = task /\ pc' = pc
    BY <1>8 DEF vars
  <2>2. QED
    BY <2>1, WaitingKeeps
<1>9. QED
  BY <1>1, <1>2, <1>3, <1>4, <1>5, <1>6, <1>7, <1>8
     DEF Next, Continue, D!DispatchNext

\* Whatever the interleaving of pushes, pops, steals and counters: a submitted
\* record waits until one thread executes it, no record is lost on its way
\* through the queues, none is executed twice for one submission, and no thread
\* takes one while it executes another (queue.c:163-242, sheduler.c:67-92).
THEOREM SchedulerDispatches == Spec => ImplementsDispatch
<1>1. Init => D!DispatchInit
  <2> SUFFICES ASSUME Init PROVE D!DispatchInit
    OBVIOUS
  <2>1. \A q \in Queues : Queued(q) = {}
    BY DEF Init, Queued
  <2>2. Carrying = {}
    BY DEF Init, Carrying
  <2>3. Waiting = {}
    BY <2>1, <2>2 DEF Waiting
  <2>4. QED
    BY <2>3 DEF Init, D!DispatchInit
<1>2. Init => Free
  BY DEF Init, Free, Dequeuing
<1>3. QED
  BY <1>1, <1>2, TypedInit, TypedStep, SizeInit, SingleStep, FreeStep, DispatchStep, PTL
     DEF Spec, ImplementsDispatch, D!DispatchSpec

---------------------------------------------------------------------------
(* What Dispatch says to an observer, and so the scheduler. *)

LEMMA OnceStep ==
  ASSUME None \notin Tasks, D!Once, [D!DispatchNext]_(D!dispatchVars)
  PROVE  (D!Once)'
<1> USE DEF D!Once
<1>1. ASSUME NEW d \in Tasks, D!Submit(d) PROVE (D!Once)'
  BY <1>1 DEF D!Submit
<1>2. ASSUME NEW t \in Threads, NEW d \in Tasks, D!Start(t, d) PROVE (D!Once)'
  BY <1>2 DEF D!Start
<1>3. ASSUME NEW t \in Threads, D!End(t) PROVE (D!Once)'
  BY <1>3 DEF D!End
<1>4. QED
  BY <1>1, <1>2, <1>3 DEF D!DispatchNext, D!dispatchVars

\* No two scheduler threads execute the same record, and none executes a record
\* that is still in a ring or on its way to one (queue.c:214-242): the steal of
\* one thread and the pop of another never both get it.
THEOREM ExecutedOnce == Spec => []D!Once
<1>1. None \notin Tasks
  BY SchedulerAssumption
<1>2. D!DispatchInit => D!Once
  BY DEF D!DispatchInit, D!Once
<1>3. D!Once /\ [D!DispatchNext]_(D!dispatchVars) => (D!Once)'
  BY <1>1, OnceStep
<1>4. ImplementsDispatch => []D!Once
  BY <1>2, <1>3, PTL DEF ImplementsDispatch, D!DispatchSpec
<1>5. QED
  BY <1>4, SchedulerDispatches, PTL

=============================================================================
