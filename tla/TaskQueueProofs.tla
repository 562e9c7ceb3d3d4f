-------------------------- MODULE TaskQueueProofs --------------------------
(***************************************************************************)
(* Proofs about TaskQueue for every ring size and every finite set of      *)
(* threads and tasks: types, no task in two places, the balance of every   *)
(* cell, and the implementation of TaskPool.                               *)
(***************************************************************************)
EXTENDS TaskQueue, FiniteSetTheorems, TLAPS

\* A position always falls on a cell (h & RING_MASK).
LEMMA CellType == \A i \in Int : Cell(i) \in Cells
  BY RingAssumption DEF Cell, Cells

\* NULL, the mark of an empty cell, is no task.
LEMMA NullNoTask == NULL \notin Tasks
  BY RingAssumption

---------------------------------------------------------------------------
\* The variables of the queue keep their types: in particular tail stays 0
\* and a pusher or taker always carries a task (queue.c:35-77).
THEOREM Typing == Spec => []TypeOK
<1>1. Init => TypeOK
  BY DEF Init, TypeOK
<1>2. TypeOK /\ [Next]_vars => TypeOK'
  <2> SUFFICES ASSUME TypeOK, [Next]_vars PROVE TypeOK'
    OBVIOUS
  <2> USE CellType DEF TypeOK
  <2>1. ASSUME NEW t \in Threads, NEW d \in Tasks, PushReserve(t, d) PROVE TypeOK'
    BY <2>1 DEF PushReserve
  <2>2. ASSUME NEW t \in Threads, PushStore(t) PROVE TypeOK'
    BY <2>2 DEF PushStore
  <2>3. ASSUME NEW t \in Threads, PopLoadHead(t) PROVE TypeOK'
    BY <2>3 DEF PopLoadHead
  <2>4. ASSUME NEW t \in Threads, PopLoadTail(t) PROVE TypeOK'
    BY <2>4 DEF PopLoadTail
  <2>5. ASSUME NEW t \in Threads, PopClaim(t) PROVE TypeOK'
    BY <2>5 DEF PopClaim
  <2>6. ASSUME NEW t \in Threads, PopLoad(t) PROVE TypeOK'
    BY <2>6 DEF PopLoad
  <2>7. ASSUME NEW t \in Threads, PopTake(t) PROVE TypeOK'
    BY <2>7 DEF PopTake
  <2>8. ASSUME NEW t \in Threads, PopRetry(t) PROVE TypeOK'
    BY <2>8 DEF PopRetry
  <2>9. ASSUME NEW t \in Threads, Release(t) PROVE TypeOK'
    BY <2>9 DEF Release
  <2>10. CASE UNCHANGED vars
    BY <2>10 DEF vars
  <2>11. QED
    BY <2>1, <2>2, <2>3, <2>4, <2>5, <2>6, <2>7, <2>8, <2>9, <2>10
       DEF Next, Continue
<1>3. QED
  BY <1>1, <1>2, PTL DEF Spec

---------------------------------------------------------------------------
\* A record pushed once is popped once: it is never reserved, stored or held
\* in two places, whatever the interleaving of the cell's takers
\* (queue.c:41, 63-74).
THEOREM ExactlyOnce == Spec => []NoTaskTwice
<1>1. Init => NoTaskTwice
  BY DEF Init, NoTaskTwice, Pushing, Stored, Held
<1>2. TypeOK /\ NoTaskTwice /\ [Next]_vars => NoTaskTwice'
  <2> SUFFICES ASSUME TypeOK, NoTaskTwice, [Next]_vars PROVE NoTaskTwice'
    OBVIOUS
  <2> USE CellType, NullNoTask DEF TypeOK, NoTaskTwice, Pushing, Stored, Held
  <2>1. ASSUME NEW t \in Threads, NEW d \in Tasks, PushReserve(t, d) PROVE NoTaskTwice'
    <3>1. /\ Stored' = Stored /\ Held' = Held /\ buffer' = buffer /\ got' = got
          /\ Pushing' = Pushing \cup {t} /\ t \notin Pushing
      BY <2>1 DEF PushReserve
    <3>2. /\ data'[t] = d
          /\ \A u \in Pushing : data'[u] = data[u] /\ data[u] # d
          /\ d \notin Stored \cup Held
      BY <2>1 DEF PushReserve, Pool
    <3>3. \A u \in Pushing' : data'[u] \notin (Stored \cup Held)'
      BY <3>1, <3>2
    <3>4. \A u, v \in Pushing' : data'[u] = data'[v] => u = v
      BY <3>1, <3>2
    <3>5. QED
      BY <3>1, <3>3, <3>4
  <2>2. ASSUME NEW t \in Threads, PushStore(t) PROVE NoTaskTwice'
    BY <2>2 DEF PushStore
  <2>3. ASSUME NEW t \in Threads, PopLoadHead(t) PROVE NoTaskTwice'
    BY <2>3 DEF PopLoadHead
  <2>4. ASSUME NEW t \in Threads, PopLoadTail(t) PROVE NoTaskTwice'
    BY <2>4 DEF PopLoadTail
  <2>5. ASSUME NEW t \in Threads, PopClaim(t) PROVE NoTaskTwice'
    BY <2>5 DEF PopClaim
  <2>6. ASSUME NEW t \in Threads, PopLoad(t) PROVE NoTaskTwice'
    BY <2>6 DEF PopLoad
  <2>7. ASSUME NEW t \in Threads, PopTake(t) PROVE NoTaskTwice'
    <3> DEFINE c == Cell(h[t])
    <3>1. /\ c \in Cells /\ buffer[c] = data[t] /\ data[t] \in Tasks
          /\ buffer' = [buffer EXCEPT ![c] = NULL]
          /\ got' = [got EXCEPT ![t] = data[t]]
          /\ Pushing' = Pushing /\ \A u \in Pushing : data'[u] = data[u]
      BY <2>7 DEF PopTake
    <3>2. Stored' = Stored \ {data[t]}
      BY <3>1
    <3>3. Held' \subseteq Held \cup {data[t]}
      BY <3>1
    <3>4. data[t] \in Stored
      BY <3>1
    <3>5. \A u \in Pushing' : data'[u] \notin (Stored \cup Held)'
      BY <3>1, <3>2, <3>3, <3>4
    <3>6. \A u, v \in Pushing' : data'[u] = data'[v] => u = v
      BY <3>1
    <3>7. \A b, e \in Cells : buffer'[b] = buffer'[e] /\ buffer'[b] # NULL => b = e
      BY <3>1
    <3>8. (Stored \cap Held)' = {}
      BY <3>2, <3>3
    <3>9. \A u, v \in Threads : got'[u] = got'[v] /\ got'[u] # NULL => u = v
      BY <3>1, <3>4
    <3>10. QED
      BY <3>5, <3>6, <3>7, <3>8, <3>9
  <2>8. ASSUME NEW t \in Threads, PopRetry(t) PROVE NoTaskTwice'
    BY <2>8 DEF PopRetry
  <2>9. ASSUME NEW t \in Threads, Release(t) PROVE NoTaskTwice'
    BY <2>9 DEF Release
  <2>10. CASE UNCHANGED vars
    BY <2>10 DEF vars
  <2>11. QED
    BY <2>1, <2>2, <2>3, <2>4, <2>5, <2>6, <2>7, <2>8, <2>9, <2>10
       DEF Next, Continue
<1>3. QED
  BY <1>1, <1>2, Typing, PTL DEF Spec

---------------------------------------------------------------------------
(* The balance of a cell *)

\* head never passes tail, because a popper only tries to claim a position
\* below it (queue.c:55-60).
HeadInv ==
    /\ head <= tail
    /\ \A t \in Threads : pc[t] = "popClaim" => h[t] < tail

\* head never passes tail, and a popper about to claim saw a head below it
\* (queue.c:52-60).
LEMMA HeadBelowTail == Spec => []HeadInv
<1>1. Init => HeadInv
  BY DEF Init, HeadInv
<1>2. TypeOK /\ HeadInv /\ [Next]_vars => HeadInv'
  BY DEF TypeOK, HeadInv, Next, vars, Continue, PushReserve, PushStore, PopLoadHead,
         PopLoadTail, PopClaim, PopLoad, PopTake, PopRetry, Release
<1>3. QED
  BY <1>1, <1>2, Typing, PTL DEF Spec

\* The sets counted at a cell are finite: they are sets of threads and of
\* positions between head and tail.
LEMMA CellSetsFinite ==
  ASSUME TypeOK, NEW c \in Cells
  PROVE  /\ IsFiniteSet(PushingAt(c)) /\ Cardinality(PushingAt(c)) \in Nat
         /\ IsFiniteSet(ClaimingAt(c)) /\ Cardinality(ClaimingAt(c)) \in Nat
         /\ IsFiniteSet(FreeAt(c)) /\ Cardinality(FreeAt(c)) \in Nat
<1>1. IsFiniteSet(PushingAt(c)) /\ IsFiniteSet(ClaimingAt(c))
  <2>1. PushingAt(c) \in SUBSET Threads /\ ClaimingAt(c) \in SUBSET Threads
    BY DEF PushingAt, ClaimingAt, Pushing, Claiming
  <2>2. QED
    BY <2>1, RingAssumption, FS_Subset
<1>2. IsFiniteSet(FreeAt(c))
  <2>1. head \in Int /\ tail - 1 \in Int
    BY DEF TypeOK
  <2>2. IsFiniteSet(head .. (tail - 1))
    BY <2>1, FS_Interval
  <2>3. FreeAt(c) \in SUBSET (head .. (tail - 1))
    BY DEF FreeAt
  <2>4. QED
    BY <2>2, <2>3, FS_Subset
<1>3. QED
  BY <1>1, <1>2, FS_CardinalityType

\* A claim and a cell: the popper's own claim is a member of the set counted
\* on the right, so the left side has a pusher or a full cell.
LEMMA BalanceServesClaims ==
  ASSUME TypeOK, CellBalance
  PROVE  NoOrphanClaim
<1> SUFFICES ASSUME NEW t \in Claiming,
                    buffer[Cell(h[t])] = NULL,
                    PushingAt(Cell(h[t])) = {}
             PROVE  FALSE
  BY DEF NoOrphanClaim
<1> DEFINE c == Cell(h[t])
<1>1. c \in Cells
  BY CellType DEF TypeOK, Claiming
<1>2. /\ PushingAt(c) = {}
      /\ buffer[c] = NULL
      /\ Cardinality(PushingAt(c)) + (IF buffer[c] = NULL THEN 0 ELSE 1)
            = Cardinality(ClaimingAt(c)) + Cardinality(FreeAt(c))
  BY <1>1 DEF CellBalance
<1>3. Cardinality(ClaimingAt(c)) = 0
  <2> HIDE DEF c
  <2>1. Cardinality(PushingAt(c)) = 0
    BY <1>2, FS_EmptySet
  <2>2. QED
    BY <1>1, <1>2, <2>1, CellSetsFinite
<1>4. ClaimingAt(c) = {}
  BY <1>1, <1>3, CellSetsFinite, FS_EmptySet
<1>5. t \in ClaimingAt(c)
  BY DEF ClaimingAt
<1>6. QED
  BY <1>4, <1>5

\* Steps that touch neither a cell nor a count.
KeepsCounts ==
    /\ buffer' = buffer /\ head' = head /\ tail' = tail
    /\ \A t \in Threads :
          /\ t \in Pushing' <=> t \in Pushing
          /\ t \in Claiming' <=> t \in Claiming
          /\ t \in Pushing \cup Claiming => h'[t] = h[t]

QuietStep(t) ==
    \/ PopLoadHead(t)
    \/ PopLoadTail(t)
    \/ PopLoad(t)
    \/ PopRetry(t)
    \/ Release(t)

\* The steps that neither reserve, store, claim nor take leave the counts of
\* every cell as they are.
LEMMA QuietSteps ==
  ASSUME TypeOK, NEW t \in Threads, QuietStep(t)
  PROVE  KeepsCounts
<1> USE DEF KeepsCounts, Pushing, Claiming, TypeOK
<1>1. CASE PopLoadHead(t) \/ PopLoadTail(t) \/ Release(t)
  BY <1>1 DEF PopLoadHead, PopLoadTail, Release
<1>2. CASE PopLoad(t) \/ PopRetry(t)
  BY <1>2 DEF PopLoad, PopRetry
<1>3. QED
  BY <1>1, <1>2 DEF QuietStep

\* A claim that fails leaves the counts of every cell as they are.
LEMMA QuietClaim ==
  ASSUME TypeOK, NEW t \in Threads, PopClaim(t), head # h[t]
  PROVE  KeepsCounts
  BY DEF PopClaim, KeepsCounts, Pushing, Claiming, TypeOK

\* A step that keeps the counts keeps the balance of every cell.
LEMMA BalanceUntouched ==
  ASSUME TypeOK, CellBalance, KeepsCounts
  PROVE  CellBalance'
<1> USE DEF KeepsCounts
<1>1. Pushing' = Pushing /\ Claiming' = Claiming
  BY DEF Pushing, Claiming
<1>2. ASSUME NEW c \in Cells
      PROVE  PushingAt(c)' = PushingAt(c) /\ ClaimingAt(c)' = ClaimingAt(c)
  <2>1. \A t \in Pushing \cup Claiming : h'[t] = h[t]
    BY DEF Pushing, Claiming
  <2>2. QED
    BY <1>1, <2>1 DEF PushingAt, ClaimingAt
<1>3. \A c \in Cells : FreeAt(c)' = FreeAt(c)
  BY DEF FreeAt
<1>4. QED
  BY <1>2, <1>3 DEF CellBalance, Cells
\* A push that moves head adds itself and one free position to its cell.
LEMMA ReserveBalance ==
  ASSUME TypeOK, HeadInv, CellBalance,
         NEW t \in Threads, NEW d \in Tasks, PushReserve(t, d)
  PROVE  CellBalance'
<1> SUFFICES ASSUME NEW c \in Cells
             PROVE  (Cardinality(PushingAt(c)) + (IF buffer[c] = NULL THEN 0 ELSE 1)
                       = Cardinality(ClaimingAt(c)) + Cardinality(FreeAt(c)))'
  BY DEF CellBalance, Cells
<1>1. buffer' = buffer /\ ClaimingAt(c)' = ClaimingAt(c)
  BY DEF PushReserve, ClaimingAt, Claiming, TypeOK
<1>2. /\ (head .. (tail - 1))' = (head .. (tail - 1)) \cup {head - 1}
      /\ (head - 1) \notin head .. (tail - 1)
  BY DEF PushReserve, HeadInv, TypeOK
<1>3. CASE Cell(head - 1) = c
  <2>1. PushingAt(c)' = PushingAt(c) \cup {t} /\ t \notin PushingAt(c)
    BY <1>3 DEF PushReserve, PushingAt, Pushing, TypeOK
  <2>2. FreeAt(c)' = FreeAt(c) \cup {head - 1} /\ (head - 1) \notin FreeAt(c)
    BY <1>2, <1>3 DEF FreeAt
  <2>3. /\ Cardinality(PushingAt(c)') = Cardinality(PushingAt(c)) + 1
        /\ Cardinality(FreeAt(c)') = Cardinality(FreeAt(c)) + 1
    BY <2>1, <2>2, CellSetsFinite, FS_AddElement
  <2>4. QED
    BY <1>1, <2>3, CellSetsFinite DEF CellBalance
<1>4. CASE Cell(head - 1) # c
  <2>1. PushingAt(c)' = PushingAt(c)
    BY <1>4 DEF PushReserve, PushingAt, Pushing, TypeOK
  <2>2. FreeAt(c)' = FreeAt(c)
    BY <1>2, <1>4 DEF FreeAt
  <2>3. QED
    BY <1>1, <2>1, <2>2 DEF CellBalance
<1>5. QED
  BY <1>3, <1>4

\* A push that stores turns a pending push of its cell into a full cell.
LEMMA StoreBalance ==
  ASSUME TypeOK, CellBalance, NEW t \in Threads, PushStore(t)
  PROVE  CellBalance'
<1> SUFFICES ASSUME NEW c \in Cells
             PROVE  (Cardinality(PushingAt(c)) + (IF buffer[c] = NULL THEN 0 ELSE 1)
                       = Cardinality(ClaimingAt(c)) + Cardinality(FreeAt(c)))'
  BY DEF CellBalance, Cells
<1>1. ClaimingAt(c)' = ClaimingAt(c) /\ FreeAt(c)' = FreeAt(c)
  BY DEF PushStore, ClaimingAt, Claiming, FreeAt, TypeOK
<1>2. CASE Cell(h[t]) = c
  <2>1. PushingAt(c)' = PushingAt(c) \ {t} /\ t \in PushingAt(c)
    BY <1>2 DEF PushStore, PushingAt, Pushing, TypeOK
  <2>2. Cardinality(PushingAt(c)') = Cardinality(PushingAt(c)) - 1
    BY <2>1, CellSetsFinite, FS_RemoveElement
  <2>3. buffer[c] = NULL /\ buffer'[c] # NULL
    BY <1>2, NullNoTask DEF PushStore, TypeOK
  <2>4. QED
    BY <1>1, <2>2, <2>3, CellSetsFinite DEF CellBalance
<1>3. CASE Cell(h[t]) # c
  <2>1. PushingAt(c)' = PushingAt(c) /\ buffer'[c] = buffer[c]
    BY <1>3 DEF PushStore, PushingAt, Pushing, TypeOK
  <2>2. QED
    BY <1>1, <2>1 DEF CellBalance
<1>4. QED
  BY <1>2, <1>3

\* A successful claim trades the free position at head for a waiting popper.
LEMMA ClaimBalance ==
  ASSUME TypeOK, HeadInv, CellBalance, NEW t \in Threads, PopClaim(t), head = h[t]
  PROVE  CellBalance'
<1> SUFFICES ASSUME NEW c \in Cells
             PROVE  (Cardinality(PushingAt(c)) + (IF buffer[c] = NULL THEN 0 ELSE 1)
                       = Cardinality(ClaimingAt(c)) + Cardinality(FreeAt(c)))'
  BY DEF CellBalance, Cells
<1>1. buffer' = buffer /\ PushingAt(c)' = PushingAt(c)
  BY DEF PopClaim, PushingAt, Pushing, TypeOK
<1>2. /\ (head .. (tail - 1))' = (head .. (tail - 1)) \ {head}
      /\ head \in head .. (tail - 1)
  BY DEF PopClaim, HeadInv, TypeOK
<1>3. CASE Cell(head) = c
  <2>1. ClaimingAt(c)' = ClaimingAt(c) \cup {t} /\ t \notin ClaimingAt(c)
    BY <1>3 DEF PopClaim, ClaimingAt, Claiming, TypeOK
  <2>2. FreeAt(c)' = FreeAt(c) \ {head} /\ head \in FreeAt(c)
    BY <1>2, <1>3 DEF FreeAt
  <2>3. /\ Cardinality(ClaimingAt(c)') = Cardinality(ClaimingAt(c)) + 1
        /\ Cardinality(FreeAt(c)') = Cardinality(FreeAt(c)) - 1
    <3>1. Cardinality(ClaimingAt(c)') = Cardinality(ClaimingAt(c)) + 1
      BY <2>1, CellSetsFinite, FS_AddElement
    <3>2. Cardinality(FreeAt(c)') = Cardinality(FreeAt(c)) - 1
      BY <2>2, CellSetsFinite, FS_RemoveElement
    <3>3. QED
      BY <3>1, <3>2
  <2>4. QED
    BY <1>1, <2>3, CellSetsFinite DEF CellBalance
<1>4. CASE Cell(head) # c
  <2>1. ClaimingAt(c)' = ClaimingAt(c)
    BY <1>4 DEF PopClaim, ClaimingAt, Claiming, TypeOK
  <2>2. FreeAt(c)' = FreeAt(c)
    BY <1>2, <1>4 DEF FreeAt
  <2>3. QED
    BY <1>1, <2>1, <2>2 DEF CellBalance
<1>5. QED
  BY <1>3, <1>4

\* A take empties its cell and ends one wait on it.
LEMMA TakeBalance ==
  ASSUME TypeOK, CellBalance, NEW t \in Threads, PopTake(t)
  PROVE  CellBalance'
<1> SUFFICES ASSUME NEW c \in Cells
             PROVE  (Cardinality(PushingAt(c)) + (IF buffer[c] = NULL THEN 0 ELSE 1)
                       = Cardinality(ClaimingAt(c)) + Cardinality(FreeAt(c)))'
  BY DEF CellBalance, Cells
<1>1. PushingAt(c)' = PushingAt(c) /\ FreeAt(c)' = FreeAt(c)
  BY DEF PopTake, PushingAt, Pushing, FreeAt, TypeOK
<1>2. CASE Cell(h[t]) = c
  <2>1. ClaimingAt(c)' = ClaimingAt(c) \ {t} /\ t \in ClaimingAt(c)
    BY <1>2 DEF PopTake, ClaimingAt, Claiming, TypeOK
  <2>2. Cardinality(ClaimingAt(c)') = Cardinality(ClaimingAt(c)) - 1
    BY <2>1, CellSetsFinite, FS_RemoveElement
  <2>3. buffer[c] # NULL /\ buffer'[c] = NULL
    <3>1. data[t] \in Tasks /\ buffer[c] = data[t]
      BY <1>2 DEF PopTake, TypeOK
    <3>2. buffer'[c] = NULL
      BY <1>2 DEF PopTake, TypeOK
    <3>3. QED
      BY <3>1, <3>2, NullNoTask
  <2>4. QED
    BY <1>1, <2>2, <2>3, CellSetsFinite DEF CellBalance
<1>3. CASE Cell(h[t]) # c
  <2>1. ClaimingAt(c)' = ClaimingAt(c) /\ buffer'[c] = buffer[c]
    BY <1>3 DEF PopTake, ClaimingAt, Claiming, TypeOK
  <2>2. QED
    BY <1>1, <2>1 DEF CellBalance
<1>4. QED
  BY <1>2, <1>3

\* At every cell, pending pushes plus the stored task cover exactly the
\* poppers that wait there plus the positions still free to claim
\* (queue.c:37-45, 60-73).
THEOREM Balance == Spec => []CellBalance
<1>1. Init => CellBalance
  <2> SUFFICES ASSUME Init, NEW c \in Cells
               PROVE  Cardinality(PushingAt(c)) + (IF buffer[c] = NULL THEN 0 ELSE 1)
                        = Cardinality(ClaimingAt(c)) + Cardinality(FreeAt(c))
    BY DEF CellBalance
  <2>1. PushingAt(c) = {} /\ ClaimingAt(c) = {} /\ FreeAt(c) = {} /\ buffer[c] = NULL
    BY DEF Init, PushingAt, ClaimingAt, FreeAt, Pushing, Claiming
  <2>2. QED
    BY <2>1, FS_EmptySet
<1>2. TypeOK /\ HeadInv /\ CellBalance /\ [Next]_vars => CellBalance'
  <2> SUFFICES ASSUME TypeOK, HeadInv, CellBalance, [Next]_vars PROVE CellBalance'
    OBVIOUS
  <2>1. ASSUME NEW t \in Threads, NEW d \in Tasks, PushReserve(t, d) PROVE CellBalance'
    BY <2>1, ReserveBalance
  <2>2. ASSUME NEW t \in Threads, PushStore(t) PROVE CellBalance'
    BY <2>2, StoreBalance
  <2>3. ASSUME NEW t \in Threads, PopClaim(t), head = h[t] PROVE CellBalance'
    BY <2>3, ClaimBalance
  <2>4. ASSUME NEW t \in Threads, PopTake(t) PROVE CellBalance'
    BY <2>4, TakeBalance
  <2>5. ASSUME NEW t \in Threads, PopClaim(t), head # h[t] PROVE CellBalance'
    BY <2>5, QuietClaim, BalanceUntouched
  <2>6. ASSUME NEW t \in Threads, QuietStep(t) PROVE CellBalance'
    BY <2>6, QuietSteps, BalanceUntouched
  <2>7. CASE UNCHANGED vars
    <3>1. KeepsCounts
      BY <2>7 DEF vars, KeepsCounts, Pushing, Claiming
    <3>2. QED
      BY <3>1, BalanceUntouched
  <2>8. QED
    BY <2>1, <2>2, <2>3, <2>4, <2>5, <2>6, <2>7 DEF Next, Continue, QuietStep
<1>3. QED
  BY <1>1, <1>2, Typing, HeadBelowTail, PTL DEF Spec

\* A popper that has moved head is never left spinning on a cell that nobody
\* will fill (queue.c:62-73).
THEOREM ClaimsServed == Spec => []NoOrphanClaim
<1>1. TypeOK /\ CellBalance => NoOrphanClaim
  BY BalanceServesClaims
<1>2. QED
  BY <1>1, Typing, Balance, PTL
---------------------------------------------------------------------------
(* The queue implements the pool *)

\* Every reserved or stored task is claimed or still free to claim.
PoolTally == Cardinality(Pool) = Cardinality(Claiming) + (tail - head)

\* The tasks of the pool are finitely many.
LEMMA PoolFinite ==
  ASSUME TypeOK
  PROVE  /\ IsFiniteSet(Pool) /\ Cardinality(Pool) \in Nat
         /\ IsFiniteSet(Claiming) /\ Cardinality(Claiming) \in Nat
<1>1. Pool \in SUBSET Tasks /\ Claiming \in SUBSET Threads
  BY DEF TypeOK, Pool, Pushing, Stored, Claiming
<1>2. QED
  BY <1>1, RingAssumption, FS_Subset, FS_CardinalityType

\* How each step changes the three mapped variables.
LEMMA ReserveEffect ==
  ASSUME TypeOK, NEW t \in Threads, NEW d \in Tasks, PushReserve(t, d)
  PROVE  /\ Pool' = Pool \cup {d} /\ d \notin Pool
         /\ Claiming' = Claiming /\ t \notin Claiming
         /\ ToldEmpty' = ToldEmpty /\ t \notin ToldEmpty
<1>1. Pushing' = Pushing \cup {t} /\ t \notin Pushing /\ Stored' = Stored
  BY DEF PushReserve, Pushing, Stored, TypeOK
<1>2. data'[t] = d /\ \A u \in Pushing : data'[u] = data[u]
  BY <1>1 DEF PushReserve, Pushing, TypeOK
<1>3. Pool' = Pool \cup {d}
  BY <1>1, <1>2 DEF Pool
<1>4. QED
  BY <1>3 DEF PushReserve, Claiming, ToldEmpty, TypeOK

\* A store moves a task from a pusher to a cell: the pool is unchanged
\* (queue.c:41).
LEMMA StoreEffect ==
  ASSUME TypeOK, NEW t \in Threads, PushStore(t)
  PROVE  Pool' = Pool /\ Claiming' = Claiming /\ ToldEmpty' = ToldEmpty
<1> DEFINE c == Cell(h[t])
<1>1. /\ c \in Cells /\ buffer[c] = NULL /\ data[t] \in Tasks
      /\ buffer' = [buffer EXCEPT ![c] = data[t]]
  BY CellType DEF PushStore, TypeOK
<1>2. Stored' = Stored \cup {data[t]}
  <2> HIDE DEF c
  <2>1. QED
    BY <1>1, NullNoTask DEF Stored, TypeOK
<1>3. Pushing' = Pushing \ {t} /\ t \in Pushing
  BY DEF PushStore, Pushing, TypeOK
<1>4. \A u \in Pushing \ {t} : data'[u] = data[u]
  BY DEF PushStore, Pushing, TypeOK
<1>5. Pool' = Pool
  BY <1>2, <1>3, <1>4 DEF Pool
<1>6. QED
  BY <1>5 DEF PushStore, Claiming, ToldEmpty, TypeOK

\* A take removes one task from the pool and ends one claim (queue.c:73).
LEMMA TakeEffect ==
  ASSUME TypeOK, NoTaskTwice, NEW t \in Threads, PopTake(t)
  PROVE  /\ data[t] \in Pool /\ Pool' = Pool \ {data[t]}
         /\ t \in Claiming /\ Claiming' = Claiming \ {t}
         /\ ToldEmpty' = ToldEmpty
<1> DEFINE c == Cell(h[t])
<1>1. /\ c \in Cells /\ buffer[c] = data[t] /\ data[t] \in Tasks
      /\ buffer' = [buffer EXCEPT ![c] = NULL]
  BY CellType DEF PopTake, TypeOK
<1>2. data[t] \in Stored /\ Stored' = Stored \ {data[t]}
  <2> HIDE DEF c
  <2>1. QED
    BY <1>1, NullNoTask DEF Stored, NoTaskTwice, TypeOK
<1>3. Pushing' = Pushing /\ \A u \in Pushing : data'[u] = data[u]
  BY DEF PopTake, Pushing, TypeOK
<1>4. \A u \in Pushing : data[u] # data[t]
  BY <1>2 DEF NoTaskTwice
<1>5. data[t] \in Pool /\ Pool' = Pool \ {data[t]}
  BY <1>2, <1>3, <1>4 DEF Pool
<1>6. QED
  BY <1>5 DEF PopTake, Claiming, ToldEmpty, TypeOK

\* The remaining steps keep the pool: they move neither a task nor a cell.
LEMMA PoolKept ==
  ASSUME TypeOK, NEW t \in Threads, QuietStep(t) \/ PopClaim(t)
  PROVE  Pool' = Pool
<1>1. /\ buffer' = buffer /\ Pushing' = Pushing
      /\ \A u \in Pushing : data'[u] = data[u]
  <2> USE DEF Pushing, TypeOK
  <2>1. CASE PopLoadHead(t) \/ PopLoadTail(t) \/ Release(t)
    BY <2>1 DEF PopLoadHead, PopLoadTail, Release
  <2>2. CASE PopLoad(t) \/ PopRetry(t)
    BY <2>2 DEF PopLoad, PopRetry
  <2>3. CASE PopClaim(t)
    BY <2>3 DEF PopClaim
  <2>4. QED
    BY <2>1, <2>2, <2>3 DEF QuietStep
<1>2. QED
  BY <1>1 DEF Pool, Stored, Cells

\* Claims and free positions together are as many as the tasks of the pool:
\* what "empty" may be said of (queue.c:52-60).
LEMMA Tally == Spec => []PoolTally
<1>1. Init => PoolTally
  <2> SUFFICES ASSUME Init PROVE PoolTally
    OBVIOUS
  <2>1. Pool = {} /\ Claiming = {} /\ tail - head = 0
    BY DEF Init, Pool, Pushing, Stored, Claiming
  <2>2. QED
    BY <2>1, FS_EmptySet DEF PoolTally
<1>2. TypeOK /\ NoTaskTwice /\ PoolTally /\ [Next]_vars => PoolTally'
  <2> SUFFICES ASSUME TypeOK, NoTaskTwice, PoolTally, [Next]_vars PROVE PoolTally'
    OBVIOUS
  <2> USE DEF PoolTally
  <2>1. ASSUME NEW t \in Threads, NEW d \in Tasks, PushReserve(t, d) PROVE PoolTally'
    <3>1. Cardinality(Pool') = Cardinality(Pool) + 1 /\ Claiming' = Claiming
      BY <2>1, ReserveEffect, PoolFinite, FS_AddElement
    <3>2. tail' - head' = (tail - head) + 1
      BY <2>1 DEF PushReserve, TypeOK
    <3>3. QED
      BY <3>1, <3>2, PoolFinite DEF TypeOK
  <2>2. ASSUME NEW t \in Threads, PushStore(t) PROVE PoolTally'
    BY <2>2, StoreEffect DEF PushStore
  <2>3. ASSUME NEW t \in Threads, PopTake(t) PROVE PoolTally'
    <3> DEFINE d == data[t]
    <3>1. /\ d \in Pool /\ Pool' = Pool \ {d}
          /\ t \in Claiming /\ Claiming' = Claiming \ {t}
      BY <2>3, TakeEffect
    <3> HIDE DEF d
    <3>2. Cardinality(Pool') = Cardinality(Pool) - 1
      BY <3>1, PoolFinite, FS_RemoveElement
    <3>3. Cardinality(Claiming') = Cardinality(Claiming) - 1
      BY <3>1, PoolFinite, FS_RemoveElement
    <3>4. head' = head /\ tail' = tail
      BY <2>3 DEF PopTake
    <3>5. QED
      BY <3>2, <3>3, <3>4, PoolFinite DEF TypeOK
  <2>4. ASSUME NEW t \in Threads, PopClaim(t), head = h[t] PROVE PoolTally'
    <3>1. Pool' = Pool /\ Claiming' = Claiming \cup {t} /\ t \notin Claiming
      BY <2>4, PoolKept DEF PopClaim, Claiming, TypeOK
    <3>2. Cardinality(Claiming') = Cardinality(Claiming) + 1
      BY <3>1, PoolFinite, FS_AddElement
    <3>3. head' = head + 1 /\ tail' = tail
      BY <2>4 DEF PopClaim
    <3>4. QED
      BY <3>1, <3>2, <3>3, PoolFinite DEF TypeOK
  <2>5. ASSUME NEW t \in Threads, PopClaim(t), head # h[t] PROVE PoolTally'
    BY <2>5, PoolKept DEF PopClaim, Claiming, TypeOK
  <2>6. ASSUME NEW t \in Threads, QuietStep(t) PROVE PoolTally'
    <3>1. Pool' = Pool
      BY <2>6, PoolKept
    <3>2. head' = head /\ tail' = tail /\ Claiming' = Claiming
      BY <2>6, QuietSteps DEF KeepsCounts, Claiming
    <3>3. QED
      BY <3>1, <3>2
  <2>7. CASE UNCHANGED vars
    BY <2>7 DEF vars, Pool, Pushing, Stored, Claiming
  <2>8. QED
    BY <2>1, <2>2, <2>3, <2>4, <2>5, <2>6, <2>7 DEF Next, Continue, QuietStep
<1>3. QED
  BY <1>1, <1>2, Typing, ExactlyOnce, PTL DEF Spec

\* The two modules extend FiniteSets each on its own.
LEMMA SameCardinality == \A S : P!Cardinality(S) = Cardinality(S)
  BY DEF P!Cardinality, Cardinality

\* queue_push_front and queue_pop implement the pool: a push adds its task
\* when it moves head, a pop claims when its compare-exchange moves head, and
\* it takes a task when it empties the cell; "empty" is only said when every
\* task is claimed (queue.c:35-77).
THEOREM Implementation == Spec => ImplementsPool
<1>1. Init => P!PoolInit
  BY DEF Init, P!PoolInit, Pool, Pushing, Stored, Claiming, ToldEmpty
<1>2. /\ TypeOK /\ NoTaskTwice /\ HeadInv /\ PoolTally
      /\ [Next]_vars
      => [P!PoolNext]_(P!poolVars)
  <2> SUFFICES ASSUME TypeOK, NoTaskTwice, HeadInv, PoolTally, [Next]_vars
               PROVE  [P!PoolNext]_(P!poolVars)
    OBVIOUS
  <2>1. ASSUME NEW t \in Threads, NEW d \in Tasks, PushReserve(t, d)
        PROVE  P!Add(t, d)
    BY <2>1, ReserveEffect DEF P!Add
  <2>2. ASSUME NEW t \in Threads, PushStore(t)
        PROVE  UNCHANGED P!poolVars
    BY <2>2, StoreEffect DEF P!poolVars
  <2>3. ASSUME NEW t \in Threads, PopLoadHead(t)
        PROVE  UNCHANGED P!poolVars \/ P!FindEmpty(t)
    <3>1. Pool' = Pool /\ Claiming' = Claiming /\ t \notin Claiming \cup ToldEmpty
      BY <2>3, PoolKept DEF QuietStep, PopLoadHead, Claiming, ToldEmpty, TypeOK
    <3>2. CASE head >= tail
      <4>1. ToldEmpty' = ToldEmpty \cup {t}
        BY <2>3, <3>2 DEF PopLoadHead, ToldEmpty, TypeOK
      <4>2. Cardinality(Claiming) = Cardinality(Pool)
        BY <3>2, PoolFinite DEF PoolTally, HeadInv, TypeOK
      <4>3. QED
        BY <3>1, <4>1, <4>2, SameCardinality DEF P!FindEmpty
    <3>3. CASE head < tail
      <4>1. ToldEmpty' = ToldEmpty
        BY <2>3, <3>3 DEF PopLoadHead, ToldEmpty, TypeOK
      <4>2. QED
        BY <3>1, <4>1 DEF P!poolVars
    <3>4. QED
      BY <3>2, <3>3 DEF TypeOK
  <2>4. ASSUME NEW t \in Threads, PopLoadTail(t)
        PROVE  UNCHANGED P!poolVars \/ P!LeaveEmpty(t)
    <3>1. Pool' = Pool /\ Claiming' = Claiming
      BY <2>4, PoolKept DEF QuietStep, PopLoadTail, Claiming, TypeOK
    <3>2. ToldEmpty' = ToldEmpty \ {t}
      BY <2>4 DEF PopLoadTail, ToldEmpty, TypeOK
    <3>3. QED
      BY <3>1, <3>2 DEF P!poolVars, P!LeaveEmpty
  <2>5. ASSUME NEW t \in Threads, PopClaim(t), head = h[t]
        PROVE  P!Claim(t)
    <3>1. /\ Pool' = Pool /\ Claiming' = Claiming \cup {t}
          /\ t \notin Claiming \cup ToldEmpty /\ ToldEmpty' = ToldEmpty
      BY <2>5, PoolKept DEF PopClaim, Claiming, ToldEmpty, TypeOK
    <3>2. Cardinality(Claiming) < Cardinality(Pool)
      BY <2>5, PoolFinite DEF PopClaim, PoolTally, HeadInv, TypeOK
    <3>3. QED
      BY <3>1, <3>2, SameCardinality DEF P!Claim
  <2>6. ASSUME NEW t \in Threads, PopClaim(t), head # h[t]
        PROVE  UNCHANGED P!poolVars \/ P!FindEmpty(t)
    <3>1. Pool' = Pool /\ Claiming' = Claiming /\ t \notin Claiming \cup ToldEmpty
      BY <2>6, PoolKept DEF PopClaim, Claiming, ToldEmpty, TypeOK
    <3>2. CASE head >= tail
      <4>1. ToldEmpty' = ToldEmpty \cup {t}
        BY <2>6, <3>2 DEF PopClaim, ToldEmpty, TypeOK
      <4>2. Cardinality(Claiming) = Cardinality(Pool)
        BY <3>2, PoolFinite DEF PoolTally, HeadInv, TypeOK
      <4>3. QED
        BY <3>1, <4>1, <4>2, SameCardinality DEF P!FindEmpty
    <3>3. CASE head < tail
      <4>1. ToldEmpty' = ToldEmpty
        BY <2>6, <3>3 DEF PopClaim, ToldEmpty, TypeOK
      <4>2. QED
        BY <3>1, <4>1 DEF P!poolVars
    <3>4. QED
      BY <3>2, <3>3 DEF TypeOK
  <2>7. ASSUME NEW t \in Threads, PopLoad(t) \/ PopRetry(t) \/ Release(t)
        PROVE  UNCHANGED P!poolVars
    <3>1. Pool' = Pool
      BY <2>7, PoolKept DEF QuietStep
    <3>2. Claiming' = Claiming /\ ToldEmpty' = ToldEmpty
      BY <2>7 DEF PopLoad, PopRetry, Release, Claiming, ToldEmpty, TypeOK
    <3>3. QED
      BY <3>1, <3>2 DEF P!poolVars
  <2>8. ASSUME NEW t \in Threads, PopTake(t)
        PROVE  P!Take(t, data[t]) /\ data[t] \in Tasks
    BY <2>8, TakeEffect DEF P!Take, PopTake, TypeOK
  <2>9. CASE UNCHANGED vars
    BY <2>9 DEF vars, P!poolVars, Pool, Pushing, Stored, Claiming, ToldEmpty
  <2>10. QED
    BY <2>1, <2>2, <2>3, <2>4, <2>5, <2>6, <2>7, <2>8, <2>9
       DEF Next, Continue, P!PoolNext
<1>3. QED
  BY <1>1, <1>2, Typing, ExactlyOnce, HeadBelowTail, Tally, PTL
     DEF Spec, ImplementsPool, P!PoolSpec
=============================================================================
