------------------------------ MODULE TaskPool ------------------------------
(***************************************************************************)
(* What a lock-free task queue promises to the threads that use it: a pool *)
(* of tasks with no order.  A thread that is told "there is a task for     *)
(* you" (a claim) always gets one, no task is handed out twice, none       *)
(* vanishes, and "empty" is only said at an instant at which every task in *)
(* the pool is already claimed.  TaskQueue implements this specification.  *)
(***************************************************************************)
EXTENDS Naturals, FiniteSets

CONSTANTS Threads,   \* the threads that push and pop
          Tasks      \* the task records (struct queued_worker pointers)

VARIABLES pool,      \* tasks handed to the queue and not handed out yet
          claimed,   \* threads that have been promised a task
          toldEmpty  \* threads that are about to be told "no task"

poolVars == <<pool, claimed, toldEmpty>>

PoolInit ==
    /\ pool = {}
    /\ claimed = {}
    /\ toldEmpty = {}

\* A thread hands a task over.
Add(t, d) ==
    /\ t \notin claimed \cup toldEmpty
    /\ d \notin pool
    /\ pool' = pool \cup {d}
    /\ UNCHANGED <<claimed, toldEmpty>>

\* A popping thread is promised one of the tasks that nobody else claimed.
Claim(t) ==
    /\ t \notin claimed \cup toldEmpty
    /\ Cardinality(claimed) < Cardinality(pool)
    /\ claimed' = claimed \cup {t}
    /\ UNCHANGED <<pool, toldEmpty>>

\* The promise is kept, with any task of the pool.
Take(t, d) ==
    /\ t \in claimed
    /\ d \in pool
    /\ pool' = pool \ {d}
    /\ claimed' = claimed \ {t}
    /\ UNCHANGED toldEmpty

\* Every task of the pool is spoken for: a popping thread may leave with none.
FindEmpty(t) ==
    /\ t \notin claimed \cup toldEmpty
    /\ Cardinality(claimed) = Cardinality(pool)
    /\ toldEmpty' = toldEmpty \cup {t}
    /\ UNCHANGED <<pool, claimed>>

LeaveEmpty(t) ==
    /\ t \in toldEmpty
    /\ toldEmpty' = toldEmpty \ {t}
    /\ UNCHANGED <<pool, claimed>>

PoolNext ==
    \E t \in Threads :
        \/ Claim(t)
        \/ FindEmpty(t)
        \/ LeaveEmpty(t)
        \/ \E d \in Tasks : Add(t, d) \/ Take(t, d)

PoolSpec == PoolInit /\ [][PoolNext]_poolVars
=============================================================================
