------------------------------ MODULE Dispatch ------------------------------
(***************************************************************************)
(* What the scheduler promises to those who submit workers to it, whatever *)
(* queue a record is pushed to and whoever steals it: a submitted record   *)
(* is executed by one thread, once for each time it was submitted, and by  *)
(* a thread that executes nothing else.  Scheduler implements this.        *)
(***************************************************************************)

CONSTANTS Threads, Tasks, None

VARIABLES waiting,  \* records submitted and not executed yet
          running   \* running[t]: the record thread t executes, or None

dispatchVars == <<waiting, running>>

DispatchInit ==
    /\ waiting = {}
    /\ running = [t \in Threads |-> None]

\* A record that is free is handed to the scheduler.
Submit(d) ==
    /\ d \notin waiting
    /\ \A t \in Threads : running[t] # d
    /\ waiting' = waiting \cup {d}
    /\ UNCHANGED running

\* A thread without work executes a waiting record.
Start(t, d) ==
    /\ running[t] = None
    /\ d \in waiting
    /\ waiting' = waiting \ {d}
    /\ running' = [running EXCEPT ![t] = d]

\* The worker ends or pauses, and its record is free again.
End(t) ==
    /\ running[t] # None
    /\ running' = [running EXCEPT ![t] = None]
    /\ UNCHANGED waiting

DispatchNext ==
    \/ \E d \in Tasks : Submit(d)
    \/ \E t \in Threads : End(t) \/ \E d \in Tasks : Start(t, d)

DispatchSpec == DispatchInit /\ [][DispatchNext]_dispatchVars

\* What follows for an observer: nobody executes a record that still waits, and
\* no two threads execute the same one.
Once ==
    /\ waiting \subseteq Tasks
    /\ running \in [Threads -> Tasks \cup {None}]
    /\ \A t \in Threads : running[t] \notin waiting
    /\ \A t, u \in Threads : running[t] # None /\ running[t] = running[u] => t = u
=============================================================================
