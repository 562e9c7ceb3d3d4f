------------------------------ MODULE WaitList ------------------------------
(***************************************************************************)
(* wait_list of src/runtimes/0.3/common: the lock-free list of paused      *)
(* workers that idle scheduler threads look through.  WaitListNode pushes  *)
(* a node with a compare-exchange; UpdateWaitingWorkers takes the whole    *)
(* list with an exchange, resumes the workers whose wait is over, lets the *)
(* others wait again in a new node, and after THRESHOLD resumed workers    *)
(* splices the rest of its chain back and returns.                         *)
(*                                                                         *)
(* Nodes come from a free list under a spinlock, last freed first, and     *)
(* from malloc when it is empty: the never allocated nodes lie at the      *)
(* bottom of the stack free.  What ends a wait (a timer, a new page of     *)
(* object ids) is over[w], which becomes TRUE at some moment.              *)
(***************************************************************************)
EXTENDS Integers, Sequences, FiniteSets

CONSTANTS Sleepers,    \* workers that pause in x64Sleep
          Allocators,  \* workers that pause in x64NewObject: out of pages
          Updaters,    \* idle scheduler threads
          MaxNodes,    \* bound: how many nodes malloc ever gives
          THRESHOLD,   \* resumed workers after which the rest is put back
          MaxPauses,   \* bound: how often each worker pauses
          Nil

Workers == Sleepers \cup Allocators
Procs   == Workers \cup Updaters

\* struct wait_list_node
Nodes == 1 .. MaxNodes

ASSUME WaitListAssumption ==
    /\ THRESHOLD \in Nat \ {0}
    /\ MaxPauses \in Nat
    /\ MaxNodes \in Nat
    /\ Sleepers \cap Allocators = {} /\ Workers \cap Updaters = {}
    /\ Nil \notin Nodes \cup Workers

VARIABLES head,     \* wait_list
          next,     \* next pointer of each node
          item,     \* worker of each node
          free,     \* stack of the nodes freed or never allocated
          state,    \* of each worker: "running" or "waiting"
          over,     \* the wait of each worker is over
          pauses,   \* how often each worker has paused
          pc,       \* where each worker or updater is in the list code
          node,     \* the node WaitListNode inserts
          oldHead,  \* its local variable old_head, Nil outside the loop
          curr,     \* locals of UpdateWaitingWorkers
          nxt,
          tail,
          count

vars == <<head, next, item, free, state, over, pauses, pc, node, oldHead, curr, nxt, tail, count>>

Init ==
    /\ head = Nil
    /\ next = [n \in Nodes |-> Nil]
    /\ item = [n \in Nodes |-> Nil]
    /\ free = [k \in Nodes |-> k]
    /\ state = [w \in Workers |-> "running"]
    /\ over = [w \in Workers |-> FALSE]
    /\ pauses = [w \in Workers |-> 0]
    /\ pc = [p \in Procs |-> "idle"]
    /\ node = [p \in Procs |-> Nil]
    /\ oldHead = [p \in Procs |-> Nil]
    /\ curr = [u \in Updaters |-> Nil]
    /\ nxt = [u \in Updaters |-> Nil]
    /\ tail = [u \in Updaters |-> Nil]
    /\ count = [u \in Updaters |-> 0]

Goto(p, label) == pc' = [pc EXCEPT ![p] = label]

\* The next node of a chain, or Nil at its end.
After(n) == IF n = Nil THEN Nil ELSE next[n]

---------------------------------------------------------------------------
(* WaitListWorker and WaitListNode *)

\* Take a node for worker w and load old_head.
StartInsert(p, w) ==
    /\ free # <<>>
    /\ free' = Tail(free)
    /\ item' = [item EXCEPT ![Head(free)] = w]
    /\ node' = [node EXCEPT ![p] = Head(free)]
    /\ oldHead' = [oldHead EXCEPT ![p] = head]
    /\ Goto(p, "insert")

\* Broken: the head is stored without a compare.
InsertBlind(p) ==
    /\ pc[p] = "insert"
    /\ next' = [next EXCEPT ![node[p]] = oldHead[p]]
    /\ head' = node[p]
    /\ node' = [node EXCEPT ![p] = Nil]
    /\ Goto(p, IF p \in Updaters THEN "advance" ELSE "idle")
    /\ UNCHANGED <<oldHead, item, free, state, over, pauses, curr, nxt, tail, count>>

\* node->next = old_head and the compare-exchange; on failure it reloads
\* old_head.  An updater goes on with its chain, a worker has paused.
Insert(p) ==
    /\ pc[p] = "insert"
    /\ next' = [next EXCEPT ![node[p]] = oldHead[p]]
    /\ IF head = oldHead[p]
       THEN /\ head' = node[p]
            /\ node' = [node EXCEPT ![p] = Nil]
            /\ oldHead' = [oldHead EXCEPT ![p] = Nil]
            /\ Goto(p, IF p \in Updaters THEN "advance" ELSE "idle")
       ELSE /\ oldHead' = [oldHead EXCEPT ![p] = head]
            /\ UNCHANGED <<head, node, pc>>
    /\ UNCHANGED <<item, free, state, over, pauses, curr, nxt, tail, count>>

---------------------------------------------------------------------------
(* Workers *)

\* x64Sleep: pause the worker and WaitListWorker.
Sleep(w) ==
    /\ w \in Sleepers
    /\ state[w] = "running" /\ pc[w] = "idle" /\ pauses[w] < MaxPauses
    /\ state' = [state EXCEPT ![w] = "waiting"]
    /\ over' = [over EXCEPT ![w] = FALSE]
    /\ pauses' = [pauses EXCEPT ![w] = @ + 1]
    /\ StartInsert(w, w)
    /\ UNCHANGED <<head, next, curr, nxt, tail, count>>

\* x64NewObject when GetNewObjectId finds no page: the worker is paused and
\* the thread goes back to the scheduler.
PauseForPages(w) ==
    /\ w \in Allocators
    /\ state[w] = "running" /\ pauses[w] < MaxPauses
    /\ state' = [state EXCEPT ![w] = "waiting"]
    /\ over' = [over EXCEPT ![w] = FALSE]
    /\ pauses' = [pauses EXCEPT ![w] = @ + 1]
    /\ UNCHANGED <<head, next, item, free, pc, node, oldHead, curr, nxt, tail, count>>

\* The timer runs out, or a page of object ids arrives.
Elapse(w) ==
    /\ state[w] = "waiting"
    /\ ~over[w]
    /\ over' = [over EXCEPT ![w] = TRUE]
    /\ UNCHANGED <<head, next, item, free, state, pauses, pc, node, oldHead,
                   curr, nxt, tail, count>>

---------------------------------------------------------------------------
(* UpdateWaitingWorkers *)

\* atomic_exchange(&wait_list, NULL)
TakeAll(u) ==
    /\ pc[u] = "idle"
    /\ head # Nil
    /\ head' = Nil
    /\ curr' = [curr EXCEPT ![u] = head]
    /\ nxt' = [nxt EXCEPT ![u] = next[head]]
    /\ count' = [count EXCEPT ![u] = 0]
    /\ Goto(u, "update")
    /\ UNCHANGED <<next, item, free, state, over, pauses, node, oldHead, tail>>

\* UpdateSingleWorker: resume the worker, or let it wait again.
Update(u) ==
    /\ pc[u] = "update"
    /\ LET w == item[curr[u]]
       IN  \/ /\ over[w]
              /\ state' = [state EXCEPT ![w] = "running"]
              /\ count' = [count EXCEPT ![u] = @ + 1]
              /\ Goto(u, "advance")
              /\ UNCHANGED <<item, free, node, oldHead>>
           \/ /\ ~over[w]
              /\ StartInsert(u, w)
              /\ UNCHANGED <<state, count>>
    /\ UNCHANGED <<head, next, over, pauses, curr, nxt, tail>>

\* Broken: nxt is moved twice, so every other node is skipped.
AdvanceSkipping(u) ==
    /\ pc[u] = "advance"
    /\ free' = <<curr[u]>> \o free
    /\ curr' = [curr EXCEPT ![u] = After(nxt[u])]
    /\ nxt' = [nxt EXCEPT ![u] = After(After(nxt[u]))]
    /\ Goto(u, IF After(nxt[u]) = Nil THEN "idle" ELSE "update")
    /\ UNCHANGED <<head, next, item, state, over, pauses, node, oldHead, tail, count>>

\* Broken: the threshold is not looked at.
AdvanceAlways(u) ==
    /\ pc[u] = "advance"
    /\ free' = <<curr[u]>> \o free
    /\ curr' = [curr EXCEPT ![u] = nxt[u]]
    /\ nxt' = [nxt EXCEPT ![u] = After(nxt[u])]
    /\ Goto(u, IF nxt[u] = Nil THEN "idle" ELSE "update")
    /\ UNCHANGED <<head, next, item, state, over, pauses, node, oldHead, tail, count>>

\* Broken: the next node is freed in place of the current one.
AdvanceFreeingNext(u) ==
    /\ pc[u] = "advance"
    /\ free' = <<IF nxt[u] = Nil THEN curr[u] ELSE nxt[u]>> \o free
    /\ curr' = [curr EXCEPT ![u] = nxt[u]]
    /\ nxt' = [nxt EXCEPT ![u] = After(nxt[u])]
    /\ Goto(u, IF nxt[u] = Nil THEN "idle" ELSE "update")
    /\ UNCHANGED <<head, next, item, state, over, pauses, node, oldHead, tail, count>>

\* Free the node and go on with the next one, unless enough were resumed.
Advance(u) ==
    /\ pc[u] = "advance"
    /\ IF count[u] >= THRESHOLD /\ nxt[u] # Nil
       THEN /\ tail' = [tail EXCEPT ![u] = nxt[u]]
            /\ Goto(u, "walk")
            /\ UNCHANGED <<free, curr, nxt>>
       ELSE /\ free' = <<curr[u]>> \o free
            /\ curr' = [curr EXCEPT ![u] = nxt[u]]
            /\ nxt' = [nxt EXCEPT ![u] = After(nxt[u])]
            /\ Goto(u, IF nxt[u] = Nil THEN "idle" ELSE "update")
            /\ UNCHANGED tail
    /\ UNCHANGED <<head, next, item, state, over, pauses, node, oldHead, count>>

\* while (tail->next) tail = tail->next, then load old_head.
Walk(u) ==
    /\ pc[u] = "walk"
    /\ IF next[tail[u]] # Nil
       THEN /\ tail' = [tail EXCEPT ![u] = next[tail[u]]]
            /\ UNCHANGED <<pc, oldHead>>
       ELSE /\ oldHead' = [oldHead EXCEPT ![u] = head]
            /\ Goto(u, "splice")
            /\ UNCHANGED tail
    /\ UNCHANGED <<head, next, item, free, state, over, pauses, node, curr, nxt, count>>

\* tail->next = old_head and the compare-exchange of wait_list to nxt; the
\* current node is not freed.
Splice(u) ==
    /\ pc[u] = "splice"
    /\ next' = [next EXCEPT ![tail[u]] = oldHead[u]]
    /\ IF head = oldHead[u]
       THEN /\ head' = nxt[u]
            /\ curr' = [curr EXCEPT ![u] = Nil]
            /\ nxt' = [nxt EXCEPT ![u] = Nil]
            /\ tail' = [tail EXCEPT ![u] = Nil]
            /\ oldHead' = [oldHead EXCEPT ![u] = Nil]
            /\ Goto(u, "idle")
       ELSE /\ oldHead' = [oldHead EXCEPT ![u] = head]
            /\ UNCHANGED <<head, curr, nxt, pc, tail>>
    /\ UNCHANGED <<item, free, state, over, pauses, node, count>>

---------------------------------------------------------------------------

UpdaterStep(u) ==
    TakeAll(u) \/ Update(u) \/ Insert(u) \/ Advance(u) \/ Walk(u) \/ Splice(u)

WorkerStep(w) == Sleep(w) \/ PauseForPages(w) \/ Insert(w) \/ Elapse(w)

Next ==
    \/ \E u \in Updaters : UpdaterStep(u)
    \/ \E w \in Workers : WorkerStep(w)

Spec == Init /\ [][Next]_vars

\* Idle scheduler threads keep calling UpdateWaitingWorkers, a pausing worker
\* finishes its insertion; no wait has to end and no worker has to pause.
FairSpec ==
    /\ Spec
    /\ \A u \in Updaters : WF_vars(UpdaterStep(u))
    /\ \A w \in Workers : WF_vars(Insert(w))

---------------------------------------------------------------------------
(* Properties *)

TypeOK ==
    /\ head \in Nodes \cup {Nil}
    /\ next \in [Nodes -> Nodes \cup {Nil}]
    /\ item \in [Nodes -> Workers \cup {Nil}]
    /\ free \in Seq(Nodes) /\ Len(free) <= MaxNodes
    /\ state \in [Workers -> {"running", "waiting"}]
    /\ over \in [Workers -> BOOLEAN]
    /\ pauses \in [Workers -> 0 .. MaxPauses]
    /\ pc \in [Procs -> {"idle", "insert", "update", "advance", "walk", "splice"}]
    /\ node \in [Procs -> Nodes \cup {Nil}]
    /\ oldHead \in [Procs -> Nodes \cup {Nil}]
    /\ {curr, nxt, tail} \subseteq [Updaters -> Nodes \cup {Nil}]
    /\ count \in [Updaters -> 0 .. THRESHOLD]

\* The nodes from n along the pointers f, up to the node last.
Follow(f, n, last) ==
    LET reach[k \in 0 .. Cardinality(Nodes)] ==
            IF k = 0 THEN {n}
            ELSE LET near == reach[k - 1]
                 IN  near \cup {IF m = Nil THEN Nil ELSE f[m] : m \in near \ {last}}
    IN  reach[Cardinality(Nodes)] \ {Nil}

\* The public list, and the nodes that follow the current one of an updater.
\* A failed splice has linked the last of these to the public list, which is
\* not the updater's own.
Public == Follow(next, head, Nil)
End(u) == IF pc[u] = "splice" THEN tail[u] ELSE Nil
Ahead(u) == Follow(next, nxt[u], End(u))

\* The chain an updater has not finished with: its current node until the
\* worker is resumed or waits again, and those that follow.
Rest(u) == (IF pc[u] = "update" THEN {curr[u]} ELSE {}) \cup Ahead(u)

\* No paused worker falls out of the list and none is in it twice, whatever
\* the races of pausing workers, exchanges and splices (allocators.c:91-103,
\* runtime.c:330-363): each waiting sleeper has one live node.
LiveNodes(w) ==
    {n \in Nodes :
        /\ item[n] = w
        /\ \/ n \in Public
           \/ \E u \in Updaters : n \in Rest(u)
           \/ \E p \in Procs : node[p] = n}

OneNodePerWaiter ==
    \A w \in Sleepers :
        Cardinality(LiveNodes(w)) = IF state[w] = "waiting" THEN 1 ELSE 0

\* A node is never handed out again while it is still linked or examined
\* (runtime.c:362, FreeWaitingNode).
Free == {free[k] : k \in DOMAIN free}

FreeNodesUnreachable ==
    /\ Cardinality(Free) = Len(free)
    /\ Free \cap Public = {}
    /\ \A u \in Updaters : Free \cap (Rest(u) \cup {curr[u]}) = {}
    /\ \A p \in Procs : node[p] \notin Free

\* A wait that is over ends: once its node is in the list the sleeper is
\* resumed, also when it was put back by a splice (runtime.c:305-366), if one
\* updater is left to work in the end; two may hand each other the list for ever.
OnlyOneWorks == \E u \in Updaters : \A v \in Updaters \ {u} : pc[v] = "idle"

SleepersResume ==
    <>[]OnlyOneWorks =>
        \A w \in Sleepers :
            (state[w] = "waiting" /\ pc[w] = "idle" /\ over[w]) ~> (state[w] = "running")

=============================================================================
