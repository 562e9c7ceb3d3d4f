---------------------------- MODULE PromiseWait ----------------------------
(***************************************************************************)
(* One local promise of src/runtimes/0.3 and the workers that await it.    *)
(*                                                                         *)
(* A worker that queries a promise that is not ready is paused and put on  *)
(* wait_list (x64QueryObject).  An idle scheduler thread takes the whole   *)
(* list (UpdateWaitingWorkers) and moves every worker whose promise is     *)
(* still not ready into get_wait_list under the key of its query           *)
(* (x64QueryObjectStates).  A push marks the promise ready, stores the     *)
(* data and continues the workers under the key (x64PushObject).  A push   *)
(* or a query that arrives from another hive goes through HandleApiCall.   *)
(*                                                                         *)
(* The value of a key in get_wait_list is a list pointer with the number   *)
(* of threads processing it in the low bits (the tag).  GetsetInsertTagged *)
(* and hashtable_take_tagged each change it by one compare-exchange of the *)
(* whole value: one step here.  Growing the table is not modelled here.    *)
(***************************************************************************)
EXTENDS Naturals, FiniteSets

CONSTANTS Waiters,        \* workers of this hive that query the promise
          Pushers,        \* workers of this hive that push to it
          Updaters,       \* scheduler threads that find no queued worker
          RemotePushers,  \* connections that bring an API_PUSH_OBJECT
          RemoteReaders,  \* connections that bring an API_QUERY_OBJECT
          None

ASSUME PromiseAssumption ==
    /\ IsFiniteSet(Pushers)
    /\ None \notin Waiters
    /\ Pushers \cap RemotePushers = {}

\* GETSET_WAIT_LIST_PARALLEL_PROCESSING
PARALLEL_PROCESSING == 1

VARIABLES ready,     \* object_promise.ready
          stored,    \* the pushed data is in object_promise.data
          waitList,  \* wait_list
          tag,       \* get_wait_list[key]: the tag
          listed,    \* get_wait_list[key]: the list of waiters
          wpc,       \* where each waiter is
          got,       \* what each query or remote query returned
          upc,       \* where each updater is
          hand,      \* the waiters an updater has taken and not examined yet
          cur,       \* the waiter an updater examines
          ppc,       \* where each push is
          taken      \* the waiters a push has taken and not continued yet

vars == <<ready, stored, waitList, tag, listed, wpc, got, upc, hand, cur, ppc, taken>>

pushVars   == <<ppc, taken>>
updateVars == <<upc, hand, cur>>

AllPushers == Pushers \cup RemotePushers

Init ==
    /\ ready = FALSE
    /\ stored = FALSE
    /\ waitList = {}
    /\ tag = 0
    /\ listed = {}
    /\ wpc = [w \in Waiters |-> "query"]
    /\ got = [w \in Waiters \cup RemoteReaders |-> "nothing"]
    /\ upc = [u \in Updaters |-> "idle"]
    /\ hand = [u \in Updaters |-> {}]
    /\ cur = [u \in Updaters |-> None]
    /\ ppc = [x \in AllPushers |-> "mark"]
    /\ taken = [x \in AllPushers |-> {}]

\* memcpy from the promise: the pushed value, or the bytes before any push.
Contents == IF stored THEN "value" ELSE "blank"

---------------------------------------------------------------------------
(* A worker queries: x64QueryObject and x64QueryLocalObject *)

Query(w) ==
    /\ wpc[w] = "query"
    /\ wpc' = [wpc EXCEPT ![w] = IF ready THEN "read" ELSE "pause"]
    /\ UNCHANGED <<ready, stored, waitList, tag, listed, got, updateVars, pushVars>>

\* The promise was ready: copy the data and run on.
Read(w) ==
    /\ wpc[w] = "read"
    /\ got' = [got EXCEPT ![w] = Contents]
    /\ wpc' = [wpc EXCEPT ![w] = "continued"]
    /\ UNCHANGED <<ready, stored, waitList, tag, listed, updateVars, pushVars>>

\* It was not: pause the worker and WaitListWorker.
Pause(w) ==
    /\ wpc[w] = "pause"
    /\ waitList' = waitList \cup {w}
    /\ wpc' = [wpc EXCEPT ![w] = "paused"]
    /\ UNCHANGED <<ready, stored, tag, listed, got, updateVars, pushVars>>

---------------------------------------------------------------------------
(* An idle thread: UpdateWaitingWorkers and x64QueryObjectStates *)

TakeWaitList(u) ==
    /\ upc[u] = "idle"
    /\ waitList # {}
    /\ hand' = [hand EXCEPT ![u] = waitList]
    /\ waitList' = {}
    /\ upc' = [upc EXCEPT ![u] = "scan"]
    /\ UNCHANGED <<ready, stored, tag, listed, wpc, got, cur, pushVars>>

Examine(u) ==
    /\ upc[u] = "scan"
    /\ \E w \in hand[u] :
          /\ hand' = [hand EXCEPT ![u] = @ \ {w}]
          /\ cur' = [cur EXCEPT ![u] = w]
          /\ upc' = [upc EXCEPT ![u] = IF ready THEN "copy" ELSE "insert"]
    /\ UNCHANGED <<ready, stored, waitList, tag, listed, wpc, got, pushVars>>

ScanEnd(u) ==
    /\ upc[u] = "scan"
    /\ hand[u] = {}
    /\ upc' = [upc EXCEPT ![u] = "idle"]
    /\ UNCHANGED <<ready, stored, waitList, tag, listed, wpc, got, hand, cur, pushVars>>

\* Broken: the node just handled stays the current one.
CopyKeepingCur(u) ==
    /\ upc[u] = "copy"
    /\ got' = [got EXCEPT ![cur[u]] = Contents]
    /\ wpc' = [wpc EXCEPT ![cur[u]] = "continued"]
    /\ upc' = [upc EXCEPT ![u] = "scan"]
    /\ UNCHANGED <<ready, stored, waitList, tag, listed, hand, cur, pushVars>>

\* Ready: copy the data and EnqueueWorkerFromWaitList.
CopyAndContinue(u) ==
    /\ upc[u] = "copy"
    /\ got' = [got EXCEPT ![cur[u]] = Contents]
    /\ wpc' = [wpc EXCEPT ![cur[u]] = "continued"]
    /\ cur' = [cur EXCEPT ![u] = None]
    /\ upc' = [upc EXCEPT ![u] = "scan"]
    /\ UNCHANGED <<ready, stored, waitList, tag, listed, hand, pushVars>>

\* Not ready when it looked: GetsetInsertTagged, which copies the tag.
Insert(u) ==
    /\ upc[u] = "insert"
    /\ listed' = listed \cup {cur[u]}
    /\ cur' = [cur EXCEPT ![u] = None]
    /\ upc' = [upc EXCEPT ![u] = "scan"]
    /\ UNCHANGED <<ready, stored, waitList, tag, wpc, got, hand, pushVars>>

---------------------------------------------------------------------------
(* A push: x64PushObject, x64UpdateLocalPush and UpdateWaitingQuery *)

MarkReady(x) ==
    /\ ppc[x] = "mark"
    /\ ready' = TRUE
    /\ ppc' = [ppc EXCEPT ![x] = "store"]
    /\ UNCHANGED <<stored, waitList, tag, listed, wpc, got, updateVars, taken>>

\* A push from another hive ends here: HandleApiCall answers it and updates
\* the waiting pushes, not the waiting queries.
Store(x) ==
    /\ ppc[x] = "store"
    /\ stored' = TRUE
    /\ ppc' = [ppc EXCEPT ![x] = IF x \in RemotePushers THEN "done" ELSE "take"]
    /\ UNCHANGED <<ready, waitList, tag, listed, wpc, got, updateVars, taken>>

\* Broken: the list is read but not exchanged for an empty one.
TakeByRead(x) ==
    /\ ppc[x] = "take"
    /\ tag < PARALLEL_PROCESSING
    /\ taken' = [taken EXCEPT ![x] = listed]
    /\ tag' = tag + 1
    /\ ppc' = [ppc EXCEPT ![x] = "wake"]
    /\ UNCHANGED <<ready, stored, waitList, listed, wpc, got, updateVars>>

\* Broken: nobody waits for the tag.
TakeUntagged(x) ==
    /\ ppc[x] = "take"
    /\ IF listed = {}
       THEN /\ ppc' = [ppc EXCEPT ![x] = "done"]
            /\ UNCHANGED <<tag, listed, taken>>
       ELSE /\ taken' = [taken EXCEPT ![x] = listed]
            /\ listed' = {}
            /\ tag' = tag + 1
            /\ ppc' = [ppc EXCEPT ![x] = "wake"]
    /\ UNCHANGED <<ready, stored, waitList, wpc, got, updateVars>>

\* Broken: an empty list takes the tag too, and nobody gives it back.
TakeTaggingEmpty(x) ==
    /\ ppc[x] = "take"
    /\ tag < PARALLEL_PROCESSING
    /\ taken' = [taken EXCEPT ![x] = listed]
    /\ listed' = {}
    /\ tag' = tag + 1
    /\ ppc' = [ppc EXCEPT ![x] = IF listed = {} THEN "done" ELSE "wake"]
    /\ UNCHANGED <<ready, stored, waitList, wpc, got, updateVars>>

\* TakeTaggedHashtable waits while the tag is at its limit; an empty list is
\* returned as NULL and leaves the tag alone.
TakeListed(x) ==
    /\ ppc[x] = "take"
    /\ tag < PARALLEL_PROCESSING
    /\ IF listed = {}
       THEN /\ ppc' = [ppc EXCEPT ![x] = "done"]
            /\ UNCHANGED <<tag, listed, taken>>
       ELSE /\ taken' = [taken EXCEPT ![x] = listed]
            /\ listed' = {}
            /\ tag' = tag + 1
            /\ ppc' = [ppc EXCEPT ![x] = "wake"]
    /\ UNCHANGED <<ready, stored, waitList, wpc, got, updateVars>>

\* callbackContinueWorkerFromWaitingQuery gives the worker the pushed bytes.
WakeOne(x) ==
    /\ ppc[x] = "wake"
    /\ \E w \in taken[x] :
          /\ taken' = [taken EXCEPT ![x] = @ \ {w}]
          /\ got' = [got EXCEPT ![w] = "value"]
          /\ wpc' = [wpc EXCEPT ![w] = "continued"]
    /\ UNCHANGED <<ready, stored, waitList, tag, listed, updateVars, ppc>>

\* AddHashtable(..., -1) when every callback has run.
ReleaseTag(x) ==
    /\ ppc[x] = "wake"
    /\ taken[x] = {}
    /\ tag' = tag - 1
    /\ ppc' = [ppc EXCEPT ![x] = "done"]
    /\ UNCHANGED <<ready, stored, waitList, listed, wpc, got, updateVars, taken>>

---------------------------------------------------------------------------
(* A query from another hive: case API_QUERY_OBJECT of HandleApiCall *)

\* The promise is local, so its bytes are sent at once.
AnswerRemote(r) ==
    /\ got[r] = "nothing"
    /\ got' = [got EXCEPT ![r] = Contents]
    /\ UNCHANGED <<ready, stored, waitList, tag, listed, wpc, updateVars, pushVars>>

---------------------------------------------------------------------------

WaiterStep(w) == Query(w) \/ Read(w) \/ Pause(w)

UpdaterStep(u) ==
    TakeWaitList(u) \/ Examine(u) \/ ScanEnd(u) \/ CopyAndContinue(u) \/ Insert(u)

PusherStep(x) ==
    MarkReady(x) \/ Store(x) \/ TakeListed(x) \/ WakeOne(x) \/ ReleaseTag(x)

Next ==
    \/ \E w \in Waiters : WaiterStep(w)
    \/ \E u \in Updaters : UpdaterStep(u)
    \/ \E x \in AllPushers : PusherStep(x)
    \/ \E r \in RemoteReaders : AnswerRemote(r)

Spec == Init /\ [][Next]_vars

\* Running workers run on, an idle scheduler thread keeps looking at wait_list,
\* and a push that has begun runs to its end; no push has to begin.
FairSpec ==
    /\ Spec
    /\ \A w \in Waiters : WF_vars(WaiterStep(w))
    /\ \A u \in Updaters : WF_vars(UpdaterStep(u))
    /\ \A x \in AllPushers : WF_vars(ppc[x] # "mark" /\ PusherStep(x))

---------------------------------------------------------------------------
(* Properties *)

TypeOK ==
    /\ ready \in BOOLEAN
    /\ stored \in BOOLEAN
    /\ waitList \subseteq Waiters
    /\ tag \in Nat
    /\ listed \subseteq Waiters
    /\ wpc \in [Waiters -> {"query", "read", "pause", "paused", "continued"}]
    /\ got \in [Waiters \cup RemoteReaders -> {"nothing", "value", "blank"}]
    /\ upc \in [Updaters -> {"idle", "scan", "copy", "insert"}]
    /\ hand \in [Updaters -> SUBSET Waiters]
    /\ cur \in [Updaters -> Waiters \cup {None}]
    /\ ppc \in [AllPushers -> {"mark", "store", "take", "wake", "done"}]
    /\ taken \in [AllPushers -> SUBSET Waiters]
    /\ \A u \in Updaters : cur[u] # None <=> upc[u] \in {"copy", "insert"}

\* A paused worker is in exactly one place, so it is continued exactly once:
\* resuming one frame on two threads would run its code twice
\* (runtime.c:159-180, 331-340; remote.c:382-399).
Places(w) ==
    (IF w \in waitList THEN {<<"waitList", None>>} ELSE {})
        \cup (IF w \in listed THEN {<<"listed", None>>} ELSE {})
        \cup {<<"hand", u>> : u \in {v \in Updaters : w \in hand[v] \/ cur[v] = w}}
        \cup {<<"taken", x>> : x \in {y \in AllPushers : w \in taken[y]}}

PausedInOnePlace ==
    \A w \in Waiters : Cardinality(Places(w)) = IF wpc[w] = "paused" THEN 1 ELSE 0

\* At most GETSET_WAIT_LIST_PARALLEL_PROCESSING threads run the callbacks of a
\* key, and the tag counts them, whatever is inserted meanwhile
\* (remote.c:350-367, api.c:445-461).
TagCountsProcessing ==
    /\ tag = Cardinality({x \in Pushers : ppc[x] = "wake"})
    /\ tag <= PARALLEL_PROCESSING

\* Every worker that is in the table when a local push comes to take the list
\* is continued (remote.c:382-399).
ListedAreWoken ==
    \A w \in Waiters :
        (w \in listed /\ \E x \in Pushers : ppc[x] = "take") ~> (wpc[w] = "continued")

\* "wait for all items in array ... await" (examples/constructions/README.md:
\* 132-134): a worker that awaits a promise continues once the promise is set.
AwaitContinues ==
    \A w \in Waiters : (wpc[w] = "paused" /\ stored) ~> (wpc[w] = "continued")

=============================================================================
