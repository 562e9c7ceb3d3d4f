-------------------------- MODULE PromiseWaitProofs --------------------------
(***************************************************************************)
(* Proofs about PromiseWait for every set of waiters, pushers, updaters    *)
(* and other hives: types, the tag of the key counts the threads that run  *)
(* its callbacks, and a paused worker is in exactly one place.             *)
(***************************************************************************)
EXTENDS PromiseWait, FiniteSetTheorems, TLAPS

Waking == {x \in Pushers : ppc[x] = "wake"}

\* Only pushes of this hive come to the list.
LocalTakes == \A x \in AllPushers : ppc[x] \in {"take", "wake"} => x \in Pushers

TagInv == TypeOK /\ LocalTakes /\ TagCountsProcessing

LEMMA WakingFinite == IsFiniteSet(Waking) /\ Cardinality(Waking) \in Nat
  BY PromiseAssumption, FS_Subset, FS_CardinalityType DEF Waking

\* One thread more, one thread less.
LEMMA WakingMore ==
  ASSUME TypeOK, NEW x \in Pushers, ppc[x] # "wake", ppc' = [ppc EXCEPT ![x] = "wake"]
  PROVE  Cardinality(Waking') = Cardinality(Waking) + 1
<1>1. Waking' = Waking \cup {x} /\ x \notin Waking
  BY DEF Waking, TypeOK, AllPushers
<1>2. QED
  BY <1>1, WakingFinite, FS_AddElement

LEMMA WakingLess ==
  ASSUME TypeOK, NEW x \in Pushers, ppc[x] = "wake", ppc' = [ppc EXCEPT ![x] = "done"]
  PROVE  Cardinality(Waking') = Cardinality(Waking) - 1
<1>1. Waking' = Waking \ {x} /\ x \in Waking
  BY DEF Waking, TypeOK, AllPushers
<1>2. QED
  BY <1>1, WakingFinite, FS_RemoveElement

LEMMA TagInvInit == Init => TagInv
<1> SUFFICES ASSUME Init PROVE TagInv
  OBVIOUS
<1>1. TypeOK
  BY PromiseAssumption DEF Init, TypeOK, AllPushers
<1>2. LocalTakes
  BY DEF Init, LocalTakes
<1>3. Waking = {}
  BY DEF Init, Waking, AllPushers
<1>4. QED
  BY <1>1, <1>2, <1>3, FS_EmptySet
     DEF Init, TagInv, TagCountsProcessing, Waking, PARALLEL_PROCESSING

\* A step that leaves the tag and the set of callback threads alone.
LEMMA TagKept ==
  ASSUME TagCountsProcessing, tag' = tag, Waking' = Waking
  PROVE  TagCountsProcessing'
  BY DEF TagCountsProcessing, Waking

LEMMA TagInvStep == TagInv /\ [Next]_vars => TagInv'
<1> SUFFICES ASSUME TagInv, [Next]_vars PROVE TagInv'
  OBVIOUS
<1> USE PromiseAssumption DEF AllPushers
<1>1. TypeOK /\ LocalTakes /\ TagCountsProcessing
  BY DEF TagInv
<1>2. ASSUME NEW w \in Waiters, WaiterStep(w) PROVE TagInv'
  <2>1. TypeOK'
    BY <1>1, <1>2 DEF TypeOK, WaiterStep, Query, Read, Pause, Contents, updateVars, pushVars
  <2>2. ppc' = ppc /\ tag' = tag
    BY <1>2 DEF WaiterStep, Query, Read, Pause, pushVars
  <2>3. QED
    BY <1>1, <2>1, <2>2, TagKept DEF TagInv, LocalTakes, Waking
<1>3. ASSUME NEW u \in Updaters, UpdaterStep(u) PROVE TagInv'
  <2>1. TypeOK'
    <3>1. CASE TakeWaitList(u)
      BY <1>1, <3>1 DEF TypeOK, TakeWaitList, pushVars
    <3>2. CASE Examine(u)
      BY <1>1, <3>2 DEF TypeOK, Examine, pushVars
    <3>3. CASE ScanEnd(u)
      BY <1>1, <3>3 DEF TypeOK, ScanEnd, pushVars
    <3>4. CASE CopyAndContinue(u)
      BY <1>1, <3>4 DEF TypeOK, CopyAndContinue, Contents, pushVars
    <3>5. CASE Insert(u)
      BY <1>1, <3>5 DEF TypeOK, Insert, pushVars
    <3>6. QED
      BY <1>3, <3>1, <3>2, <3>3, <3>4, <3>5 DEF UpdaterStep
  <2>2. ppc' = ppc /\ tag' = tag
    BY <1>3 DEF UpdaterStep, TakeWaitList, Examine, ScanEnd, CopyAndContinue, Insert, pushVars
  <2>3. QED
    BY <1>1, <2>1, <2>2, TagKept DEF TagInv, LocalTakes, Waking
<1>4. ASSUME NEW x \in AllPushers, MarkReady(x) PROVE TagInv'
  <2>1. TypeOK' /\ LocalTakes'
    BY <1>1, <1>4 DEF TypeOK, LocalTakes, MarkReady, updateVars
  <2>2. Waking' = Waking /\ tag' = tag
    BY <1>1, <1>4 DEF TypeOK, Waking, MarkReady
  <2>3. QED
    BY <1>1, <2>1, <2>2, TagKept DEF TagInv
<1>5. ASSUME NEW x \in AllPushers, Store(x) PROVE TagInv'
  <2>1. TypeOK' /\ LocalTakes'
    BY <1>1, <1>5 DEF TypeOK, LocalTakes, Store, updateVars
  <2>2. Waking' = Waking /\ tag' = tag
    BY <1>1, <1>5 DEF TypeOK, Waking, Store
  <2>3. QED
    BY <1>1, <2>1, <2>2, TagKept DEF TagInv
<1>6. ASSUME NEW x \in AllPushers, TakeListed(x) PROVE TagInv'
  <2>1. TypeOK' /\ LocalTakes' /\ x \in Pushers
    BY <1>1, <1>6 DEF TypeOK, LocalTakes, TakeListed, updateVars
  <2>2. CASE listed = {}
    <3>1. Waking' = Waking /\ tag' = tag
      BY <1>1, <1>6, <2>2 DEF TypeOK, Waking, TakeListed
    <3>2. QED
      BY <1>1, <2>1, <3>1, TagKept DEF TagInv
  <2>3. CASE listed # {}
    <3>1. /\ ppc[x] # "wake" /\ ppc' = [ppc EXCEPT ![x] = "wake"]
          /\ tag' = tag + 1 /\ tag < PARALLEL_PROCESSING
      BY <1>6, <2>3 DEF TakeListed
    <3>2. Cardinality(Waking') = Cardinality(Waking) + 1
      BY <1>1, <2>1, <3>1, WakingMore
    <3>3. tag \in Nat /\ tag = Cardinality(Waking)
      BY <1>1 DEF TypeOK, TagCountsProcessing, Waking
    <3>4. TagCountsProcessing'
      BY <3>1, <3>2, <3>3 DEF TagCountsProcessing, Waking, PARALLEL_PROCESSING
    <3>5. QED
      BY <2>1, <3>4 DEF TagInv
  <2>4. QED
    BY <2>2, <2>3
<1>7. ASSUME NEW x \in AllPushers, WakeOne(x) PROVE TagInv'
  <2>1. TypeOK' /\ LocalTakes'
    BY <1>1, <1>7 DEF TypeOK, LocalTakes, WakeOne, updateVars
  <2>2. Waking' = Waking /\ tag' = tag
    BY <1>7 DEF Waking, WakeOne
  <2>3. QED
    BY <1>1, <2>1, <2>2, TagKept DEF TagInv
<1>8. ASSUME NEW x \in AllPushers, ReleaseTag(x) PROVE TagInv'
  <2>1. /\ ppc[x] = "wake" /\ ppc' = [ppc EXCEPT ![x] = "done"] /\ tag' = tag - 1
        /\ x \in Pushers
    BY <1>1, <1>8 DEF ReleaseTag, LocalTakes
  <2>2. Cardinality(Waking') = Cardinality(Waking) - 1
    BY <1>1, <2>1, WakingLess
  <2>3. Cardinality(Waking') \in Nat
    <3>1. Waking' \subseteq Pushers
      BY DEF Waking
    <3>2. QED
      BY <3>1, FS_Subset, FS_CardinalityType
  <2>4. tag' \in Nat /\ TagCountsProcessing'
    BY <1>1, <2>1, <2>2, <2>3 DEF TypeOK, TagCountsProcessing, Waking, PARALLEL_PROCESSING
  <2>5. TypeOK' /\ LocalTakes'
    BY <1>1, <1>8, <2>4 DEF TypeOK, LocalTakes, ReleaseTag, updateVars
  <2>6. QED
    BY <2>4, <2>5 DEF TagInv
<1>9. ASSUME NEW r \in RemoteReaders, AnswerRemote(r) PROVE TagInv'
  <2>1. TypeOK' /\ ppc' = ppc /\ tag' = tag
    BY <1>1, <1>9 DEF TypeOK, AnswerRemote, Contents, updateVars, pushVars
  <2>2. QED
    BY <1>1, <2>1, TagKept DEF TagInv, LocalTakes, Waking
<1>10. CASE UNCHANGED vars
  <2>1. TypeOK' /\ ppc' = ppc /\ tag' = tag
    BY <1>1, <1>10 DEF TypeOK, vars
  <2>2. QED
    BY <1>1, <2>1, TagKept DEF TagInv, LocalTakes, Waking
<1>11. QED
  BY <1>2, <1>3, <1>4, <1>5, <1>6, <1>7, <1>8, <1>9, <1>10 DEF Next, PusherStep

LEMMA TagInvariant == Spec => []TagInv
  BY TagInvInit, TagInvStep, PTL DEF Spec

\* The variables keep their types, and an updater has a current worker exactly
\* while it examines one (runtime.c:302-345).
THEOREM PromiseTyping == Spec => []TypeOK
<1>1. TagInv => TypeOK
  BY DEF TagInv
<1>2. QED
  BY <1>1, TagInvariant, PTL

\* At most GETSET_WAIT_LIST_PARALLEL_PROCESSING threads run the callbacks of
\* the key at a time, and the tag is their number (remote.c:350-367).
THEOREM CallbacksCounted == Spec => []TagCountsProcessing
<1>1. TagInv => TagCountsProcessing
  BY DEF TagInv
<1>2. QED
  BY <1>1, TagInvariant, PTL

---------------------------------------------------------------------------
(* One place for each paused worker.  The updater's list and its current    *)
(* worker are one place.                                                    *)

InHand(w, u) == w \in hand[u] \/ cur[u] = w

Somewhere(w) ==
    \/ w \in waitList
    \/ w \in listed
    \/ \E u \in Updaters : InHand(w, u)
    \/ \E x \in AllPushers : w \in taken[x]

\* No two of the places hold one worker.
Apart(w) ==
    /\ w \in waitList => w \notin listed
    /\ \A u \in Updaters :
          InHand(w, u) => /\ w \notin waitList /\ w \notin listed
                          /\ \A v \in Updaters : InHand(w, v) => u = v
                          /\ \A x \in AllPushers : w \notin taken[x]
    /\ \A x \in AllPushers :
          w \in taken[x] => /\ w \notin waitList /\ w \notin listed
                            /\ \A y \in AllPushers : w \in taken[y] => x = y

\* Lists are empty where the code overwrites them.
Emptied ==
    /\ \A u \in Updaters : upc[u] = "idle" => hand[u] = {}
    /\ \A u \in Updaters : cur[u] \notin hand[u]
    /\ \A x \in AllPushers : ppc[x] # "wake" => taken[x] = {}

PlaceInv ==
    /\ \A w \in Waiters : (wpc[w] = "paused" <=> Somewhere(w)) /\ Apart(w)
    /\ Emptied

LEMMA PlaceInit == Init => PlaceInv
  BY PromiseAssumption
     DEF Init, PlaceInv, Somewhere, Apart, Emptied, InHand, AllPushers

LEMMA PlaceStep == TypeOK /\ LocalTakes /\ PlaceInv /\ [Next]_vars => PlaceInv'
<1> SUFFICES ASSUME TypeOK, LocalTakes, PlaceInv, [Next]_vars PROVE PlaceInv'
  OBVIOUS
<1> USE PromiseAssumption DEF PlaceInv, Somewhere, Apart, Emptied, InHand, TypeOK
<1>1. ASSUME NEW w \in Waiters, Query(w) PROVE PlaceInv'
  BY <1>1 DEF Query, updateVars, pushVars
<1>2. ASSUME NEW w \in Waiters, Read(w) PROVE PlaceInv'
  BY <1>2 DEF Read, updateVars, pushVars
<1>3. ASSUME NEW w \in Waiters, Pause(w) PROVE PlaceInv'
  BY <1>3 DEF Pause, updateVars, pushVars
<1>4. ASSUME NEW u \in Updaters, TakeWaitList(u) PROVE PlaceInv'
  BY <1>4 DEF TakeWaitList, pushVars
<1>5. ASSUME NEW u \in Updaters, Examine(u) PROVE PlaceInv'
  BY <1>5 DEF Examine, pushVars
<1>6. ASSUME NEW u \in Updaters, ScanEnd(u) PROVE PlaceInv'
  BY <1>6 DEF ScanEnd, pushVars
<1>7. ASSUME NEW u \in Updaters, CopyAndContinue(u) PROVE PlaceInv'
  BY <1>7 DEF CopyAndContinue, pushVars
<1>8. ASSUME NEW u \in Updaters, Insert(u) PROVE PlaceInv'
  BY <1>8 DEF Insert, pushVars
<1>9. ASSUME NEW x \in AllPushers, MarkReady(x) PROVE PlaceInv'
  BY <1>9 DEF MarkReady, updateVars
<1>10. ASSUME NEW x \in AllPushers, Store(x) PROVE PlaceInv'
  BY <1>10 DEF Store, updateVars
<1>11. ASSUME NEW x \in AllPushers, TakeListed(x) PROVE PlaceInv'
  BY <1>11 DEF TakeListed, updateVars
<1>12. ASSUME NEW x \in AllPushers, WakeOne(x) PROVE PlaceInv'
  BY <1>12 DEF WakeOne, updateVars
<1>13. ASSUME NEW x \in AllPushers, ReleaseTag(x) PROVE PlaceInv'
  BY <1>13 DEF ReleaseTag, updateVars
<1>14. ASSUME NEW r \in RemoteReaders, AnswerRemote(r) PROVE PlaceInv'
  BY <1>14 DEF AnswerRemote, updateVars, pushVars
<1>15. CASE UNCHANGED vars
  BY <1>15 DEF vars
<1>16. QED
  BY <1>1, <1>2, <1>3, <1>4, <1>5, <1>6, <1>7, <1>8, <1>9, <1>10, <1>11, <1>12,
     <1>13, <1>14, <1>15
     DEF Next, WaiterStep, UpdaterStep, PusherStep

\* The set that PausedInOnePlace counts has one element or none.
LEMMA PlacesCounted == TypeOK /\ PlaceInv => PausedInOnePlace
<1> SUFFICES ASSUME TypeOK, PlaceInv, NEW w \in Waiters
             PROVE  Cardinality(Places(w)) = IF wpc[w] = "paused" THEN 1 ELSE 0
  BY DEF PausedInOnePlace
<1>1. \A p \in Places(w) : Somewhere(w)
  BY DEF Places, Somewhere, InHand
<1>2. Somewhere(w) => \E p : Places(w) = {p}
  <2>1. ASSUME w \in waitList PROVE Places(w) = {<<"waitList", None>>}
    BY <2>1 DEF PlaceInv, Apart, Places, InHand
  <2>2. ASSUME w \in listed PROVE Places(w) = {<<"listed", None>>}
    BY <2>2 DEF PlaceInv, Apart, Places, InHand
  <2>3. ASSUME NEW u \in Updaters, InHand(w, u) PROVE Places(w) = {<<"hand", u>>}
    BY <2>3 DEF PlaceInv, Apart, Places, InHand
  <2>4. ASSUME NEW x \in AllPushers, w \in taken[x] PROVE Places(w) = {<<"taken", x>>}
    BY <2>4 DEF PlaceInv, Apart, Places, InHand
  <2>5. QED
    BY <2>1, <2>2, <2>3, <2>4 DEF Somewhere
<1>3. CASE wpc[w] = "paused"
  <2>1. PICK p : Places(w) = {p}
    BY <1>2, <1>3 DEF PlaceInv
  <2>2. QED
    BY <1>3, <2>1, FS_Singleton
<1>4. CASE wpc[w] # "paused"
  <2>1. Places(w) = {}
    BY <1>1, <1>4 DEF PlaceInv
  <2>2. QED
    BY <1>4, <2>1, FS_EmptySet
<1>5. QED
  BY <1>3, <1>4

\* A paused worker is in the wait list, under the key, in the hand of one
\* updater or in that of one push, and never in two of them: it is continued
\* exactly once (runtime.c:302-345; remote.c:350-399).
THEOREM OnePlace == Spec => []PausedInOnePlace
<1>1. Init => PlaceInv
  BY PlaceInit
<1>2. TagInv /\ TagInv' /\ PlaceInv /\ [Next]_vars => PlaceInv'
  BY PlaceStep DEF TagInv
<1>3. TagInv /\ PlaceInv => PausedInOnePlace
  BY PlacesCounted DEF TagInv
<1>4. QED
  BY <1>1, <1>2, <1>3, TagInvariant, PTL DEF Spec
=============================================================================
