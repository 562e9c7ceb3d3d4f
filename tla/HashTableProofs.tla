--------------------------- MODULE HashTableProofs ---------------------------
(***************************************************************************)
(* Proofs about HashTable for every set of threads and keys, every hash,   *)
(* every size of the first table and every number of tables: types, one    *)
(* cell for a key in a table, no free cell before a key, and what was      *)
(* registered is found.                                                    *)
(***************************************************************************)
EXTENDS HashTable, FiniteSetTheorems, TLAPS

---------------------------------------------------------------------------
(* The probe *)

LEMMA HomeInside == \A h \in Tables, k \in Keys : Home(h, k) \in Cells(h)
  BY HashTableAssumption, AllocAssumption DEF Home, Cells

\* The cell after i: the next one, or the first one at the end.
Following(h, i) == IF i + 1 = Alloc(h) THEN 0 ELSE i + 1

LEMMA FollowingIs ==
  ASSUME NEW h \in Tables, NEW i \in Cells(h)
  PROVE  (i + 1) % Alloc(h) = Following(h, i) /\ Following(h, i) \in Cells(h)
<1> DEFINE n == Alloc(h)
<1>1. n \in Nat \ {0} /\ i \in 0 .. n - 1
  BY AllocAssumption DEF Cells
<1> HIDE DEF n
<1>2. (i + 1) % n = IF i + 1 = n THEN 0 ELSE i + 1
  BY <1>1
<1>3. (IF i + 1 = n THEN 0 ELSE i + 1) \in 0 .. n - 1
  BY <1>1
<1>4. QED
  BY <1>2, <1>3 DEF n, Following, Cells

\* A probe begins with nothing behind it.
LEMMA NothingBeforeHome ==
  ASSUME NEW h \in Tables, NEW k \in Keys
  PROVE  Before(h, k, Home(h, k)) = {}
  BY HomeInside, AllocAssumption DEF Before, Distance, Cells

\* One step leaves one more cell behind, or wraps around to the home.
LEMMA BeforeFollowing ==
  ASSUME NEW h \in Tables, NEW k \in Keys, NEW i \in Cells(h)
  PROVE  \A j \in Before(h, k, Following(h, i)) : j = i \/ j \in Before(h, k, i)
<1> DEFINE n == Alloc(h)
           s == Home(h, k)
<1>1. n \in Nat \ {0} /\ i \in 0 .. n - 1 /\ s \in 0 .. n - 1
  BY AllocAssumption, HomeInside DEF Cells
<1> HIDE DEF n, s
<1>2. QED
  BY <1>1 DEF Before, Distance, Cells, Following, n, s

\* Of two cells one is before the other.
LEMMA OneIsBefore ==
  ASSUME NEW h \in Tables, NEW k \in Keys, NEW i \in Cells(h), NEW j \in Cells(h), i # j
  PROVE  i \in Before(h, k, j) \/ j \in Before(h, k, i)
  BY AllocAssumption, HomeInside DEF Before, Distance, Cells

---------------------------------------------------------------------------
(* Types *)

Labels == {"idle", "get", "set", "copy", "setStore", "copyStore",
           "setLen", "copyLen", "test", "grow", "publish"}

Operation == [pc : Labels, key : Keys \cup {Free}, start : Tables, at : Tables,
              idx : Nat, due : BOOLEAN]

\* An operation is in a cell of a table not above the one it began in.
Working(o) ==
    o.key \in Keys /\ o.at <= o.start /\ o.idx \in Cells(o.at)

CellType ==
    /\ cell = [h \in Tables |-> cell[h]]
    /\ \A h \in Tables : cell[h] \in [Cells(h) -> Keys \cup {Free, Busy}]

OpType ==
    /\ op \in [Threads -> Operation]
    /\ \A t \in Threads : IF op[t].pc = "idle" THEN op[t] = Idle ELSE Working(op[t])
    /\ \A t \in Threads : op[t].pc \in {"grow", "publish"} => op[t].at + 1 < MaxTables

Typed ==
    /\ CellType /\ OpType
    /\ len \in [Tables -> Nat]
    /\ updating \in [Tables -> BOOLEAN]
    /\ top \in Tables
    /\ inserted \subseteq begun /\ begun \subseteq Keys
    /\ \A t \in Threads : op[t].pc \in {"set", "setStore", "setLen", "test", "grow", "publish"}
                            => op[t].key \in begun
    /\ missed \subseteq Keys

LEMMA TypedInit == Init => Typed
  BY HashTableAssumption, AllocAssumption
     DEF Init, Typed, CellType, OpType, Operation, Labels, Working, Idle, Tables, Cells

LEMMA TypedGives == Typed => TypeOK
  BY DEF Typed, TypeOK, CellType, OpType, Operation, Labels, Working, Tables

LEMMA IdleTyped == Idle \in Operation
  BY HashTableAssumption DEF Idle, Operation, Labels, Tables

\* A thread replaces its operation by another one.
LEMMA Replaced ==
  ASSUME OpType, NEW t \in Threads, NEW o \in Operation, op' = [op EXCEPT ![t] = o],
         IF o.pc = "idle" THEN o = Idle ELSE Working(o),
         o.pc \in {"grow", "publish"} => o.at + 1 < MaxTables
  PROVE  OpType'
  BY DEF OpType

LEMMA Returns ==
  ASSUME OpType, NEW t \in Threads, Return(t) PROVE OpType'
  BY IdleTyped, Replaced DEF Return, Idle

LEMMA Nexts ==
  ASSUME OpType, NEW t \in Threads, op[t].pc # "idle", NextCell(t) PROVE OpType'
<1> DEFINE o == [op[t] EXCEPT !.idx = After(t)]
<1>1. op[t] \in Operation /\ Working(op[t])
  BY DEF OpType
<1>2. op[t].at \in Tables /\ op[t].idx \in Cells(op[t].at)
  BY <1>1 DEF Operation, Working
<1>3. After(t) \in Cells(op[t].at) /\ After(t) \in Nat
  BY <1>2, FollowingIs DEF After, Cells
<1>4. o \in Operation /\ Working(o) /\ o.pc = op[t].pc /\ o.at = op[t].at
  BY <1>1, <1>3 DEF Operation, Working
<1>5. op' = [op EXCEPT ![t] = o]
  BY DEF NextCell
<1> HIDE DEF o
<1>6. QED
  BY <1>1, <1>4, <1>5, Replaced DEF OpType

LEMMA Goes ==
  ASSUME OpType, NEW t \in Threads, op[t].pc # "idle",
         NEW label \in Labels \ {"idle"}, Goto(t, label),
         label \in {"grow", "publish"} => op[t].at + 1 < MaxTables
  PROVE  OpType'
<1> DEFINE o == [op[t] EXCEPT !.pc = label]
<1>1. op[t] \in Operation /\ Working(op[t])
  BY DEF OpType
<1>2. o \in Operation /\ Working(o) /\ o.pc = label /\ o.at = op[t].at
  BY <1>1 DEF Operation, Working
<1>3. op' = [op EXCEPT ![t] = o]
  BY DEF Goto
<1> HIDE DEF o
<1>4. QED
  BY <1>2, <1>3, Replaced

LEMMA Probes ==
  ASSUME OpType, NEW t \in Threads, op[t].pc # "idle",
         NEW label \in {"get", "copy"}, NEW h \in Tables, h <= op[t].start,
         Probe(t, label, h)
  PROVE  OpType'
<1> DEFINE o == [op[t] EXCEPT !.pc = label, !.at = h, !.idx = Home(h, op[t].key)]
<1>1. op[t] \in Operation /\ Working(op[t])
  BY DEF OpType
<1>2. Home(h, op[t].key) \in Cells(h) /\ Home(h, op[t].key) \in Nat
  BY <1>1, HomeInside DEF Cells, Working
<1>3. o \in Operation /\ Working(o) /\ o.pc = label
  BY <1>1, <1>2 DEF Operation, Working, Labels
<1>4. op' = [op EXCEPT ![t] = o]
  BY DEF Probe
<1> HIDE DEF o
<1>5. QED
  BY <1>3, <1>4, Replaced

LEMMA Copies ==
  ASSUME OpType, NEW t \in Threads, op[t].pc # "idle", Copied(t) PROVE OpType'
<1>1. CASE op[t].at = op[t].start
  BY <1>1, Returns DEF Copied
<1>2. CASE op[t].at # op[t].start
  <2>1. op[t].at + 1 \in Tables /\ op[t].at + 1 <= op[t].start
    BY <1>2, HashTableAssumption DEF OpType, Operation, Working, Tables
  <2>2. QED
    BY <1>2, <2>1, Probes DEF Copied
<1>3. QED
  BY <1>1, <1>2

LEMMA Starts ==
  ASSUME OpType, top \in Tables, inserted \subseteq Keys, NEW t \in Threads,
         NEW label \in {"get", "set"}, NEW k \in Keys, Start(t, label, k)
  PROVE  OpType'
<1> DEFINE o == [pc |-> label, key |-> k, start |-> top, at |-> top,
                 idx |-> Home(top, k), due |-> k \in inserted]
<1>1. Home(top, k) \in Cells(top) /\ Home(top, k) \in Nat
  BY HomeInside DEF Cells
<1>2. o \in Operation /\ Working(o) /\ o.pc = label
  BY <1>1 DEF Operation, Working, Labels, Tables
<1>3. op' = [op EXCEPT ![t] = o]
  BY DEF Start
<1> HIDE DEF o
<1>4. QED
  BY <1>2, <1>3, Replaced

\* What the moves do to the operations.
Still(t) == \A u \in Threads : u # t => op'[u] = op[u]

LEMMA ReturnDoes ==
  ASSUME OpType, NEW t \in Threads, Return(t)
  PROVE  Still(t) /\ op'[t] = Idle /\ op'[t].pc = "idle"
  BY DEF OpType, Return, Still, Idle

LEMMA NextCellDoes ==
  ASSUME OpType, NEW t \in Threads, NextCell(t)
  PROVE  /\ Still(t)
         /\ op'[t].pc = op[t].pc /\ op'[t].key = op[t].key /\ op'[t].start = op[t].start
         /\ op'[t].at = op[t].at /\ op'[t].idx = After(t) /\ op'[t].due = op[t].due
  BY DEF OpType, NextCell, Still, Operation

LEMMA GotoDoes ==
  ASSUME OpType, NEW t \in Threads, NEW label, Goto(t, label)
  PROVE  /\ Still(t)
         /\ op'[t].pc = label /\ op'[t].key = op[t].key /\ op'[t].start = op[t].start
         /\ op'[t].at = op[t].at /\ op'[t].idx = op[t].idx /\ op'[t].due = op[t].due
  BY DEF OpType, Goto, Still, Operation

LEMMA ProbeDoes ==
  ASSUME OpType, NEW t \in Threads, NEW label, NEW h, Probe(t, label, h)
  PROVE  /\ Still(t)
         /\ op'[t].pc = label /\ op'[t].key = op[t].key /\ op'[t].start = op[t].start
         /\ op'[t].at = h /\ op'[t].idx = Home(h, op[t].key) /\ op'[t].due = op[t].due
  BY DEF OpType, Probe, Still, Operation

LEMMA CopiedDoes ==
  ASSUME OpType, NEW t \in Threads, Copied(t)
  PROVE  /\ Still(t)
         /\ \/ op'[t] = Idle /\ op'[t].pc = "idle"
            \/ /\ op'[t].pc = "copy" /\ op'[t].key = op[t].key
               /\ op'[t].start = op[t].start /\ op'[t].at = op[t].at + 1
               /\ op'[t].idx = Home(op[t].at + 1, op[t].key)
  BY ReturnDoes, ProbeDoes DEF Copied

LEMMA StartDoes ==
  ASSUME OpType, NEW t \in Threads, NEW label, NEW k, Start(t, label, k)
  PROVE  /\ Still(t)
         /\ op'[t].pc = label /\ op'[t].key = k /\ op'[t].start = top
         /\ op'[t].at = top /\ op'[t].idx = Home(top, k)
         /\ op'[t].due = (k \in inserted)
  BY DEF OpType, Start, Still, Operation

\* A thread fills one cell.
LEMMA Fills ==
  ASSUME CellType, NEW h \in Tables, NEW i \in Cells(h), NEW v \in Keys \cup {Free, Busy},
         cell' = [cell EXCEPT ![h][i] = v]
  PROVE  CellType'
  BY DEF CellType

InsertLabels == {"set", "setStore", "setLen", "test", "grow", "publish"}

KeysBegun ==
    /\ inserted \subseteq begun /\ begun \subseteq Keys
    /\ \A t \in Threads : op[t].pc \in InsertLabels => op[t].key \in begun

\* The steps that leave begun alone: the key and the kind of the operation
\* stay, or it ends.
LEMMA BegunKept ==
  ASSUME KeysBegun, OpType, NEW t \in Threads, begun' = begun,
         inserted' \in {inserted, inserted \cup {op[t].key}},
         inserted' # inserted => op[t].pc \in InsertLabels,
         Still(t),
         \/ op'[t].pc \notin InsertLabels
         \/ op[t].pc \in InsertLabels /\ op'[t].key = op[t].key
  PROVE  KeysBegun'
  BY DEF KeysBegun, Still

LEMMA TypedStep == Typed /\ [Next]_vars => Typed'
<1> SUFFICES ASSUME Typed, [Next]_vars PROVE Typed'
  OBVIOUS
<1>1. CellType /\ OpType /\ KeysBegun
  BY DEF Typed, KeysBegun, InsertLabels
<1>2. ASSUME NEW t \in Threads PROVE
        /\ op[t] \in Operation
        /\ op[t].pc # "idle" => /\ op[t].at \in Tables /\ op[t].idx \in Cells(op[t].at)
                               /\ op[t].key \in Keys /\ op[t].at <= op[t].start
  BY <1>1 DEF OpType, Working, Operation
<1> DEFINE Others == /\ len' \in [Tables -> Nat]
                     /\ updating' \in [Tables -> BOOLEAN]
                     /\ top' \in Tables
                     /\ missed' \subseteq Keys
<1>3. SUFFICES CellType' /\ OpType' /\ KeysBegun' /\ Others
  BY DEF Typed, KeysBegun, InsertLabels
<1>4. ASSUME NEW t \in Threads, NEW k \in Keys, StartGet(t, k)
      PROVE  CellType' /\ OpType' /\ KeysBegun' /\ Others
  <2>1. OpType'
    BY <1>1, <1>4, Starts DEF StartGet, Typed
  <2>2. KeysBegun'
    BY <1>1, <1>4, StartDoes, BegunKept DEF StartGet, InsertLabels
  <2>3. QED
    BY <2>1, <2>2, <1>4, <1>1 DEF StartGet, Typed, CellType
<1>5. ASSUME NEW t \in Threads, NEW k \in Keys, StartSet(t, k)
      PROVE  CellType' /\ OpType' /\ KeysBegun' /\ Others
  <2>1. OpType'
    BY <1>1, <1>5, Starts DEF StartSet, Typed
  <2>2. KeysBegun'
    BY <1>1, <1>5, StartDoes DEF StartSet, Still, KeysBegun
  <2>3. QED
    BY <2>1, <2>2, <1>5, <1>1 DEF StartSet, Typed, CellType
<1>6. ASSUME NEW t \in Threads, GetFree(t)
      PROVE  CellType' /\ OpType' /\ KeysBegun' /\ Others
  <2>1. OpType'
    <3>1. CASE op[t].at > 0 /\ Probe(t, "get", op[t].at - 1)
      <4>1. op[t].at - 1 \in Tables /\ op[t].at - 1 <= op[t].start
        BY <1>2, <1>6, <3>1, HashTableAssumption DEF GetFree, Tables, Operation
      <4>2. QED
        BY <1>1, <1>6, <3>1, <4>1, Probes DEF GetFree
    <3>2. CASE Return(t)
      BY <1>1, <3>2, Returns
    <3>3. QED
      BY <1>6, <3>1, <3>2 DEF GetFree
  <2>2. KeysBegun'
    BY <1>1, <1>6, ProbeDoes, ReturnDoes, BegunKept DEF GetFree, InsertLabels
  <2>3. missed' \subseteq Keys
    BY <1>2, <1>6 DEF GetFree, Typed
  <2>4. QED
    BY <2>1, <2>2, <2>3, <1>6, <1>1 DEF GetFree, Typed, CellType
<1>7. ASSUME NEW t \in Threads, GetReady(t)
      PROVE  CellType' /\ OpType' /\ KeysBegun' /\ Others
  <2>1. OpType'
    BY <1>1, <1>7, Copies, Nexts DEF GetReady
  <2>2. KeysBegun'
    BY <1>1, <1>7, CopiedDoes, NextCellDoes, BegunKept DEF GetReady, InsertLabels
  <2>3. QED
    BY <2>1, <2>2, <1>7, <1>1 DEF GetReady, Typed, CellType
<1>8. ASSUME NEW t \in Threads, Claim(t)
      PROVE  CellType' /\ OpType' /\ KeysBegun' /\ Others
  <2>1. OpType'
    BY <1>1, <1>8, Goes DEF Claim, Labels
  <2>2. KeysBegun'
    BY <1>1, <1>8, GotoDoes, BegunKept DEF Claim, InsertLabels
  <2>3. CellType'
    BY <1>1, <1>2, <1>8, Fills DEF Claim
  <2>4. QED
    BY <2>1, <2>2, <2>3, <1>8 DEF Claim, Typed
<1>9. ASSUME NEW t \in Threads, Occupied(t)
      PROVE  CellType' /\ OpType' /\ KeysBegun' /\ Others
  <2>1. OpType'
    BY <1>1, <1>9, Copies, Nexts, Returns DEF Occupied
  <2>2. KeysBegun'
    BY <1>1, <1>9, CopiedDoes, NextCellDoes, ReturnDoes, BegunKept
       DEF Occupied, InsertLabels
  <2>3. QED
    BY <2>1, <2>2, <1>9, <1>1 DEF Occupied, Typed, CellType
<1>10. ASSUME NEW t \in Threads, Store(t)
       PROVE  CellType' /\ OpType' /\ KeysBegun' /\ Others
  <2>1. OpType'
    BY <1>1, <1>10, Goes DEF Store, Labels
  <2>2. KeysBegun'
    BY <1>1, <1>10, GotoDoes, BegunKept DEF Store, InsertLabels
  <2>3. CellType'
    BY <1>1, <1>2, <1>10, Fills DEF Store
  <2>4. QED
    BY <2>1, <2>2, <2>3, <1>10 DEF Store, Typed
<1>11. ASSUME NEW t \in Threads, AddLen(t)
       PROVE  CellType' /\ OpType' /\ KeysBegun' /\ Others
  <2>1. OpType'
    BY <1>1, <1>11, Goes, Copies DEF AddLen, Labels
  <2>2. KeysBegun'
    BY <1>1, <1>11, GotoDoes, CopiedDoes, BegunKept DEF AddLen, InsertLabels
  <2>3. len' \in [Tables -> Nat]
    BY <1>2, <1>11 DEF AddLen, Typed
  <2>4. QED
    BY <2>1, <2>2, <2>3, <1>11, <1>1 DEF AddLen, Typed, CellType
<1>12. ASSUME NEW t \in Threads, Test(t)
       PROVE  CellType' /\ OpType' /\ KeysBegun' /\ Others
  <2>1. OpType'
    BY <1>1, <1>12, Goes, Returns DEF Test, Registered, Labels
  <2>2. KeysBegun'
    BY <1>1, <1>12, GotoDoes, ReturnDoes, BegunKept DEF Test, Registered, InsertLabels
  <2>3. QED
    BY <2>1, <2>2, <1>12, <1>1 DEF Test, Typed, CellType
<1>13. ASSUME NEW t \in Threads, Grow(t)
       PROVE  CellType' /\ OpType' /\ KeysBegun' /\ Others
  <2>1. OpType'
    BY <1>1, <1>13, Goes, Returns DEF Grow, Registered, Labels, OpType
  <2>2. KeysBegun'
    BY <1>1, <1>13, GotoDoes, ReturnDoes, BegunKept DEF Grow, Registered, InsertLabels
  <2>3. QED
    BY <2>1, <2>2, <1>13, <1>1 DEF Grow, Typed, CellType
<1>14. ASSUME NEW t \in Threads, Publish(t)
       PROVE  CellType' /\ OpType' /\ KeysBegun' /\ Others
  <2>1. OpType'
    BY <1>1, <1>14, Returns DEF Publish, Registered
  <2>2. KeysBegun'
    BY <1>1, <1>14, ReturnDoes, BegunKept DEF Publish, Registered, InsertLabels
  <2>3. top' \in Tables
    BY <1>1, <1>2, <1>14, HashTableAssumption DEF Publish, OpType, Tables, Operation
  <2>4. QED
    BY <2>1, <2>2, <2>3, <1>14, <1>1 DEF Publish, Typed, CellType
<1>15. CASE UNCHANGED vars
  BY <1>1, <1>15 DEF vars, CellType, OpType, KeysBegun, Typed
<1>16. QED
  BY <1>4, <1>5, <1>6, <1>7, <1>8, <1>9, <1>10, <1>11, <1>12, <1>13, <1>14, <1>15
     DEF Next, Continue

LEMMA TableTyped == Spec => []Typed
<1>1. QED
  BY TypedInit, TypedStep, PTL DEF Spec

\* The table keeps its types for every number of threads, keys and tables
\* (api.c:71-229).
THEOREM TableTyping == Spec => []TypeOK
<1>1. QED
  BY TableTyped, TypedGives, PTL

---------------------------------------------------------------------------
(* What a probe has passed.  Every cell between the home of a key and the  *)
(* place where it is, or where a thread brings it, holds another key; and  *)
(* a claimed cell belongs to one thread.                                   *)

Storing(t) == op[t].pc \in {"setStore", "copyStore"}
Bringing(t) == op[t].pc \in {"set", "copy"} \/ Storing(t)

HeldBehind ==
    \A h \in Tables : \A i \in Cells(h) : cell[h][i] \in Keys =>
        \A j \in Before(h, cell[h][i], i) : cell[h][j] \in Keys \ {cell[h][i]}

BroughtBehind ==
    \A t \in Threads : Bringing(t) =>
        \A j \in Before(op[t].at, op[t].key, op[t].idx) :
            cell[op[t].at][j] \in Keys \ {op[t].key}

StoresBusy == \A t \in Threads : Storing(t) => cell[op[t].at][op[t].idx] = Busy

StoresApart ==
    \A t, u \in Threads : t # u /\ Storing(t) /\ Storing(u) /\ op[t].at = op[u].at
                          => op[t].idx # op[u].idx

ProbeInv == HeldBehind /\ BroughtBehind /\ StoresBusy /\ StoresApart

LEMMA ProbeInit == Init => ProbeInv
  BY HashTableAssumption
     DEF Init, ProbeInv, HeldBehind, BroughtBehind, StoresBusy, StoresApart, Storing, Bringing, Idle

\* Where a working thread is.
LEMMA At ==
  ASSUME Typed, NEW t \in Threads, op[t].pc # "idle"
  PROVE  /\ op[t].at \in Tables /\ op[t].idx \in Cells(op[t].at) /\ op[t].key \in Keys
         /\ op[t].start \in Tables /\ op[t].at <= op[t].start
  BY DEF Typed, OpType, Operation, Working

\* A thread moves and no cell changes: it ends up bringing nothing, or with
\* the same fact about what is behind it.
LEMMA QuietProbe ==
  ASSUME ProbeInv, NEW t \in Threads, cell' = cell, Still(t), ~Storing(t)',
         Bringing(t)' => \A j \in Before(op'[t].at, op'[t].key, op'[t].idx) :
                             cell[op'[t].at][j] \in Keys \ {op'[t].key}
  PROVE  ProbeInv'
<1>1. HeldBehind'
  BY DEF ProbeInv, HeldBehind
<1>2. BroughtBehind'
  <2> SUFFICES ASSUME NEW u \in Threads, Bringing(u)',
                      NEW j \in Before(op'[u].at, op'[u].key, op'[u].idx)
               PROVE  cell'[op'[u].at][j] \in Keys \ {op'[u].key}
    BY DEF BroughtBehind, Before
  <2>1. CASE u = t
    BY <2>1
  <2>2. CASE u # t
    BY <2>2 DEF ProbeInv, BroughtBehind, Bringing, Storing, Still
  <2>3. QED
    BY <2>1, <2>2
<1>3. StoresBusy' /\ StoresApart'
  BY DEF ProbeInv, StoresBusy, StoresApart, Storing, Still
<1>4. QED
  BY <1>1, <1>2, <1>3 DEF ProbeInv

\* The next cell, behind which the one with another key is left.
LEMMA NextProbe ==
  ASSUME Typed, ProbeInv, NEW t \in Threads, op[t].pc \in {"set", "copy"},
         Here(t) \in Keys, Here(t) # op[t].key, NextCell(t), cell' = cell
  PROVE  ProbeInv'
<1>1. op[t].at \in Tables /\ op[t].idx \in Cells(op[t].at) /\ op[t].key \in Keys
  BY At
<1>2. /\ Still(t) /\ op'[t].pc = op[t].pc /\ op'[t].key = op[t].key
      /\ op'[t].at = op[t].at /\ op'[t].idx = Following(op[t].at, op[t].idx)
  BY <1>1, NextCellDoes, FollowingIs DEF After, Typed
<1>3. \A j \in Before(op'[t].at, op'[t].key, op'[t].idx) :
         cell[op'[t].at][j] \in Keys \ {op'[t].key}
  BY <1>1, <1>2, BeforeFollowing DEF Here, ProbeInv, BroughtBehind, Bringing
<1>4. QED
  BY <1>2, <1>3, QuietProbe DEF Storing

\* The first cell of a probe.
LEMMA FirstProbe ==
  ASSUME ProbeInv, NEW t \in Threads, cell' = cell, Still(t), ~Storing(t)',
         op'[t].at \in Tables, op'[t].key \in Keys, op'[t].idx = Home(op'[t].at, op'[t].key)
  PROVE  ProbeInv'
  BY NothingBeforeHome, QuietProbe

LEMMA CopiedProbe ==
  ASSUME Typed, ProbeInv, NEW t \in Threads, op[t].pc # "idle", Copied(t), cell' = cell
  PROVE  ProbeInv'
<1>1. Still(t) /\ ~Storing(t)'
  BY CopiedDoes DEF Storing, Typed
<1>2. CASE op'[t].pc = "idle"
  BY <1>1, <1>2, QuietProbe DEF Bringing, Storing
<1>3. CASE op'[t].pc # "idle"
  <2>1. op'[t].pc # "idle" /\ op'[t].key = op[t].key /\ op'[t].at = op[t].at + 1
        /\ op'[t].idx = Home(op[t].at + 1, op[t].key) /\ op[t].at # op[t].start
    BY <1>3, CopiedDoes, ReturnDoes DEF Typed, Copied
  <2>2. op[t].at + 1 \in Tables /\ op[t].key \in Keys
    BY <2>1, At, HashTableAssumption DEF Tables
  <2>3. QED
    BY <1>1, <2>1, <2>2, FirstProbe
<1>4. QED
  BY <1>2, <1>3

LEMMA ClaimProbe ==
  ASSUME Typed, ProbeInv, NEW t \in Threads, Claim(t) PROVE ProbeInv'
<1> DEFINE h == op[t].at
           i == op[t].idx
<1>1. h \in Tables /\ i \in Cells(h) /\ op[t].key \in Keys /\ cell[h][i] = Free
  BY At DEF Claim, Here
<1>2. /\ Still(t) /\ Storing(t)' /\ Bringing(t)
      /\ op'[t].key = op[t].key /\ op'[t].at = h /\ op'[t].idx = i
  BY GotoDoes DEF Claim, Typed, Storing, Bringing
<1>3. cell'[h][i] = Busy /\ \A g \in Tables : \A j \in Cells(g) :
         cell[g][j] # Free => cell'[g][j] = cell[g][j]
  BY <1>1 DEF Claim, Typed, CellType
<1>4. \A g \in Tables : \A j \in Cells(g) :
         /\ cell[g][j] \in Keys => cell'[g][j] = cell[g][j]
         /\ cell'[g][j] \in Keys => cell'[g][j] = cell[g][j]
         /\ cell[g][j] = Busy => cell'[g][j] = Busy
  BY <1>1, <1>3, HashTableAssumption DEF Claim, Typed, CellType
<1>5. HeldBehind'
  BY <1>4 DEF ProbeInv, HeldBehind, Before
<1>6. BroughtBehind'
  <2> SUFFICES ASSUME NEW u \in Threads, Bringing(u)',
                      NEW j \in Before(op'[u].at, op'[u].key, op'[u].idx)
               PROVE  cell'[op'[u].at][j] \in Keys \ {op'[u].key}
    BY DEF BroughtBehind, Before
  <2>1. /\ Bringing(u) /\ op'[u].at = op[u].at
        /\ op'[u].key = op[u].key /\ op'[u].idx = op[u].idx
    BY <1>2 DEF Still, Bringing, Storing
  <2>2. cell[op[u].at][j] \in Keys \ {op[u].key}
    BY <2>1 DEF ProbeInv, BroughtBehind
  <2>3. op[u].at \in Tables /\ j \in Cells(op[u].at)
    BY <2>1, At DEF Before, Bringing, Storing
  <2>4. QED
    BY <1>4, <2>1, <2>2, <2>3
<1>7. StoresBusy' /\ StoresApart'
  <2>1. \A u \in Threads : u # t /\ Storing(u)' =>
           /\ Storing(u) /\ op'[u].at = op[u].at /\ op'[u].idx = op[u].idx
           /\ cell[op[u].at][op[u].idx] = Busy
           /\ op[u].at \in Tables /\ op[u].idx \in Cells(op[u].at)
    BY <1>2, At DEF Still, Storing, ProbeInv, StoresBusy
  <2>2. StoresBusy'
    BY <1>2, <1>3, <1>4, <2>1 DEF StoresBusy
  <2>3. \A u \in Threads : u # t /\ Storing(u)' /\ op'[u].at = h => op'[u].idx # i
    BY <1>1, <2>1, HashTableAssumption
  <2>4. QED
    BY <1>2, <2>1, <2>2, <2>3 DEF StoresApart, ProbeInv
<1>8. QED
  BY <1>5, <1>6, <1>7 DEF ProbeInv

LEMMA StoreProbe ==
  ASSUME Typed, ProbeInv, NEW t \in Threads, Store(t) PROVE ProbeInv'
<1> DEFINE h == op[t].at
           i == op[t].idx
           k == op[t].key
<1>1. h \in Tables /\ i \in Cells(h) /\ k \in Keys /\ Storing(t) /\ cell[h][i] = Busy
  BY At DEF Store, Storing, ProbeInv, StoresBusy
<1>2. Still(t) /\ ~Storing(t)' /\ ~Bringing(t)'
  BY GotoDoes DEF Store, Typed, Storing, Bringing
<1>3. cell'[h][i] = k /\ \A g \in Tables : \A j \in Cells(g) :
         <<g, j>> # <<h, i>> => cell'[g][j] = cell[g][j]
  BY <1>1 DEF Store, Typed, CellType
<1>4. \A g \in Tables : \A j \in Cells(g) :
         cell[g][j] \in Keys => cell'[g][j] = cell[g][j]
  BY <1>1, <1>3, HashTableAssumption
<1>5. HeldBehind'
  <2> SUFFICES ASSUME NEW g \in Tables, NEW j \in Cells(g), cell'[g][j] \in Keys,
                      NEW b \in Before(g, cell'[g][j], j)
               PROVE  cell'[g][b] \in Keys \ {cell'[g][j]}
    BY DEF HeldBehind
  <2>1. b \in Cells(g)
    BY DEF Before
  <2>2. CASE <<g, j>> = <<h, i>>
    BY <1>1, <1>3, <1>4, <2>1, <2>2 DEF ProbeInv, BroughtBehind, Bringing
  <2>3. CASE <<g, j>> # <<h, i>>
    BY <1>3, <1>4, <2>1, <2>3 DEF ProbeInv, HeldBehind
  <2>4. QED
    BY <2>2, <2>3
<1>6. BroughtBehind'
  <2> SUFFICES ASSUME NEW u \in Threads, Bringing(u)',
                      NEW j \in Before(op'[u].at, op'[u].key, op'[u].idx)
               PROVE  cell'[op'[u].at][j] \in Keys \ {op'[u].key}
    BY DEF BroughtBehind, Before
  <2>1. /\ Bringing(u) /\ op'[u].at = op[u].at
        /\ op'[u].key = op[u].key /\ op'[u].idx = op[u].idx
    BY <1>2 DEF Still, Bringing, Storing
  <2>2. cell[op[u].at][j] \in Keys \ {op[u].key}
    BY <2>1 DEF ProbeInv, BroughtBehind
  <2>3. op[u].at \in Tables /\ j \in Cells(op[u].at)
    BY <2>1, At DEF Before, Bringing, Storing
  <2>4. QED
    BY <1>4, <2>1, <2>2, <2>3
<1>7. StoresBusy' /\ StoresApart'
  <2>1. \A u \in Threads : Storing(u)' =>
           /\ u # t /\ Storing(u) /\ op'[u].at = op[u].at /\ op'[u].idx = op[u].idx
           /\ cell[op[u].at][op[u].idx] = Busy
           /\ op[u].at \in Tables /\ op[u].idx \in Cells(op[u].at)
    BY <1>2, At DEF Still, Storing, ProbeInv, StoresBusy
  <2>2. \A u \in Threads : Storing(u)' => <<op[u].at, op[u].idx>> # <<h, i>>
    BY <1>1, <2>1 DEF ProbeInv, StoresApart
  <2>3. QED
    BY <1>3, <2>1, <2>2 DEF StoresBusy, StoresApart, ProbeInv
<1>8. QED
  BY <1>5, <1>6, <1>7 DEF ProbeInv

LEMMA ProbeStep == Typed /\ ProbeInv /\ [Next]_vars => ProbeInv'
<1> SUFFICES ASSUME Typed, ProbeInv, [Next]_vars PROVE ProbeInv'
  OBVIOUS
<1>1. OpType
  BY DEF Typed
<1>2. ASSUME NEW t \in Threads, NEW k \in Keys, StartGet(t, k) \/ StartSet(t, k)
      PROVE  ProbeInv'
  <2>1. /\ Still(t) /\ cell' = cell /\ ~Storing(t)'
        /\ op'[t].at = top /\ op'[t].key = k /\ op'[t].idx = Home(top, k)
    BY <1>1, <1>2, StartDoes DEF StartGet, StartSet, Storing
  <2>2. QED
    BY <2>1, FirstProbe DEF Typed
<1>3. ASSUME NEW t \in Threads, GetFree(t) PROVE ProbeInv'
  <2>1. Still(t) /\ cell' = cell /\ op'[t].pc \in {"idle", "get"}
    BY <1>1, <1>3, ReturnDoes, ProbeDoes DEF GetFree
  <2>2. QED
    BY <2>1, QuietProbe DEF Storing, Bringing
<1>4. ASSUME NEW t \in Threads, GetReady(t) PROVE ProbeInv'
  <2>1. CASE Copied(t)
    BY <1>4, <2>1, CopiedProbe DEF GetReady
  <2>2. CASE NextCell(t)
    <3>1. Still(t) /\ cell' = cell /\ op'[t].pc = "get"
      BY <1>1, <1>4, <2>2, NextCellDoes DEF GetReady
    <3>2. QED
      BY <3>1, QuietProbe DEF Storing, Bringing
  <2>3. QED
    BY <1>4, <2>1, <2>2 DEF GetReady
<1>5. ASSUME NEW t \in Threads, Occupied(t) PROVE ProbeInv'
  <2>1. CASE Here(t) # op[t].key
    BY <1>5, <2>1, NextProbe DEF Occupied
  <2>2. CASE Here(t) = op[t].key /\ op[t].pc = "copy"
    BY <1>5, <2>2, CopiedProbe DEF Occupied
  <2>3. CASE Here(t) = op[t].key /\ op[t].pc # "copy"
    <3>1. Still(t) /\ cell' = cell /\ op'[t].pc = "idle"
      BY <1>1, <1>5, <2>3, ReturnDoes DEF Occupied
    <3>2. QED
      BY <3>1, QuietProbe DEF Storing, Bringing
  <2>4. QED
    BY <2>1, <2>2, <2>3
<1>6. ASSUME NEW t \in Threads, AddLen(t) PROVE ProbeInv'
  <2>1. CASE op[t].pc = "setLen"
    <3>1. Still(t) /\ cell' = cell /\ op'[t].pc = "test"
      BY <1>1, <1>6, <2>1, GotoDoes DEF AddLen
    <3>2. QED
      BY <3>1, QuietProbe DEF Storing, Bringing
  <2>2. CASE op[t].pc # "setLen"
    BY <1>6, <2>2, CopiedProbe DEF AddLen
  <2>3. QED
    BY <2>1, <2>2
<1>7. ASSUME NEW t \in Threads, Test(t) \/ Grow(t) \/ Publish(t) PROVE ProbeInv'
  <2>1. Still(t) /\ cell' = cell /\ op'[t].pc \in {"idle", "grow", "publish"}
    BY <1>1, <1>7, GotoDoes, ReturnDoes DEF Test, Grow, Publish, Registered
  <2>2. QED
    BY <2>1, QuietProbe DEF Storing, Bringing
<1>8. CASE UNCHANGED vars
  BY <1>8 DEF vars, ProbeInv, HeldBehind, BroughtBehind, StoresBusy, StoresApart,
              Storing, Bringing
<1>9. QED
  BY <1>2, <1>3, <1>4, <1>5, <1>6, <1>7, <1>8, ClaimProbe, StoreProbe DEF Next, Continue

LEMMA ProbeAlways == Spec => []ProbeInv
<1>1. QED
  BY ProbeInit, ProbeStep, TableTyped, PTL DEF Spec

\* The cells of a key have other keys behind them.
LEMMA CellsBehind ==
  ASSUME Typed, ProbeInv, NEW h \in Tables, NEW k \in Keys, NEW i \in CellsOf(h, k),
         NEW j \in Before(h, k, i)
  PROVE  cell[h][j] \in Keys \ {k} /\ j \notin CellsOf(h, k)
<1>1. i \in Cells(h) /\ j \in Cells(h)
  BY DEF CellsOf, Before
<1>2. cell[h][j] \in Keys \ {k}
  <2>1. CASE cell[h][i] = k
    BY <1>1, <2>1 DEF ProbeInv, HeldBehind
  <2>2. CASE cell[h][i] # k
    BY <2>2 DEF CellsOf, ProbeInv, BroughtBehind, Bringing, Storing
  <2>3. QED
    BY <2>1, <2>2
<1>3. j \notin CellsOf(h, k)
  BY <1>2, HashTableAssumption DEF CellsOf, ProbeInv, StoresBusy, Storing
<1>4. QED
  BY <1>2, <1>3

\* No key gets two cells in a table, however its insertion and the copies of
\* lookups collide (api.c:114-142).
THEOREM KeysAreSingle == Spec => []OneCellPerKey
<1>1. Typed /\ ProbeInv => OneCellPerKey
  <2> SUFFICES ASSUME Typed, ProbeInv, NEW h \in Tables, NEW k \in Keys
               PROVE  Cardinality(CellsOf(h, k)) <= 1
    BY DEF OneCellPerKey
  <2>1. CASE CellsOf(h, k) = {}
    BY <2>1, FS_EmptySet
  <2>2. CASE CellsOf(h, k) # {}
    <3>1. PICK i \in CellsOf(h, k) : TRUE
      BY <2>2
    <3>2. \A j \in CellsOf(h, k) : j = i
      BY OneIsBefore, CellsBehind DEF CellsOf
    <3>3. CellsOf(h, k) = {i}
      BY <3>1, <3>2
    <3>4. QED
      BY <3>3, FS_Singleton
  <2>3. QED
    BY <2>1, <2>2
<1>2. QED
  BY <1>1, TableTyped, ProbeAlways, PTL

\* A probe from the hash of a key meets no free cell before the key
\* (api.c:80-146).
THEOREM ProbesReachKeys == Spec => []ProbeFindsKey
<1>1. Typed /\ ProbeInv => ProbeFindsKey
  BY CellsBehind, HashTableAssumption DEF ProbeFindsKey
<1>2. QED
  BY <1>1, TableTyped, ProbeAlways, PTL

---------------------------------------------------------------------------
(* Publication.  The tables under the published one have been grown; only  *)
(* one thread publishes, on top of the published table.                    *)

PublishInv ==
    /\ \A h \in Tables : h < top => updating[h]
    /\ \A t \in Threads : op[t].pc # "idle" => op[t].start <= top
    /\ \A t \in Threads : op[t].pc = "publish" => op[t].at = top /\ updating[top]
    /\ \A t, u \in Threads : op[t].pc = "publish" /\ op[u].pc = "publish" => t = u

LEMMA PublishInit == Init => PublishInv
  BY HashTableAssumption DEF Init, PublishInv, Tables, Idle

\* A step that neither grows nor publishes.
LEMMA QuietPublish ==
  ASSUME Typed, PublishInv, NEW t \in Threads, Still(t), updating' = updating, top' = top,
         op'[t].pc # "publish", op'[t].pc # "idle" => op'[t].start <= top
  PROVE  PublishInv'
  BY DEF PublishInv, Still

LEMMA PublishStep == Typed /\ PublishInv /\ [Next]_vars => PublishInv' /\ top <= top'
<1> SUFFICES ASSUME Typed, PublishInv, [Next]_vars PROVE PublishInv' /\ top <= top'
  OBVIOUS
<1>1. OpType /\ top \in Nat /\ \A t \in Threads : op[t].start \in Nat
  BY DEF Typed, OpType, Operation, Tables
<1>2. ASSUME NEW t \in Threads, NEW k \in Keys, StartGet(t, k) \/ StartSet(t, k)
      PROVE  PublishInv' /\ top <= top'
  <2>1. /\ Still(t) /\ updating' = updating /\ top' = top
        /\ op'[t].pc # "publish" /\ op'[t].start = top
    BY <1>1, <1>2, StartDoes DEF StartGet, StartSet
  <2>2. QED
    BY <1>1, <2>1, QuietPublish
<1>3. ASSUME NEW t \in Threads,
             GetFree(t) \/ GetReady(t) \/ Claim(t) \/ Occupied(t) \/ Store(t) \/ AddLen(t) \/ Test(t)
      PROVE  PublishInv' /\ top <= top'
  <2>1. op[t].pc # "idle" /\ op[t].pc # "publish" /\ updating' = updating /\ top' = top
    BY <1>3 DEF GetFree, GetReady, Claim, Occupied, Store, AddLen, Test
  <2>2. Still(t) /\ (op'[t].pc # "idle" => op'[t].start = op[t].start)
        /\ op'[t].pc # "publish"
    <3>1. CASE GetFree(t) \/ Claim(t) \/ Store(t) \/ Test(t)
      BY <1>1, <3>1, ReturnDoes, ProbeDoes, GotoDoes
         DEF GetFree, Claim, Store, Test, Registered
    <3>2. CASE GetReady(t) \/ Occupied(t)
      BY <1>1, <3>2, ReturnDoes, CopiedDoes, NextCellDoes DEF GetReady, Occupied
    <3>3. CASE AddLen(t)
      BY <1>1, <3>3, CopiedDoes, GotoDoes DEF AddLen
    <3>4. QED
      BY <1>3, <3>1, <3>2, <3>3
  <2>3. op[t].start <= top
    BY <2>1 DEF PublishInv
  <2>4. QED
    BY <1>1, <2>1, <2>2, <2>3, QuietPublish
<1>4. ASSUME NEW t \in Threads, Grow(t) PROVE PublishInv' /\ top <= top'
  <2>1. CASE updating[op[t].at]
    <3>1. Still(t) /\ op'[t].pc = "idle" /\ top' = top
      BY <1>1, <1>4, <2>1, ReturnDoes DEF Grow, Registered
    <3>2. updating' = updating
      BY <1>4, <2>1, At DEF Grow, Typed
    <3>3. QED
      BY <1>1, <3>1, <3>2, QuietPublish
  <2>2. CASE ~updating[op[t].at]
    <3>1. /\ Still(t) /\ op'[t].pc = "publish" /\ op'[t].at = op[t].at
          /\ op'[t].start = op[t].start /\ top' = top
          /\ op[t].pc = "grow"
      BY <1>1, <1>4, <2>2, GotoDoes DEF Grow
    <3>2. op[t].at \in Tables /\ op[t].at <= op[t].start /\ op[t].start <= top
      BY <3>1, At DEF PublishInv
    <3>3. op[t].at = top
      BY <1>1, <2>2, <3>2 DEF PublishInv, Tables
    <3>4. updating'[top] /\ \A h \in Tables : updating[h] => updating'[h]
      BY <1>4, <3>2, <3>3 DEF Grow, Typed
    <3>5. \A u \in Threads : op[u].pc # "publish"
      BY <2>2, <3>3 DEF PublishInv
    <3>6. QED
      BY <1>1, <3>1, <3>2, <3>3, <3>4, <3>5 DEF PublishInv, Still
  <2>3. QED
    BY <2>1, <2>2
<1>5. ASSUME NEW t \in Threads, Publish(t) PROVE PublishInv' /\ top <= top'
  <2>1. /\ Still(t) /\ op'[t].pc = "idle" /\ updating' = updating
        /\ op[t].pc = "publish" /\ op[t].at = top /\ top' = top + 1
        /\ updating[top]
    BY <1>1, <1>5, ReturnDoes DEF Publish, Registered, PublishInv
  <2>2. \A u \in Threads : op'[u].pc # "publish"
    BY <2>1 DEF PublishInv, Still
  <2>3. \A h \in Tables : h < top' => h < top \/ h = top
    BY <1>1, <2>1 DEF Tables
  <2>4. \A u \in Threads : op'[u].pc # "idle" => op'[u].start <= top'
    BY <1>1, <2>1 DEF PublishInv, Still
  <2>5. QED
    BY <1>1, <2>1, <2>2, <2>3, <2>4 DEF PublishInv
<1>6. CASE UNCHANGED vars
  BY <1>1, <1>6 DEF vars, PublishInv
<1>7. QED
  BY <1>2, <1>3, <1>4, <1>5, <1>6 DEF Next, Continue

---------------------------------------------------------------------------
(* Lookups.  A lookup that is due has its key ahead of it.                 *)

InsertersHeld ==
    \A t \in Threads : op[t].pc \in {"setLen", "test", "grow", "publish"}
                       => cell[op[t].at][op[t].idx] = op[t].key

InsertedHeld ==
    \A k \in inserted : \E h \in Tables : h <= top /\ \E i \in Cells(h) : cell[h][i] = k

Ahead(t) ==
    \E h \in Tables : \E i \in Cells(h) :
        /\ h <= op[t].at /\ cell[h][i] = op[t].key
        /\ h = op[t].at => i \notin Before(h, op[t].key, op[t].idx)

DueAhead == \A t \in Threads : op[t].pc = "get" /\ op[t].due => Ahead(t)

FoundInv == InsertersHeld /\ InsertedHeld /\ DueAhead /\ missed = {}

LEMMA FoundInit == Init => FoundInv
  BY DEF Init, FoundInv, InsertersHeld, InsertedHeld, DueAhead, Idle

\* Keys stay in their cells.
Kept == \A h \in Tables : \A i \in Cells(h) : cell[h][i] \in Keys => cell'[h][i] = cell[h][i]

LEMMA KeysStay == Typed /\ ProbeInv /\ [Next]_vars => Kept
<1> SUFFICES ASSUME Typed, ProbeInv, [Next]_vars PROVE Kept
  OBVIOUS
<1>1. ASSUME NEW t \in Threads, Claim(t) PROVE Kept
  <2>1. op[t].at \in Tables /\ op[t].idx \in Cells(op[t].at)
    BY <1>1, At DEF Claim
  <2>2. QED
    BY <1>1, <2>1, HashTableAssumption DEF Claim, Here, Kept, Typed, CellType
<1>2. ASSUME NEW t \in Threads, Store(t) PROVE Kept
  <2>1. op[t].at \in Tables /\ op[t].idx \in Cells(op[t].at)
        /\ cell[op[t].at][op[t].idx] = Busy
    BY <1>2, At DEF Store, ProbeInv, StoresBusy, Storing
  <2>2. QED
    BY <1>2, <2>1, HashTableAssumption DEF Store, Kept, Typed, CellType
<1>3. CASE cell' = cell
  BY <1>3 DEF Kept
<1>4. QED
  BY <1>1, <1>2, <1>3 DEF Next, Continue, vars, StartGet, StartSet, GetFree, GetReady,
                          Occupied, AddLen, Test, Grow, Publish

\* A step of a thread that keeps what inserters and due lookups have.
LEMMA FoundKept ==
  ASSUME Typed, PublishInv, FoundInv, Kept, top' \in Nat, top <= top',
         NEW t \in Threads, Still(t), missed' = {},
         \/ inserted' = inserted
         \/ /\ inserted' = inserted \cup {op[t].key}
            /\ op[t].pc \in {"test", "grow", "publish"},
         op'[t].pc \in {"setLen", "test", "grow", "publish"}
            => cell'[op'[t].at][op'[t].idx] = op'[t].key,
         op'[t].pc = "get" /\ op'[t].due => Ahead(t)'
  PROVE  FoundInv'
<1>1. InsertersHeld'
  <2> SUFFICES ASSUME NEW u \in Threads, op'[u].pc \in {"setLen", "test", "grow", "publish"}
               PROVE  cell'[op'[u].at][op'[u].idx] = op'[u].key
    BY DEF InsertersHeld
  <2>1. CASE u = t
    BY <2>1
  <2>2. CASE u # t
    <3>1. op'[u] = op[u]
      BY <2>2 DEF Still
    <3>2. cell[op[u].at][op[u].idx] = op[u].key
      BY <3>1 DEF FoundInv, InsertersHeld
    <3>3. op[u].at \in Tables /\ op[u].idx \in Cells(op[u].at) /\ op[u].key \in Keys
      BY <3>1, At
    <3>4. QED
      BY <3>1, <3>2, <3>3 DEF Kept
  <2>3. QED
    BY <2>1, <2>2
<1>2. InsertedHeld'
  <2> SUFFICES ASSUME NEW k \in inserted'
               PROVE  \E h \in Tables : h <= top' /\ \E i \in Cells(h) : cell'[h][i] = k
    BY DEF InsertedHeld
  <2>1. CASE k \in inserted
    <3>1. PICK h \in Tables : h <= top /\ \E i \in Cells(h) : cell[h][i] = k
      BY <2>1 DEF FoundInv, InsertedHeld
    <3>2. k \in Keys /\ h <= top'
      BY <2>1, <3>1 DEF Typed, Tables
    <3>3. QED
      BY <3>1, <3>2 DEF Kept
  <2>2. CASE k \notin inserted
    <3>1. k = op[t].key /\ op[t].pc \in {"test", "grow", "publish"}
      BY <2>2
    <3>2. /\ op[t].at \in Tables /\ op[t].idx \in Cells(op[t].at) /\ k \in Keys
          /\ op[t].start \in Tables /\ op[t].at <= op[t].start /\ op[t].start <= top
      BY <3>1, At DEF PublishInv
    <3>3. cell'[op[t].at][op[t].idx] = k
      BY <3>1, <3>2 DEF FoundInv, InsertersHeld, Kept
    <3>4. op[t].at <= top'
      BY <3>2 DEF Tables, Typed
    <3>5. QED
      BY <3>2, <3>3, <3>4
  <2>3. QED
    BY <2>1, <2>2
<1>3. DueAhead'
  <2> SUFFICES ASSUME NEW u \in Threads, op'[u].pc = "get", op'[u].due PROVE Ahead(u)'
    BY DEF DueAhead, Ahead, Before
  <2>1. CASE u = t
    BY <2>1
  <2>2. CASE u # t
    <3>1. op'[u] = op[u]
      BY <2>2 DEF Still
    <3>2. Ahead(u) /\ op[u].key \in Keys
      BY <3>1, At DEF FoundInv, DueAhead
    <3>3. QED
      BY <3>1, <3>2 DEF Ahead, Kept, Before
  <2>3. QED
    BY <2>1, <2>2
<1>4. QED
  BY <1>1, <1>2, <1>3 DEF FoundInv

\* A lookup that stands on a free cell has its key in an older table.
LEMMA FreeMeansOlder ==
  ASSUME Typed, ProbeInv, NEW t \in Threads, op[t].pc = "get", Ahead(t), Here(t) = Free
  PROVE  \E h \in Tables : h < op[t].at /\ \E i \in Cells(h) : cell[h][i] = op[t].key
<1> DEFINE k == op[t].key
           a == op[t].at
<1>1. a \in Tables /\ op[t].idx \in Cells(a) /\ k \in Keys
  BY At
<1>2. PICK h \in Tables : \E i \in Cells(h) :
         h <= a /\ cell[h][i] = k /\ (h = a => i \notin Before(h, k, op[t].idx))
  BY DEF Ahead
<1>3. PICK i \in Cells(h) :
         h <= a /\ cell[h][i] = k /\ (h = a => i \notin Before(h, k, op[t].idx))
  BY <1>2
<1>4. h # a
  <2> SUFFICES ASSUME h = a PROVE FALSE
    OBVIOUS
  <2>1. cell[a][op[t].idx] = Free /\ i # op[t].idx
    BY <1>1, <1>3, HashTableAssumption DEF Here
  <2>2. op[t].idx \in Before(a, k, i)
    BY <1>1, <1>3, <2>1, OneIsBefore
  <2>3. cell[a][op[t].idx] \in Keys
    BY <1>1, <1>3, <2>2 DEF ProbeInv, HeldBehind
  <2>4. QED
    BY <2>1, <2>3, HashTableAssumption
<1>5. QED
  BY <1>1, <1>3, <1>4 DEF Tables

LEMMA FoundStep ==
  Typed /\ ProbeInv /\ PublishInv /\ FoundInv /\ [Next]_vars => FoundInv'
<1> SUFFICES ASSUME Typed, ProbeInv, PublishInv, FoundInv, [Next]_vars PROVE FoundInv'
  OBVIOUS
<1>1. OpType /\ Kept /\ top <= top' /\ top' \in Nat
  BY KeysStay, PublishStep, TypedStep DEF Typed, Tables
<1>2. ASSUME NEW t \in Threads, NEW k \in Keys, StartSet(t, k) PROVE FoundInv'
  <2>1. Still(t) /\ op'[t].pc = "set" /\ inserted' = inserted /\ missed' = {}
    BY <1>1, <1>2, StartDoes DEF StartSet, FoundInv
  <2>2. QED
    BY <1>1, <2>1, FoundKept
<1>3. ASSUME NEW t \in Threads, NEW k \in Keys, StartGet(t, k) PROVE FoundInv'
  <2>1. /\ Still(t) /\ op'[t].pc = "get" /\ inserted' = inserted /\ missed' = {}
        /\ op'[t].key = k /\ op'[t].at = top /\ op'[t].idx = Home(top, k)
        /\ op'[t].due = (k \in inserted) /\ cell' = cell
    BY <1>1, <1>3, StartDoes DEF StartGet, FoundInv
  <2>2. ASSUME op'[t].due PROVE Ahead(t)'
    <3>1. PICK h \in Tables : h <= top /\ \E i \in Cells(h) : cell[h][i] = k
      BY <2>1, <2>2 DEF FoundInv, InsertedHeld
    <3>2. Before(top, k, Home(top, k)) = {}
      BY NothingBeforeHome DEF Typed
    <3>3. QED
      BY <2>1, <3>1, <3>2 DEF Ahead, Before
  <2>3. QED
    BY <1>1, <2>1, <2>2, FoundKept
<1>4. ASSUME NEW t \in Threads, GetFree(t) PROVE FoundInv'
  <2>1. op[t].pc = "get" /\ Here(t) = Free /\ inserted' = inserted /\ cell' = cell
        /\ op[t].at \in Tables /\ op[t].key \in Keys
    BY <1>4, At DEF GetFree
  <2>2. op[t].due => \E h \in Tables : h < op[t].at /\ \E i \in Cells(h) : cell[h][i] = op[t].key
    BY <2>1, FreeMeansOlder DEF FoundInv, DueAhead
  <2>3. CASE op[t].at > 0
    <3>1. /\ Still(t) /\ missed' = {} /\ op'[t].pc = "get" /\ op'[t].key = op[t].key
          /\ op'[t].at = op[t].at - 1 /\ op'[t].due = op[t].due
          /\ op'[t].idx = Home(op[t].at - 1, op[t].key)
      BY <1>1, <1>4, <2>3, ProbeDoes DEF GetFree, FoundInv
    <3>2. op[t].at - 1 \in Tables
      BY <2>1, <2>3, HashTableAssumption DEF Tables
    <3>3. ASSUME op'[t].due PROVE Ahead(t)'
      <4>1. PICK h \in Tables : h < op[t].at /\ \E i \in Cells(h) : cell[h][i] = op[t].key
        BY <2>2, <3>1, <3>3
      <4>2. Before(op[t].at - 1, op[t].key, op'[t].idx) = {}
        BY <2>1, <3>1, <3>2, NothingBeforeHome
      <4>3. h <= op[t].at - 1
        BY <2>1, <4>1 DEF Tables
      <4>4. QED
        BY <2>1, <3>1, <4>1, <4>2, <4>3 DEF Ahead, Before
    <3>4. QED
      BY <1>1, <2>1, <3>1, <3>3, FoundKept
  <2>4. CASE op[t].at = 0
    <3>1. ~op[t].due
      BY <2>2, <2>4 DEF Tables
    <3>2. Still(t) /\ missed' = {} /\ op'[t].pc = "idle"
      BY <1>1, <1>4, <2>4, <3>1, ReturnDoes DEF GetFree, FoundInv
    <3>3. QED
      BY <1>1, <2>1, <3>2, FoundKept
  <2>5. QED
    BY <2>1, <2>3, <2>4 DEF Tables
<1>5. ASSUME NEW t \in Threads, GetReady(t) PROVE FoundInv'
  <2>1. op[t].pc = "get" /\ inserted' = inserted /\ cell' = cell /\ missed' = {}
        /\ op[t].at \in Tables /\ op[t].key \in Keys /\ op[t].idx \in Cells(op[t].at)
    BY <1>5, At DEF GetReady, FoundInv
  <2>2. CASE Here(t) = op[t].key
    <3>1. Still(t) /\ op'[t].pc \in {"idle", "copy"}
      BY <1>1, <1>5, <2>2, CopiedDoes DEF GetReady
    <3>2. QED
      BY <1>1, <2>1, <3>1, FoundKept
  <2>3. CASE Here(t) # op[t].key
    <3>1. /\ Still(t) /\ op'[t].pc = "get" /\ op'[t].key = op[t].key
          /\ op'[t].at = op[t].at /\ op'[t].due = op[t].due
          /\ op'[t].idx = Following(op[t].at, op[t].idx)
      BY <1>1, <1>5, <2>1, <2>3, NextCellDoes, FollowingIs DEF GetReady, After
    <3>2. ASSUME op'[t].due PROVE Ahead(t)'
      <4>1. Ahead(t)
        BY <2>1, <3>1, <3>2 DEF FoundInv, DueAhead
      <4>2. PICK h \in Tables : \E i \in Cells(h) :
              /\ h <= op[t].at /\ cell[h][i] = op[t].key
              /\ h = op[t].at => i \notin Before(h, op[t].key, op[t].idx)
        BY <4>1 DEF Ahead
      <4>3. PICK i \in Cells(h) :
              /\ h <= op[t].at /\ cell[h][i] = op[t].key
              /\ h = op[t].at => i \notin Before(h, op[t].key, op[t].idx)
        BY <4>2
      <4>4. h = op[t].at => i # op[t].idx
        BY <2>3, <4>3 DEF Here
      <4>5. h = op[t].at => i \notin Before(h, op[t].key, op'[t].idx)
        BY <2>1, <3>1, <4>3, <4>4, BeforeFollowing
      <4>6. QED
        BY <2>1, <3>1, <4>3, <4>5 DEF Ahead, Before
    <3>3. QED
      BY <1>1, <2>1, <3>1, <3>2, FoundKept
  <2>4. QED
    BY <2>2, <2>3
<1>6. ASSUME NEW t \in Threads, Claim(t) \/ Occupied(t) PROVE FoundInv'
  <2>1. inserted' = inserted /\ missed' = {}
    BY <1>6 DEF Claim, Occupied, FoundInv
  <2>2. Still(t) /\ op'[t].pc \in {"setStore", "copyStore", "set", "copy", "idle"}
    BY <1>1, <1>6, GotoDoes, NextCellDoes, CopiedDoes, ReturnDoes DEF Claim, Occupied
  <2>3. QED
    BY <1>1, <2>1, <2>2, FoundKept
<1>7. ASSUME NEW t \in Threads, Store(t) PROVE FoundInv'
  <2>1. /\ Still(t) /\ op'[t].pc # "get" /\ inserted' = inserted /\ missed' = {}
        /\ op'[t].at = op[t].at /\ op'[t].idx = op[t].idx /\ op'[t].key = op[t].key
    BY <1>1, <1>7, GotoDoes DEF Store, FoundInv
  <2>2. op[t].at \in Tables /\ op[t].idx \in Cells(op[t].at)
    BY <1>7, At DEF Store
  <2>3. cell'[op[t].at][op[t].idx] = op[t].key
    BY <1>7, <2>2 DEF Store, Typed, CellType
  <2>4. QED
    BY <1>1, <2>1, <2>3, FoundKept
<1>8. ASSUME NEW t \in Threads, AddLen(t) PROVE FoundInv'
  <2>1. inserted' = inserted /\ missed' = {} /\ cell' = cell
    BY <1>8 DEF AddLen, FoundInv
  <2>2. CASE op[t].pc = "setLen"
    <3>1. /\ Still(t) /\ op'[t].pc = "test" /\ op'[t].at = op[t].at
          /\ op'[t].idx = op[t].idx /\ op'[t].key = op[t].key
      BY <1>1, <1>8, <2>2, GotoDoes DEF AddLen
    <3>2. cell[op[t].at][op[t].idx] = op[t].key
      BY <2>2 DEF FoundInv, InsertersHeld
    <3>3. QED
      BY <1>1, <2>1, <3>1, <3>2, FoundKept
  <2>3. CASE op[t].pc # "setLen"
    <3>1. Still(t) /\ op'[t].pc \in {"idle", "copy"}
      BY <1>1, <1>8, <2>3, CopiedDoes DEF AddLen
    <3>2. QED
      BY <1>1, <2>1, <3>1, FoundKept
  <2>4. QED
    BY <2>2, <2>3
<1>9. ASSUME NEW t \in Threads, Test(t) \/ Grow(t) \/ Publish(t) PROVE FoundInv'
  <2>1. /\ op[t].pc \in {"test", "grow", "publish"} /\ missed' = {} /\ cell' = cell
        /\ inserted' \in {inserted, inserted \cup {op[t].key}}
        /\ Still(t)
        /\ \/ op'[t].pc = "idle"
           \/ /\ op'[t].pc \in {"grow", "publish"} /\ op'[t].at = op[t].at
              /\ op'[t].idx = op[t].idx /\ op'[t].key = op[t].key
    BY <1>1, <1>9, GotoDoes, ReturnDoes DEF Test, Grow, Publish, Registered, FoundInv
  <2>2. cell[op[t].at][op[t].idx] = op[t].key
    BY <2>1 DEF FoundInv, InsertersHeld
  <2>3. QED
    BY <1>1, <2>1, <2>2, FoundKept
<1>10. CASE UNCHANGED vars
  BY <1>10 DEF vars, FoundInv, InsertersHeld, InsertedHeld, DueAhead, Ahead, Before
<1>11. QED
  BY <1>2, <1>3, <1>4, <1>5, <1>6, <1>7, <1>8, <1>9, <1>10 DEF Next, Continue

\* An object that was registered is found by every lookup that begins later,
\* however many tables are published meanwhile (api.c:151-229).
THEOREM RegisteredAreFound == Spec => []RegisteredIsFound
<1>1. Init => Typed /\ ProbeInv /\ PublishInv /\ FoundInv
  BY TypedInit, ProbeInit, PublishInit, FoundInit
<1>2. Typed /\ ProbeInv /\ PublishInv /\ FoundInv /\ [Next]_vars
      => Typed' /\ ProbeInv' /\ PublishInv' /\ FoundInv'
  BY TypedStep, ProbeStep, PublishStep, FoundStep
<1>3. FoundInv => RegisteredIsFound
  BY DEF FoundInv, RegisteredIsFound
<1>4. QED
  BY <1>1, <1>2, <1>3, PTL DEF Spec
=============================================================================
