----------------------------- MODULE HashTable -----------------------------
(***************************************************************************)
(* i64hashtable of src/runtimes/0.3/common/api.c as local_objects uses it: *)
(* a lock-free open hash table from object ids to objects.  A fresh id is  *)
(* inserted once (RegisterObjectWithId) and looked up by any thread.  When *)
(* a table is a quarter full, one inserter publishes a table of twice the  *)
(* size on top of it; a lookup that finds its key in an older table copies *)
(* it into every newer one on its way back.                                *)
(*                                                                         *)
(* This is the build without 16-byte compare-exchange (the Linux build): a *)
(* cell goes from free to busy to ready and never back.  The value of a    *)
(* key is always its object, so a cell shows its key only.                 *)
(***************************************************************************)
EXTENDS Integers, FiniteSets

CONSTANTS Threads,
          Keys,        \* object ids
          Hash,        \* Hash[k]: GetInt64Hash
          INIT_ALLOC,  \* cells of the first table (1024 in the code)
          MaxTables,   \* bound: how many tables are ever published
          Free, Busy   \* states of a cell without a key

ASSUME HashTableAssumption ==
    /\ Hash \in [Keys -> Nat]
    /\ INIT_ALLOC \in Nat \ {0}
    /\ MaxTables \in Nat \ {0}
    /\ Free # Busy /\ Free \notin Keys /\ Busy \notin Keys

Tables == 0 .. (MaxTables - 1)

\* nt->alloc = 2 * h->alloc
Alloc(h) == INIT_ALLOC * 2 ^ h

\* Powers of two are positive naturals: arithmetic the provers do not know.
ASSUME AllocAssumption == \A h \in Tables : Alloc(h) \in Nat \ {0}

Cells(h) == 0 .. (Alloc(h) - 1)

\* The cell a probe for key k begins at: hash % h->alloc.
Home(h, k) == Hash[k] % Alloc(h)

VARIABLES cell,      \* cell[h][i]: Free, Busy or the key of a ready cell
          len,       \* len of each table
          updating,  \* updating flag of each table
          top,       \* the published table, *ph
          begun,     \* keys whose insertion has begun
          inserted,  \* keys whose insertion has returned
          op,        \* op[t]: the operation of a thread and where it is
          missed     \* keys a lookup did not find although they were inserted

vars == <<cell, len, updating, top, begun, inserted, op, missed>>

\* pc: the next step; key; start: the table loaded from *ph; at, idx: the
\* table and the cell it works on; due: the key was inserted before the
\* lookup began.
Idle == [pc |-> "idle", key |-> Free, start |-> 0, at |-> 0, idx |-> 0, due |-> FALSE]

Init ==
    /\ cell = [h \in Tables |-> [i \in Cells(h) |-> Free]]
    /\ len = [h \in Tables |-> 0]
    /\ updating = [h \in Tables |-> FALSE]
    /\ top = 0
    /\ begun = {} /\ inserted = {}
    /\ op = [t \in Threads |-> Idle]
    /\ missed = {}

\* The cell a thread looks at, and the one after it.
Here(t) == cell[op[t].at][op[t].idx]
\* Broken: no wrap-around at the end of the table.
AfterNoWrap(t) == op[t].idx + 1

\* Broken: the wrap-around goes to the second cell.
AfterWrapToOne(t) ==
    IF op[t].idx + 1 = Alloc(op[t].at) THEN 1 ELSE op[t].idx + 1


After(t) == (op[t].idx + 1) % Alloc(op[t].at)

\* What a thread does next: a step at the same cell, the next cell, the probe
\* of another table, or nothing.
Goto(t, label) == op' = [op EXCEPT ![t].pc = label]
NextCell(t) == op' = [op EXCEPT ![t].idx = After(t)]
Probe(t, label, h) ==
    op' = [op EXCEPT ![t].pc = label, ![t].at = h,
                     ![t].idx = Home(h, op[t].key)]
Return(t) == op' = [op EXCEPT ![t] = Idle]

\* The initial load of *ph and the first cell of the probe.
Start(t, label, k) ==
    op' = [op EXCEPT ![t] = [pc |-> label, key |-> k, start |-> top, at |-> top,
                             idx |-> Home(top, k), due |-> k \in inserted]]

---------------------------------------------------------------------------
(* i64GetHashtable, i64_get *)

StartGet(t, k) ==
    /\ op[t].pc = "idle"
    /\ Start(t, "get", k)
    /\ UNCHANGED <<cell, len, updating, top, begun, inserted, missed>>

\* Broken: the previous table is not searched.
GetFreeTop(t) ==
    /\ op[t].pc = "get"
    /\ Here(t) = Free
    /\ missed' = IF op[t].due THEN missed \cup {op[t].key} ELSE missed
    /\ Return(t)
    /\ UNCHANGED <<cell, len, updating, top, begun, inserted>>

\* Broken: the recursion is on the same table.
GetFreeAgain(t) ==
    /\ op[t].pc = "get"
    /\ Here(t) = Free
    /\ \/ /\ op[t].at > 0
          /\ Probe(t, "get", op[t].at)
          /\ UNCHANGED missed
       \/ /\ op[t].at = 0
          /\ missed' = IF op[t].due THEN missed \cup {op[t].key} ELSE missed
          /\ Return(t)
    /\ UNCHANGED <<cell, len, updating, top, begun, inserted>>

\* A free cell ends the probe: the key may still be in the previous table.
GetFree(t) ==
    /\ op[t].pc = "get"
    /\ Here(t) = Free
    /\ \/ /\ op[t].at > 0
          /\ Probe(t, "get", op[t].at - 1)
          /\ UNCHANGED missed
       \/ /\ op[t].at = 0
          /\ missed' = IF op[t].due THEN missed \cup {op[t].key} ELSE missed
          /\ Return(t)
    /\ UNCHANGED <<cell, len, updating, top, begun, inserted>>

\* A key found in an older table is copied into the tables above it.
Copied(t) ==
    IF op[t].at = op[t].start THEN Return(t) ELSE Probe(t, "copy", op[t].at + 1)

\* The thread spins while the cell is busy; then it compares the keys.
GetReady(t) ==
    /\ op[t].pc = "get"
    /\ Here(t) \in Keys
    /\ IF Here(t) = op[t].key THEN Copied(t) ELSE NextCell(t)
    /\ UNCHANGED <<cell, len, updating, top, begun, inserted, missed>>

---------------------------------------------------------------------------
(* i64_raw_update with old_value = 0, in an insertion or a copy *)

\* The compare-exchange of the state from STATE_FREE to STATE_BUSY.
Claim(t) ==
    /\ op[t].pc \in {"set", "copy"}
    /\ Here(t) = Free
    /\ cell' = [cell EXCEPT ![op[t].at][op[t].idx] = Busy]
    /\ Goto(t, IF op[t].pc = "set" THEN "setStore" ELSE "copyStore")
    /\ UNCHANGED <<len, updating, top, begun, inserted, missed>>

\* Broken: every occupied cell is passed, whatever its key.
OccupiedPass(t) ==
    /\ op[t].pc \in {"set", "copy"}
    /\ Here(t) \in Keys
    /\ NextCell(t)
    /\ UNCHANGED <<cell, len, updating, top, begun, inserted, missed>>

\* It failed, and the cell is ready: another thread has copied this key, or
\* the cell belongs to another key.
Occupied(t) ==
    /\ op[t].pc \in {"set", "copy"}
    /\ Here(t) \in Keys
    /\ IF Here(t) # op[t].key THEN NextCell(t)
       ELSE IF op[t].pc = "copy" THEN Copied(t) ELSE Return(t)
    /\ UNCHANGED <<cell, len, updating, top, begun, inserted, missed>>

\* Store key and value, then STATE_READY: nobody reads them before.
Store(t) ==
    /\ op[t].pc \in {"setStore", "copyStore"}
    /\ cell' = [cell EXCEPT ![op[t].at][op[t].idx] = op[t].key]
    /\ Goto(t, IF op[t].pc = "setStore" THEN "setLen" ELSE "copyLen")
    /\ UNCHANGED <<len, updating, top, begun, inserted, missed>>

AddLen(t) ==
    /\ op[t].pc \in {"setLen", "copyLen"}
    /\ len' = [len EXCEPT ![op[t].at] = @ + 1]
    /\ IF op[t].pc = "setLen" THEN Goto(t, "test") ELSE Copied(t)
    /\ UNCHANGED <<cell, updating, top, begun, inserted, missed>>

---------------------------------------------------------------------------
(* i64SetHashtable, called by RegisterObjectWithId for a fresh id *)

StartSet(t, k) ==
    /\ op[t].pc = "idle"
    /\ k \notin begun
    /\ begun' = begun \cup {k}
    /\ Start(t, "set", k)
    /\ UNCHANGED <<cell, len, updating, top, inserted, missed>>

\* The end of RegisterObjectWithId.
Registered(t) == inserted' = inserted \cup {op[t].key} /\ Return(t)

\* A new table is due when this one is more than a quarter full.
Test(t) ==
    /\ op[t].pc = "test"
    /\ IF len[op[t].at] > Alloc(op[t].at) \div 4 /\ op[t].at + 1 < MaxTables
       THEN Goto(t, "grow") /\ UNCHANGED inserted
       ELSE Registered(t)
    /\ UNCHANGED <<cell, len, updating, top, begun, missed>>

\* The compare-exchange of updating from 0 to 1: only one thread grows.
Grow(t) ==
    /\ op[t].pc = "grow"
    /\ updating' = [updating EXCEPT ![op[t].at] = TRUE]
    /\ IF updating[op[t].at]
       THEN Registered(t)
       ELSE Goto(t, "publish") /\ UNCHANGED inserted
    /\ UNCHANGED <<cell, len, top, begun, missed>>

\* atomic_store(ph, nt), with nt->prev = h and empty cells.
Publish(t) ==
    /\ op[t].pc = "publish"
    /\ top' = op[t].at + 1
    /\ Registered(t)
    /\ UNCHANGED <<cell, len, updating, begun, missed>>

---------------------------------------------------------------------------

Continue(t) ==
    \/ GetFree(t) \/ GetReady(t)
    \/ Claim(t) \/ Occupied(t) \/ Store(t) \/ AddLen(t)
    \/ Test(t) \/ Grow(t) \/ Publish(t)

Next ==
    \E t \in Threads :
        \/ Continue(t)
        \/ \E k \in Keys : StartGet(t, k) \/ StartSet(t, k)

Spec == Init /\ [][Next]_vars

\* A thread inside an operation keeps running; none has to begin one.
FairSpec == Spec /\ \A t \in Threads : WF_vars(Continue(t))

---------------------------------------------------------------------------
(* Properties *)

TypeOK ==
    /\ \A h \in Tables : cell[h] \in [Cells(h) -> Keys \cup {Free, Busy}]
    /\ len \in [Tables -> Nat]
    /\ updating \in [Tables -> BOOLEAN]
    /\ top \in Tables
    /\ inserted \subseteq begun /\ begun \subseteq Keys
    /\ \A t \in Threads :
          \/ op[t] = Idle
          \/ /\ op[t].pc \in {"get", "set", "copy", "setStore", "copyStore",
                              "setLen", "copyLen", "test", "grow", "publish"}
             /\ op[t].key \in Keys
             /\ op[t].at \in 0 .. op[t].start /\ op[t].start \in Tables
             /\ op[t].idx \in Cells(op[t].at)
             /\ op[t].due \in BOOLEAN
    /\ missed \subseteq Keys

\* The cells that hold key k in table h, or that a thread has claimed for it.
CellsOf(h, k) ==
    {i \in Cells(h) :
        \/ cell[h][i] = k
        \/ \E t \in Threads : /\ op[t].pc \in {"setStore", "copyStore"}
                              /\ op[t].at = h /\ op[t].idx = i /\ op[t].key = k}

\* No key has two cells in one table, however its insertion and the copies of
\* several lookups collide (api.c:114-142): otherwise an update would reach
\* one of the two values only.
OneCellPerKey == \A h \in Tables, k \in Keys : Cardinality(CellsOf(h, k)) <= 1

\* How many cells a probe for k passes before it comes to cell i of table h,
\* and which: it goes up from its home and wraps around once.
Distance(h, k, i) ==
    IF i >= Home(h, k) THEN i - Home(h, k) ELSE i - Home(h, k) + Alloc(h)

Before(h, k, i) == {j \in Cells(h) : Distance(h, k, j) < Distance(h, k, i)}

\* A probe from the hash of a key meets no free cell before the key: cells are
\* never freed and the first free cell is always the one claimed (api.c:80, 146).
ProbeFindsKey ==
    \A h \in Tables, k \in Keys :
        \A i \in CellsOf(h, k) : \A j \in Before(h, k, i) : cell[h][j] # Free

\* An object that was registered is found by every lookup that begins later,
\* although the insertion may go into an old table after a new one was
\* published (api.c:151-198, 205-229).
RegisteredIsFound == missed = {}

\* Every lookup and every insertion ends (api.c:86-147, 155-184): waiting for
\* a busy cell is waiting for a thread that is about to fill it.
OperationsEnd == \A t \in Threads : (op[t].pc # "idle") ~> (op[t].pc = "idle")
=============================================================================
