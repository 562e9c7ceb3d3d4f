----------------------------- MODULE IrMeaning -----------------------------
(* What the intermediate code does when it runs: the reference for every   *)
(* pass over it.  A run is a sequence of tasks, one for each call, and the *)
(* objects; a task is at a block, and a call makes a task of its own.      *)
(* Workers run in any order; a task is left for another only where the     *)
(* compiled code calls the runtime.                                        *)
EXTENDS Objects, Bitwise
LOCAL INSTANCE SequencesExt

CONSTANT Foreign   \* what a function of a dll returns

(* A task of worker w (0: a function of a dll) with the values it was given. *)
Task(w, at, given) == [w |-> w, at |-> at, var |-> <<>>, given |-> given]

(* A temporary that was given back holds anything. *)
Garbage == 3
Get(task, x) == IF x \in DOMAIN task.var THEN task.var[x] ELSE Garbage

Api == {"CALL", "SLEEP", "CAST", "NEW_STRING", "NEW_ARRAY", "NEW_PROMISE", "NEW_CLASS", "NEW_PIPE",
        "PUSH_PROMISE", "PUSH_PIPE", "PUSH_ARRAY", "PUSH_CLASS",
        "QUERY_INDEX", "QUERY_ARRAY", "QUERY_PROMISE", "QUERY_CLASS", "QUERY_PIPE"}

KindOf(t) == CASE t = "NEW_PIPE" -> OBJECT_PIPE [] t = "NEW_PROMISE" -> OBJECT_PROMISE
               [] t = "NEW_ARRAY" -> OBJECT_ARRAY [] t = "NEW_CLASS" -> OBJECT_OBJECT
               [] t = "NEW_STRING" -> OBJECT_DEFINED_ARRAY

Bits(t, a, b, size) ==
  LET x == a % Mod(size)
      y == b % Mod(size)
  IN CASE t = "BOR" -> x | y [] t = "BAND" -> x & y [] t = "BXOR" -> x ^^ y
       [] t = "SHR" -> x \div 2 ^ y

(* The object and the offset an operation reads or stores, and the value. *)
Touch(op, task, c) ==
  CASE op.t \in {"PUSH_PROMISE", "PUSH_PIPE"} -> [o |-> op.d[1], at |-> 0, x |-> op.d[2]]
    [] op.t = "PUSH_CLASS"  -> [o |-> op.d[1], at |-> op.d[2], x |-> op.d[4]]
    [] op.t = "PUSH_ARRAY"  -> [o |-> op.d[1], x |-> op.d[5],
                                at |-> Get(task, op.d[2]) * c.var[op.d[1]].base.size + op.d[3]]
    [] op.t \in {"QUERY_PROMISE", "QUERY_PIPE"} -> [o |-> op.d[2], at |-> 0, x |-> op.d[1]]
    [] op.t = "QUERY_CLASS" -> [o |-> op.d[2], at |-> op.d[3], x |-> op.d[1]]
    [] op.t = "QUERY_ARRAY" -> [o |-> op.d[2], at |-> -16, x |-> op.d[1]]
    [] op.t = "QUERY_INDEX" -> [o |-> op.d[2], x |-> op.d[1],
                                at |-> Get(task, op.d[5]) * c.var[op.d[2]].base.size + op.d[3]]

ClassSize(type) == FieldsSize(type)

(* One operation of task i: the runs that may follow, none when it waits. *)
IrStep(build, run, i) ==
  LET task == run.tasks[i]
      c    == build.workers[task.w].c
      op   == c.b[task.at]
      size(x) == c.var[x].size
      Next(k) == [task EXCEPT !.at = op.next[k]]
      Put(x, v) == [run EXCEPT !.tasks[i] =
                      [Next(1) EXCEPT !.var = (x :> Read(v, c.var[x])) @@ @]]
      Skip == [run EXCEPT !.tasks[i] = Next(1)]
      obj  == Touch(op, task, c)
      id   == Get(task, obj.o)
  IN CASE op.t \in {"MOV", "CAST"} -> {Put(op.d[1], Get(task, op.d[2]))}
       [] op.t \in {"NEW_INT", "NEW_FLOAT"} -> {Put(op.d[1], op.d[2])}
       [] op.t \in {"LOAD_INPUT"} -> {Put(op.d[2], task.given[op.d[1] + 1])}
       [] op.t = "LOAD_OUTPUT" ->
            {Put(op.d[2], task.given[Len(build.workers[task.w].inputs) + op.d[1] + 1])}
       [] op.t = "FREE_TEMP" ->
            {[run EXCEPT !.tasks[i] =
                [Next(1) EXCEPT !.var = [x \in DOMAIN @ \ {op.d[1]} |-> @[x]]]]}
       [] op.t \in {"SLEEP"} -> {Skip}
       [] op.t \in {"JZ", "JNZ"} ->
            {[run EXCEPT !.tasks[i] =
                Next(IF (Get(task, op.d[1]) = 0) = (op.t = "JZ") THEN 2 ELSE 1)]}
       [] op.t \in {"BOR", "BAND", "BXOR", "SHR"} ->
            {Put(op.d[1], Bits(op.t, Get(task, op.d[2]), Get(task, op.d[3]), size(op.d[1])))}
       [] op.t = "BNOT" -> {Put(op.d[1], -1 - Get(task, op.d[2]))}
       [] op.t \in {"QUERY_VAR"} ->
            {Put(op.d[1], LoadCell(IF op.d[2] \in DOMAIN task.var THEN task.var[op.d[2]] ELSE <<>>,
                                   op.d[3], op.d[4].size))}
       [] op.t = "PUSH_VAR" ->
            {[run EXCEPT !.tasks[i] = [Next(1) EXCEPT !.var = (op.d[1] :>
                StoreCell(IF op.d[1] \in DOMAIN @ THEN @[op.d[1]] ELSE <<>>, op.d[2],
                          Get(task, op.d[4]), op.d[3].size)) @@ @]]}
       [] op.t \in {"NEW_PIPE", "NEW_PROMISE", "NEW_ARRAY", "NEW_CLASS", "NEW_STRING"} ->
            LET type == c.var[op.d[1]]
                n == CASE op.t = "NEW_ARRAY"  -> Get(task, op.d[2]) * type.base.size
                       [] op.t = "NEW_STRING" -> op.d[2]
                       [] op.t = "NEW_CLASS"  -> ClassSize(type)
                       [] OTHER -> type.base.size
                el == IF type.k = "class" THEN ClassSize(type) ELSE type.base.size
            IN {[Put(op.d[1], Len(run.heap) + 1) EXCEPT
                   !.heap = Append(@, NewObjectUsingPage(KindOf(op.t), n, el, build.strings))]}
       [] op.t \in {"PUSH_PROMISE", "PUSH_PIPE", "PUSH_CLASS", "PUSH_ARRAY"} ->
            {[Skip EXCEPT !.heap[id] = UpdateLocalPush(@, obj.at, Get(task, obj.x), size(obj.x))]}
       [] op.t \in {"QUERY_PROMISE", "QUERY_PIPE", "QUERY_CLASS", "QUERY_ARRAY", "QUERY_INDEX"} ->
            IF CanQuery(run.heap[id])
            THEN {Put(obj.x, QueryLocalObject(run.heap[id], obj.at, size(obj.x)))} ELSE {}
       [] op.t = "CALL" ->
            LET fn == build.workers[op.d[1]]
                given == [k \in 1 .. Len(op.d) - 1 |->
                            IF k <= Len(fn.inputs) THEN Read(Get(task, op.d[k + 1]), fn.inputs[k].type)
                            ELSE Get(task, op.d[k + 1])]
            IN {IF fn.body
                THEN [Skip EXCEPT !.tasks = Append(@, Task(op.d[1], fn.c.entry, given))]
                ELSE [Skip EXCEPT !.heap[given[Len(given)]] =
                        UpdateLocalPush(@, 0, Foreign, fn.outputs[1].type.base.size)]}
       [] OTHER -> {Put(op.d[1], Arith(op.t, Get(task, op.d[2]), Get(task, op.d[3])))}

(* StartInitialProcess: the entry worker gets an array and a promise of an i32. *)
FirstObjects == <<NewObjectUsingPage(OBJECT_ARRAY, 0, 8, <<>>),
                  NewObjectUsingPage(OBJECT_PROMISE, 4, 4, <<>>)>>

IrStart(build, id) ==
  [tasks |-> <<Task(id, build.workers[id].c.entry, <<1, 2>>)>>, cur |-> 1, heap |-> FirstObjects]

(* Tasks that may go on: the one that runs unless it is at a call of the runtime. *)
IrFree(build, run) ==
  LET Over(i) == run.tasks[i].at = NULL
      AtApi(i) == build.workers[run.tasks[i].w].c.b[run.tasks[i].at].t \in Api
  IN IF ~Over(run.cur) /\ ~AtApi(run.cur) THEN {run.cur}
     ELSE {i \in DOMAIN run.tasks : ~Over(i)}

IrNext(build, run) ==
  UNION {{[r EXCEPT !.cur = i] : r \in IrStep(build, run, i)} : i \in IrFree(build, run)}

Returned(run) == Signed(LoadCell(run.heap[2].cells, 0, 4), 4)
============================================================================
