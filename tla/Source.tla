------------------------------- MODULE Source -------------------------------
(* What a program means, by its syntax tree alone: the reference that every *)
(* stage of the compiler is compared with.  A worker that is called runs at *)
(* once, so that a promise is set when it is asked; the programs compared   *)
(* give the same result whatever the order their workers run in.            *)
(* Taken from examples/constructions/README.md and the tests of the         *)
(* language, never from the code of the compiler.                           *)
EXTENDS Ir
LOCAL INSTANCE SequencesExt

(* A value is [v, type]; the value of a class, an array, a pipe or a promise *)
(* is its place in the heap.  st: env, the variables in sight, and heap.     *)
Value(v, type) == [v |-> IF type.k = "scalar" THEN Read(v, type) ELSE v, type |-> type]
Gives(v, type, st) == Value(v, type) @@ [st |-> st]

TypeNamed(p, t) ==
  FoldLeft(LAMBDA type, m : [k |-> m[1], base |-> type], p.types[t.name], t.mods)

New(st, type, cells) ==
  [v |-> Len(st.heap) + 1, type |-> type, st |-> [st EXCEPT !.heap = Append(@, cells)]]

Blank == [v |-> 0, type |-> Scalar("I", 8)]

Wider(s, t) == IF s.size >= t.size THEN s ELSE t

RECURSIVE Eval(_, _, _)
RECURSIVE Do(_, _, _)

Taken(acc, x) == [xs |-> Append(acc.xs, Value(x.v, x.type)), st |-> x.st]
EvalAll(p, st, es) ==
  FoldLeft(LAMBDA acc, e : Taken(acc, Eval(p, acc.st, e)), [xs |-> <<>>, st |-> st], es)

Block_(p, st, ss) == FoldLeft(LAMBDA s, x : Do(p, s, x), st, ss)

(* A call: the outputs are new promises, the body runs in its own scope. *)
Scope(w, xs, outs) ==
  [x \in {w.inputs[i].name : i \in DOMAIN w.inputs} \cup {w.outputs[i].name : i \in DOMAIN w.outputs} |->
     IF \E i \in DOMAIN w.outputs : w.outputs[i].name = x
     THEN outs[CHOOSE i \in DOMAIN w.outputs : w.outputs[i].name = x]
     ELSE xs[CHOOSE i \in DOMAIN w.inputs : w.inputs[i].name = x]]

(* What the caller has afterwards: "*" is the value of the call. *)
Back(e, env, outs, st) ==
  LET stars == {i \in DOMAIN e.outs : e.outs[i] = "*"}
      named == [x \in {e.outs[i] : i \in DOMAIN e.outs} \ {"*"} |->
                  outs[CHOOSE i \in DOMAIN e.outs : e.outs[i] = x]]
      value == IF stars = {} THEN Blank ELSE outs[CHOOSE i \in stars : TRUE]
  IN value @@ [st |-> [st EXCEPT !.env = named @@ env]]

Called(p, w, e, env, ins) ==
  LET outs == [i \in DOMAIN w.outputs |-> Value(Len(ins.st.heap) + i, TypeNamed(p, w.outputs[i].type))]
      xs   == [i \in DOMAIN w.inputs |-> Value(ins.xs[i].v, TypeNamed(p, w.inputs[i].type))]
      made == [ins.st EXCEPT !.heap = @ \o [i \in DOMAIN outs |-> <<>>]]
  IN Back(e, env, outs,
          IF w.external
          THEN [made EXCEPT !.heap[outs[1].v] = <<Value(p.foreign, outs[1].type.base)>>]
          ELSE Block_(p, [made EXCEPT !.env = Scope(w, xs, outs)], w.body))

CallOf(p, st, e) == Called(p, p.workers[e.name], e, st.env, EvalAll(p, st, e.args))

(* Comparisons give -1 when they hold and 0 when not, and so does logic. *)
Link_(p, rule, l, op, e) ==
  LET r == Eval(p, l.st, e)
      tr == Scalar("I", 4)
  IN CASE rule = "LogicOperation" ->
            IF (l.v # 0) = (op = "||") THEN Gives(Truth(op = "||"), tr, l.st)
            ELSE Gives(Truth(r.v # 0), tr, r.st)
       [] rule = "CompareOperation" -> Gives(Arith(op, l.v, r.v), tr, r.st)
       [] OTHER -> Gives(Arith(op, l.v, r.v), Wider(l.type, r.type), r.st)

Prefix(op, x) ==
  CASE op = "+" -> x [] op = "-" -> Gives(-x.v, x.type, x.st)
    [] op = "!" -> Gives(Truth(x.v = 0), Scalar("I", 4), x.st)

(* Stores data in a target; a promise or a pipe in it is pushed to. *)
Store_(p, st, to, data) ==
  LET Push(x) == [x.st EXCEPT !.heap[x.v] = Append(@, Value(data.v, x.type.base))]
      Cell(s, o, i) ==
        IF s.heap[o][i].type.k \in {"promise", "pipe"} /\ data.type.k = "scalar"
        THEN Push(s.heap[o][i] @@ [st |-> s])
        ELSE [s EXCEPT !.heap[o][i].v = Value(data.v, s.heap[o][i].type).v]
  IN CASE to.n = "var" ->
            LET x == st.env[to.name] IN
            IF x.type.k \in {"promise", "pipe"} /\ data.type.k = "scalar" THEN Push(x @@ [st |-> st])
            ELSE IF to.path = <<>> THEN [st EXCEPT !.env[to.name].v = Value(data.v, x.type).v]
            ELSE LET f == to.path[1] IN
                 [st EXCEPT !.env[to.name].v[f].v = Value(data.v, x.v[f].type).v]
       [] to.n = "index" -> LET xs == EvalAll(p, st, <<to.of, to.i>>) IN
                            Cell(xs.st, xs.xs[1].v, xs.xs[2].v)
       [] to.n = "field" -> LET x == Eval(p, st, to.of) IN Cell(x.st, x.v, to.path[1])
       [] OTHER -> Push(Eval(p, st, to))

Eval(p, st, e) ==
  CASE e.n = "int"    -> Gives(e.v, Scalar("I", 4), st)
    [] e.n = "paren"  -> Eval(p, st, e.of)
    [] e.n = "var"    -> LET x == st.env[e.name] IN
                         IF e.path = <<>> THEN x @@ [st |-> st] ELSE x.v[e.path[1]] @@ [st |-> st]
    [] e.n = "call"   -> CallOf(p, st, e)
    [] e.n = "chain"  -> FoldLeft(LAMBDA l, x : Link_(p, e.rule, l, x[1], x[2]),
                                  Eval(p, st, e.first), e.rest)
    [] e.n = "prefix" -> Prefix(e.op, Eval(p, st, e.of))
    [] e.n = "cast"   -> LET x == Eval(p, st, e.of) IN Gives(x.v, TypeNamed(p, e.type), x.st)
    [] e.n = "ask"    -> LET x == Eval(p, st, e.of) IN
                         IF x.type.k = "array"
                         THEN Gives(Cardinality(DOMAIN x.st.heap[x.v]), Scalar("I", 8), x.st)
                         ELSE Head(x.st.heap[x.v]) @@
                              [st |-> IF x.type.k = "promise" THEN x.st
                                      ELSE [x.st EXCEPT !.heap[x.v] = Tail(@)]]
    [] e.n = "field"  -> LET x == Eval(p, st, e.of) IN x.st.heap[x.v][e.path[1]] @@ [st |-> x.st]
    [] e.n = "index"  -> LET xs == EvalAll(p, st, <<e.of, e.i>>) IN
                         xs.st.heap[xs.xs[1].v][xs.xs[2].v] @@ [st |-> xs.st]
    [] e.n = "set"    -> LET d == Eval(p, st, e.of) IN
                         [d EXCEPT !.st = FoldLeft(LAMBDA s, to : Store_(p, s, to, d), d.st, e.to)]
    [] e.n = "string" -> LET type == TypeNamed(p, e.type)
                             n    == Len(e.means) IN
                         New(st, type, [i \in 0 .. n - 1 |-> Value(e.means[i + 1], type.base)])
    [] e.n = "new"    ->
         LET type == TypeNamed(p, e.type)
             xs   == EvalAll(p, st, e.args)
         IN New(xs.st, type,
                CASE type.k = "class" -> [f \in {type.fields[i].name : i \in DOMAIN type.fields} |->
                       Value(0, type.fields[CHOOSE i \in DOMAIN type.fields :
                                              type.fields[i].name = f].type)]
                  [] type.k = "array" -> [i \in 0 .. xs.xs[1].v - 1 |-> Value(0, type.base)]
                  [] OTHER -> <<>>)

Do(p, st, s) ==
  CASE s.s = "expr"  -> Eval(p, st, s.of).st
    [] s.s = "sleep" -> Eval(p, st, s.of).st
    [] s.s = "decl"  -> LET type == TypeNamed(p, s.type) IN
         [st EXCEPT !.env = [x \in {s.names[i] : i \in DOMAIN s.names} |->
            IF type.k = "record"
            THEN [v |-> [f \in {type.fields[i].name : i \in DOMAIN type.fields} |->
                           Value(0, type.fields[CHOOSE i \in DOMAIN type.fields :
                                                  type.fields[i].name = f].type)],
                  type |-> type]
            ELSE Value(0, type)] @@ @]
    [] s.s = "while" -> LET g == Eval(p, st, s.guard) IN
                        IF g.v = 0 THEN g.st ELSE Do(p, Block_(p, g.st, s.body), s)
    [] s.s = "match" ->
         LET m == Eval(p, st, s.of)
         IN FoldLeft(LAMBDA acc, c : LET x == Eval(p, acc, c[1]) IN
                       IF x.v = m.v THEN Block_(p, x.st, c[2]) ELSE x.st, m.st, s.cases)

(* The types and workers of a program, with the value dll functions return. *)
Tree(program, builtin, foreign) ==
  LET Add(p, g) ==
        CASE g.g \in {"record", "class"} ->
               LET fields == [i \in DOMAIN g.fields |->
                                [name |-> g.fields[i].name, type |-> TypeNamed(p, g.fields[i].type)]]
               IN [p EXCEPT !.types = (g.name :> [k |-> g.g, fields |-> fields, size |-> 8]) @@ @]
          [] g.g = "worker" ->
               [p EXCEPT !.workers = (g.name :> [inputs |-> g.inputs, outputs |-> g.outputs,
                                                 external |-> FALSE, body |-> g.body]) @@ @]
          [] g.g = "worker_decl" ->
               [p EXCEPT !.workers = (g.name :> [inputs |-> g.inputs, outputs |-> g.outputs,
                                                 external |-> TRUE]) @@ @]
          [] OTHER -> p
  IN FoldLeft(Add, [types |-> builtin, workers |-> <<>>, foreign |-> foreign], program)

(* The value main leaves in its output when it is given an empty array. *)
Meaning(p) ==
  LET none == [n |-> "new", type |-> [name |-> "i64", prov |-> "", mods |-> <<<<"array", "">>>>],
               args |-> <<[n |-> "int", v |-> 0]>>]
      Output(end) == Head(end.st.heap[end.v]).v
  IN Output(CallOf(p, [env |-> <<>>, heap |-> <<>>],
                   [name |-> "main", args |-> <<none>>, outs |-> <<"*">>]))
============================================================================
