----------------------------- MODULE Optimizer -----------------------------
(* The passes of src/optimization, each from a build to a build.  A build  *)
(* holds the workers by id, in code the pointers that are the keys of a    *)
(* map, so that the order of the workers is the allocator's.               *)
EXTENDS Ir
LOCAL INSTANCE SequencesExt
LOCAL INSTANCE FiniteSetsExt

RECURSIVE Reach(_, _)
Reach(b, from) ==
  LET next == from \cup (UNION {{b[x].next[k] : k \in DOMAIN b[x].next} : x \in from} \ {NULL})
  IN IF next = from THEN from ELSE Reach(b, next)

(* What a worker's entry leads to. *)
GetUsed(c) == IF c.entry = NULL THEN {} ELSE Reach(c.b, {c.entry})

----------------------------------------------------------------------------
(* Inlining.  Costs are in tenths. *)

Agression         == 100
one_call_multiplier == 10

OpCost(t) ==
  CASE t \in {"CALL"} \cup Jumps -> 100
    [] t \in {"QUERY_ARRAY", "QUERY_INDEX", "QUERY_PIPE", "QUERY_PROMISE", "QUERY_CLASS"} -> 35
    [] t \in {"LOAD_INPUT", "LOAD_OUTPUT", "FREE_TEMP"} -> 1
    [] OTHER -> 10

Cost(c) == FoldLeft(LAMBDA n, x : n + OpCost(c.b[x].t), 0, c.code)

Bodies(build) == {f \in DOMAIN build.workers : build.workers[f].body}

CallsIn(c, w) == {x \in {c.code[i] : i \in DOMAIN c.code} : c.b[x].t = "CALL" /\ c.b[x].d[1] = w}

(* A worker that calls itself counts as called very often. *)
Calls(build, w) ==
  LET n == Cardinality(UNION {{f} \X CallsIn(build.workers[f].c, w) : f \in Bodies(build)})
  IN IF w \in Bodies(build) /\ CallsIn(build.workers[w].c, w) # {} THEN 1000 + n ELSE n

AllowInlining(provider) == provider = "x64"

(* The call's own attributes come before the worker's. *)
Rule(wk, node) ==
  LET Of(at) == CASE "noinline" \in DOMAIN at -> {FALSE} [] "inline" \in DOMAIN at -> {TRUE}
                  [] OTHER -> {}
  IN IF Of(node.at) # {} THEN Of(node.at) ELSE Of(wk.at)

Inlines(wk, node, cost, calls) ==
  /\ wk.body /\ AllowInlining(node.at["provider"])
  /\ IF Rule(wk, node) # {} THEN Rule(wk, node) = {TRUE}
     ELSE cost < Agression * (IF calls = 1 THEN one_call_multiplier ELSE 1)

GetOutputVariable(d, j) ==
  LET loads == {d.code[i] : i \in {i \in DOMAIN d.code : /\ d.b[d.code[i]].t = "LOAD_OUTPUT"
                                                         /\ d.b[d.code[i]].d[1] = j}}
  IN IF loads = {} THEN -1 ELSE d.b[Min(loads)].d[2]

(* Outputs become the variables of the call, every other variable a temporary. *)
MapTable(c, wk, call) ==
  LET outs == [x \in {GetOutputVariable(wk.c, j - 1) : j \in DOMAIN wk.outputs} |->
                 call.d[1 + Len(wk.inputs) +
                        (CHOOSE j \in DOMAIN wk.outputs : GetOutputVariable(wk.c, j - 1) = x)]]
      rest == DOMAIN wk.c.var \ DOMAIN outs
  IN outs @@ [x \in rest |-> c.temp + Cardinality({y \in rest : y < x})]

RECURSIVE PastOutputs(_, _)
PastOutputs(b, x) ==
  IF x # NULL /\ b[x].t = "LOAD_OUTPUT" THEN PastOutputs(b, b[x].next[1]) ELSE x

(* The blocks in the order in which InsertFunctionR comes to them. *)
RECURSIVE Visited(_, _, _)
Visited(b, seq, x) ==
  IF x = NULL \/ Contains(seq, x) THEN seq
  ELSE FoldLeft(LAMBDA s, y : Visited(b, s, y), Append(seq, x), b[x].next)

(* InsertFunction: a copy of the worker between the call and what follows it. *)
InsertFunction(c, k, wk, f) ==
  LET d    == wk.c
      list == SelectSeq(Visited(d.b, <<>>, d.entry), LAMBDA x : d.b[x].t # "LOAD_OUTPUT")
      kept == {list[i] : i \in DOMAIN list}
      id(x)  == Len(c.b) + (CHOOSE i \in DOMAIN list : list[i] = x)
      of(i)  == list[i - Len(c.b)]
      after  == c.b[k].next[1]
      Aim(x) == LET y == PastOutputs(d.b, x) IN IF y = NULL THEN after ELSE id(y)
      Code(x) == IF d.b[x].t = "LOAD_INPUT"
                 THEN Op("MOV", <<f[d.b[x].d[2]], c.b[k].d[2 + d.b[x].d[1]]>>)
                 ELSE applyNamesTranslition(d.b[x], f)
      To(x) == [i \in DOMAIN d.b[x].next |-> Aim(d.b[x].next[i])]
      From(i) == {id(x) : x \in {y \in kept : \E j \in DOMAIN To(y) : To(y)[j] = i}}
                   \cup (IF Aim(d.entry) = i THEN {k} ELSE {})
      new(i) == Block(Code(of(i)), To(of(i)), From(i))
      called == [c.b EXCEPT ![k].next = <<Aim(d.entry)>>]
      b == (IF after = NULL THEN called
            ELSE [called EXCEPT ![after].prev = (@ \ {k}) \cup From(after)])
             \o [j \in 1 .. Cardinality(kept) |-> new(Len(c.b) + j)]
  IN removeOp([c EXCEPT !.code = @ \o [j \in 1 .. Cardinality(kept) |-> Len(c.b) + j], !.b = b], k)

(* Variables with a name are given back after the copy. *)
InlineCall(c, k, wk) ==
  LET f     == MapTable(c, wk, c.b[k])
      outs  == {GetOutputVariable(wk.c, j - 1) : j \in DOMAIN wk.outputs}
      temps == DOMAIN wk.c.var \ outs
      typed == [c EXCEPT !.var = [t \in {f[x] : x \in temps} |->
                                    wk.c.var[CHOOSE x \in temps : f[x] = t]] @@ @,
                         !.temp = @ + Cardinality(temps)]
      freed == FoldLeft(LAMBDA cc, x : connectOp(cc, k, Op("FREE_TEMP", <<f[x]>>)), typed,
                        Ascending({x \in temps : x < FirstTemp}))
  IN InsertFunction(freed, k, wk, f)

RECURSIVE InlineFrom(_, _, _, _)
InlineFrom(build, calls, f, i) ==
  LET c    == build.workers[f].c
      node == c.b[c.code[i]]
      wk   == build.workers[node.d[1]]
  IN IF i > Len(c.code) THEN build
     ELSE IF node.t = "CALL" /\ Inlines(wk, node, build.cost[node.d[1]], calls[node.d[1]])
          THEN InlineFrom([build EXCEPT !.workers[f].c = InlineCall(c, c.code[i], wk),
                                        !.cost[f] = @ + build.cost[node.d[1]]], calls, f, i)
          ELSE InlineFrom(build, calls, f, i + 1)

(* Costs and numbers of calls are those before any inlining. *)
Inlined(build, order) ==
  LET calls == [w \in DOMAIN build.workers |-> Calls(build, w)]
      cost  == [w \in DOMAIN build.workers |-> Cost(build.workers[w].c)]
      all   == FoldLeft(LAMBDA b, f : InlineFrom(b, calls, f, 1), build @@ [cost |-> cost],
                        SelectSeq(order, LAMBDA f : build.workers[f].body))
  IN [x \in DOMAIN build |-> all[x]]

----------------------------------------------------------------------------
(* A promise that never leaves the worker becomes a variable. *)

Escapes(c, k, x) ==
  \E y \in {c.code[i] : i \in DOMAIN c.code} \ {k} :
     LET op == c.b[y] IN
     CASE op.t = "FREE_TEMP"     -> FALSE
       [] op.t = "QUERY_PROMISE" -> op.d[1] = x
       [] op.t = "PUSH_PROMISE"  -> op.d[2] = x
       [] OTHER                  -> x \in getUsedVariables(op)

Compress(c, k) ==
  LET x == c.b[k].d[1]
      Is(op) == \/ op.t = "QUERY_PROMISE" /\ op.d[2] = x
                \/ op.t = "PUSH_PROMISE" /\ op.d[1] = x
  IN IF Escapes(c, k, x) THEN c
     ELSE removeOp([c EXCEPT !.var[x] = @.base,
                             !.b = [i \in DOMAIN @ |->
                                      IF Is(@[i]) THEN [@[i] EXCEPT !.t = "MOV", !.at = <<>>, !.av = <<>>]
                                      ELSE @[i]]], k)

CompressPromise(c) ==
  FoldLeft(Compress, c, SelectSeq(c.code, LAMBDA x : c.b[x].t = "NEW_PROMISE"))

----------------------------------------------------------------------------
StripUnusedInstructions(c) ==
  FoldLeft(removeOp, c, SelectSeq(c.code, LAMBDA x : x \notin GetUsed(c)))

RECURSIVE Called(_, _)
Called(build, ws) ==
  LET next == ws \cup {w \in DOMAIN build.workers :
                         \E f \in ws \cap Bodies(build) : CallsIn(build.workers[f].c, w) # {}}
  IN IF next = ws THEN ws ELSE Called(build, next)

(* Only what an exported worker calls is kept, the entry or not. *)
StripUnusedFunctions(build) ==
  LET roots == {w \in DOMAIN build.workers : "export" \in DOMAIN build.workers[w].at}
  IN [build EXCEPT !.workers = [w \in Called(build, roots) |-> @[w]]]

(* The pass over each worker with a body, whose result content gives. *)
OverBodies(build, content) ==
  [build EXCEPT !.workers = [w \in DOMAIN @ |->
     IF @[w].body THEN [@[w] EXCEPT !.c = content[w]] ELSE @[w]]]
============================================================================
