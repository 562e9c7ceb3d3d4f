------------------------------ MODULE Parsing ------------------------------
(* From the syntax tree to operations: src/ir/parsing and src/ir/ir.cpp.    *)
(*                                                                          *)
(* A node of the tree is a record; n is the rule of an expression, s of a   *)
(* statement, g of a global.  The operators here are the build functions:   *)
(* each takes the build context and a node and gives the operations, the    *)
(* variable that holds the value (-1: none) and the context that follows.   *)
(*                                                                          *)
(* The context: var, the type of each variable; names, the variables in     *)
(* sight; next and temp, the next variable and temporary; types and workers *)
(* declared so far; provider, of the last @; enabled, the options;          *)
(* integer64, of the worker being built; strings; uses, which workers are   *)
(* called by which provider; errors, how often logError was called.         *)
EXTENDS Ir
LOCAL INSTANCE SequencesExt

Built(ops, pos, ctx) == [ops |-> ops, pos |-> pos, ctx |-> ctx]

(* logError writes a message and the build goes on without the node. *)
Error(ctx) == Built(<<>>, -1, [ctx EXCEPT !.errors = @ + 1])

freeTemp(id) == IF id >= FirstTemp THEN <<Op("FREE_TEMP", <<id>>)>> ELSE <<>>

freeTemps(ids) == FlattenSeq([i \in DOMAIN ids |-> freeTemp(ids[i])])

freeAttributeTemps(av) ==
  freeTemps([i \in 1 .. Cardinality(DOMAIN av) |-> av[SetToSeq(DOMAIN av)[i]]])

newVar(ctx, name, type) ==
  [ctx EXCEPT !.var = (ctx.next :> type) @@ @, !.names = (name :> ctx.next) @@ @,
              !.next = @ + 1]

----------------------------------------------------------------------------
(* Types. *)

i32 == Scalar("I", 4)
i64 == Scalar("I", 8)

BuiltinTypes ==
  "i8" :> Scalar("I", 1) @@ "i16" :> Scalar("I", 2) @@ "i32" :> i32 @@ "i64" :> i64 @@
  "u8" :> Scalar("U", 1) @@ "u16" :> Scalar("U", 2) @@ "u32" :> Scalar("U", 4) @@
  "u64" :> Scalar("U", 8) @@ "f32" :> Scalar("F", 4) @@ "f64" :> Scalar("F", 8) @@
  "object" :> [k |-> "class", fields |-> <<>>, prov |-> "", size |-> 8]

(* Only a class takes the provider. *)
getBaseType(ctx, name, prov) ==
  LET type == ctx.types[name] IN
  IF type.k = "class" THEN [type EXCEPT !.prov = prov] ELSE type

(* t: [name, prov, mods], with "" for a provider that is not written. *)
getType(ctx, t) ==
  LET P(p) == IF p = "" THEN ctx.provider ELSE p IN
  FoldLeft(LAMBDA type, m : Derivative(m[1], type, P(m[2])),
           getBaseType(ctx, t.name, P(t.prov)), t.mods)

getIntegerType(v) ==
  LET half == Mod(4) \div 2 IN
  IF v \in -half .. half - 1 THEN i32 ELSE IF v \in 0 .. Mod(4) - 1 THEN Scalar("U", 4) ELSE i64

FieldIndex(type, name) == CHOOSE i \in DOMAIN type.fields : type.fields[i].name = name

FieldOffset(type, name) ==
  IF type.k = "union" THEN 0
  ELSE FoldLeft(LAMBDA n, f : n + f.type.size, 0,
                SubSeq(type.fields, 1, FieldIndex(type, name) - 1))

(* Each step of the path replaces the offset of the step before. *)
GetFieldOffset(type, path) ==
  FoldLeft(LAMBDA at, f : [offset |-> FieldOffset(at.type, f),
                           type   |-> at.type.fields[FieldIndex(at.type, f)].type],
           [offset |-> 0, type |-> type], path)

registerStructure(ctx, g) ==
  LET fields == [i \in DOMAIN g.fields |->
                   [name |-> g.fields[i].name, type |-> getType(ctx, g.fields[i].type)]]
      size   == FoldLeft(LAMBDA n, f : n + f.type.size, 0, fields)
      type   == IF g.g = "class" THEN [k |-> "class", fields |-> fields, prov |-> "", size |-> 8]
                ELSE [k |-> g.g, fields |-> fields, size |-> size]
  IN [ctx EXCEPT !.types = (g.name :> type) @@ @]

----------------------------------------------------------------------------
(* Binary and prefix operations. *)

buildArithmetic(l, op, r) ==
  LET types == operation_types(r.ctx.var[l.pos], r.ctx.var[r.pos])
      tmp   == r.ctx.temp
  IN IF types = {} THEN Error(r.ctx)
     ELSE Built(l.ops \o r.ops \o <<Op(op, <<tmp, l.pos, r.pos>>)>>
                  \o freeTemp(r.pos) \o freeTemp(l.pos),
                tmp, newTemp(r.ctx, CHOOSE t \in types : TRUE))

buildCompareOperation(l, op, r) ==
  LET tmp == r.ctx.temp IN
  IF ProviderOf(r.ctx.var[l.pos]) # ProviderOf(r.ctx.var[r.pos]) THEN Error(r.ctx)
  ELSE Built(l.ops \o r.ops \o <<Op(op, <<tmp, l.pos, r.pos>>)>>
               \o freeTemp(r.pos) \o freeTemp(l.pos), tmp, newTemp(r.ctx, i32))

(* "&&" jumps over the right operand when the left one is 0, "||" when not. *)
buildLogicOperation(l, op, r) ==
  LET tmp   == r.ctx.temp
      over  == freeTemp(l.pos) \o r.ops \o <<Op("NEW_INT", <<tmp, IF op = "&&" THEN -1 ELSE 0>>)>>
      after == freeTemp(r.pos)
      A     == Op(IF op = "&&" THEN "JZ" ELSE "JNZ", <<Len(over) + Len(after) + 2, l.pos>>)
      B     == Op(IF op = "&&" THEN "JNZ" ELSE "JZ", <<Len(after) + 2, r.pos>>)
      last  == Op("NEW_INT", <<tmp, IF op = "&&" THEN 0 ELSE -1>>)
  IN IF ProviderOf(r.ctx.var[l.pos]) # ProviderOf(r.ctx.var[r.pos]) THEN Error(r.ctx)
     ELSE Built(l.ops \o <<A>> \o over \o <<B>> \o after \o <<last>>, tmp, newTemp(r.ctx, i32))

buildPrefixOperator(op, x) ==
  LET tmp == x.ctx.temp
      Out(ops, type) == Built(x.ops \o ops \o freeTemp(x.pos), tmp, newTemp(x.ctx, type))
  IN CASE op = "+" -> x
       [] op = "-" -> Out(<<Op("NEW_INT", <<tmp, 0>>), Op("SUB", <<tmp, tmp, x.pos>>)>>,
                          x.ctx.var[x.pos])
       [] op = "!" -> Out(<<Op("JZ", <<3, x.pos>>), Op("NEW_INT", <<tmp, -1>>),
                            Op("JMP", <<2, x.pos>>), Op("NEW_INT", <<tmp, 0>>)>>, i32)
       [] op = "~" -> Out(<<Op("BNOT", <<tmp, x.pos>>)>>, x.ctx.var[x.pos])

(* An impossible cast is an error and is made all the same. *)
buildCastOperator(t, x) ==
  LET type == getType(x.ctx, t)
      bad  == IF is_castable(type, x.ctx.var[x.pos]) THEN 0 ELSE 1
  IN Built(x.ops \o <<Op("CAST", <<x.ctx.temp, x.pos>>)>> \o freeTemp(x.pos), x.ctx.temp,
           [newTemp(x.ctx, type) EXCEPT !.errors = @ + bad])

----------------------------------------------------------------------------
(* Expressions. *)

RECURSIVE buildExpression(_, _)

(* Values of several expressions, left to right. *)
buildExpressions(ctx, es) ==
  LET Joined(xs, x) == Built(xs.ops \o x.ops, Append(xs.pos, x.pos), x.ctx) IN
  FoldLeft(LAMBDA acc, e : Joined(acc, buildExpression(acc.ctx, e)), Built(<<>>, <<>>, ctx), es)

Voids(xs) == -1 \in {xs.pos[i] : i \in DOMAIN xs.pos}

(* Attributes: a text, or a variable that an expression is evaluated to. *)
getAttributeList(ctx, at) ==
  LET keys == SetToSeq(DOMAIN at.exprs)
      Attributes(xs) ==
        [ops |-> xs.ops, ctx |-> xs.ctx, at |-> at.text,
         av  |-> [k \in DOMAIN at.exprs |-> xs.pos[CHOOSE i \in DOMAIN keys : keys[i] = k]]]
  IN Attributes(buildExpressions(ctx, [i \in DOMAIN keys |-> at.exprs[keys[i]]]))

buildNewObject(ctx, type, e, a) ==
  LET tmp == ctx.temp
      xs  == buildExpressions(newTemp(ctx, type), e.args)
      arg == IF type.k = "array" THEN <<xs.pos[1]>> ELSE <<>>
      t   == CASE type.k = "class" -> "NEW_CLASS" [] type.k = "array" -> "NEW_ARRAY"
               [] type.k = "pipe" -> "NEW_PIPE" [] OTHER -> "NEW_PROMISE"
  IN IF \/ Voids(xs) \/ type.k \notin LinkTypes
        \/ Len(e.args) # (IF type.k = "array" THEN 1 ELSE 0) THEN Error(xs.ctx)
     ELSE Built(xs.ops \o <<OpWith(t, <<tmp>> \o arg, a.at, a.av)>> \o freeAttributeTemps(a.av),
                tmp, xs.ctx)

(* \\ \" \' \n \t \v \e \a \r *)
Escaped == 92 :> 92 @@ 34 :> 34 @@ 39 :> 39 @@ 110 :> 10 @@ 116 :> 9 @@ 118 :> 11
           @@ 101 :> 27 @@ 97 :> 7 @@ 114 :> 13

RECURSIVE Characters(_)
Characters(s) ==
  IF s = <<>> THEN <<0>>
  ELSE IF Head(s) = 92 /\ Len(s) > 1 THEN <<Escaped[s[2]]>> \o Characters(SubSeq(s, 3, Len(s)))
       ELSE <<Head(s)>> \o Characters(Tail(s))

buildNewString(ctx, type, e, a) ==
  LET tmp == ctx.temp
      new == newTemp(ctx, type)
      text == [chars |-> Characters(e.string), size |-> type.base.size]
  IN IF type.k # "array" \/ type.base.k # "scalar" \/ type.base.sign = "F" THEN Error(new)
     ELSE Built(<<OpWith("NEW_STRING", <<tmp, Len(ctx.strings)>>, a.at, a.av)>>
                  \o freeAttributeTemps(a.av), tmp, [new EXCEPT !.strings = Append(@, text)])

(* The code of the attributes is in a list of its own that is not returned. *)
buildNewOperator(ctx, e) ==
  LET a    == getAttributeList(ctx, e.at)
      type == getType(a.ctx, e.type)
  IN IF e.n = "string" THEN buildNewString(a.ctx, type, e, a)
     ELSE buildNewObject(a.ctx, type, e, a)

buildInteger(ctx, v) ==
  Built(<<Op("NEW_INT", <<ctx.temp, v>>)>>, ctx.temp,
        newTemp(ctx, IF ctx.integer64 THEN i64 ELSE getIntegerType(v)))

(* A float is a constant of its bits. *)
buildFloat(ctx, bits) ==
  Built(<<Op("NEW_FLOAT", <<ctx.temp, bits>>)>>, ctx.temp, newTemp(ctx, Scalar("F", 8)))

buildQueryVariable(ctx, name, path) ==
  LET id   == ctx.names[name]
      type == ctx.var[id]
      at   == GetFieldOffset(type, path)
  IN IF name \notin DOMAIN ctx.names THEN Error(ctx)
     ELSE IF type.k = "record"
          THEN Built(<<Op("QUERY_VAR", <<ctx.temp, id, at.offset, at.type>>)>>, ctx.temp,
                     newTemp(ctx, at.type))
          ELSE IF "optimize_query_var" \in ctx.enabled THEN Built(<<>>, id, ctx)
               ELSE Built(<<Op("MOV", <<ctx.temp, id>>)>>, ctx.temp, newTemp(ctx, type))

buildFunctionInputArgumentList(ctx, fn, args) ==
  LET xs == buildExpressions(ctx, SubSeq(args, 1, Len(fn.inputs))) IN
  IF Len(args) # Len(fn.inputs) \/ Voids(xs) THEN [Error(xs.ctx) EXCEPT !.pos = <<>>] ELSE xs

(* "*" is the value of the call, a name declares a variable.  That there are *)
(* too few outputs is not seen.                                              *)
buildFunctionOutputArgumentList(ctx, fn, outs) ==
  LET Add(acc, i) ==
        LET type == fn.outputs[i].type IN
        IF outs[i] = "*" THEN [ctx |-> newTemp(acc.ctx, type), star |-> acc.ctx.temp,
                               pos |-> Append(acc.pos, acc.ctx.temp)]
        ELSE [ctx |-> newVar(acc.ctx, outs[i], type), star |-> acc.star,
              pos |-> Append(acc.pos, acc.ctx.next)]
      stars == {i \in DOMAIN outs : outs[i] = "*"}
  IN IF Len(outs) > Len(fn.outputs) \/ Cardinality(stars) > 1
     THEN [ctx |-> Error(ctx).ctx, star |-> -1, pos |-> <<>>]
     ELSE FoldLeft(Add, [ctx |-> ctx, star |-> -1, pos |-> <<>>], [i \in DOMAIN outs |-> i])

IdOf(ctx, name) == CHOOSE i \in DOMAIN ctx.workers : ctx.workers[i].name = name

(* The arguments of a call are the worker, its inputs and its outputs. *)
CallBuilt(ctx, e, a, ins, outs) ==
  LET id   == IdOf(ctx, e.name)
      fn   == ctx.workers[id]
      prov == IF e.prov = "" THEN ctx.provider ELSE e.prov
      New(p) == CASE outs.ctx.var[p].k = "pipe" -> <<Op("NEW_PIPE", <<p>>)>>
                  [] outs.ctx.var[p].k = "promise" -> <<Op("NEW_PROMISE", <<p>>)>>
                  [] OTHER -> <<>>
      on   == "on" \in DOMAIN fn.at /\ "on" \notin DOMAIN a.at \cup DOMAIN a.av
      at   == "provider" :> prov @@ a.at @@ (IF on THEN "on" :> fn.at["on"] ELSE <<>>)
  IN Built(a.ops \o ins.ops \o FlattenSeq([i \in DOMAIN outs.pos |-> New(outs.pos[i])])
             \o <<OpWith("CALL", <<id>> \o ins.pos \o outs.pos, at, a.av)>>
             \o freeAttributeTemps(a.av) \o freeTemps(ins.pos),
           outs.star, [outs.ctx EXCEPT !.uses = @ \cup {<<id, prov>>}])

buildFunctionCall(ctx, e) ==
  LET fn == ctx.workers[IdOf(ctx, e.name)]
      Outputs(a, ins) == CallBuilt(ctx, e, a, ins, buildFunctionOutputArgumentList(ins.ctx, fn, e.outs))
      Inputs(a) == IF \A i \in DOMAIN ctx.workers : ctx.workers[i].name # e.name THEN Error(a.ctx)
                   ELSE Outputs(a, buildFunctionInputArgumentList(a.ctx, fn, e.args))
  IN Inputs(getAttributeList(ctx, e.at))

buildPrefixQuery(x) ==
  LET type == x.ctx.var[x.pos]
      Out(t, to) == Built(x.ops \o <<Op(t, <<x.ctx.temp, x.pos>>)>> \o freeTemp(x.pos),
                          x.ctx.temp, newTemp(x.ctx, to))
  IN CASE type.k = "array"   -> Out("QUERY_ARRAY", i64)
       [] type.k = "pipe"    -> Out("QUERY_PIPE", type.base)
       [] type.k = "promise" -> Out("QUERY_PROMISE", type.base)
       [] OTHER              -> Error(x.ctx)

(* The code of the attributes comes before that of the object. *)
InfixPath(x, e) ==
  LET type == x.ctx.var[x.pos]
      rest == GetFieldOffset(type.fields[FieldIndex(type, e.path[1])].type, Tail(e.path))
  IN [rest EXCEPT !.offset = @ + FieldOffset(type, e.path[1])]

buildInfixQuery(x, e) ==
  LET a  == getAttributeList(x.ctx, e.at)
      at == InfixPath(x, e)
  IN IF x.ctx.var[x.pos].k # "class" THEN Error(a.ctx)
     ELSE Built(a.ops \o x.ops
                  \o <<OpWith("QUERY_CLASS", <<a.ctx.temp, x.pos, at.offset, at.type>>, a.at, a.av)>>
                  \o freeAttributeTemps(a.av), a.ctx.temp, newTemp(a.ctx, at.type))

IsInteger(type) == type.k = "scalar" /\ type.sign # "F"

buildIndexOperation(xs, e) ==
  LET type == xs.ctx.var[xs.pos[1]]
      at   == GetFieldOffset(type.base, e.path)
  IN IF type.k # "array" \/ ~IsInteger(xs.ctx.var[xs.pos[2]]) THEN Error(xs.ctx)
     ELSE Built(xs.ops \o <<Op("QUERY_INDEX",
                               <<xs.ctx.temp, xs.pos[1], at.offset, at.type, xs.pos[2]>>)>>
                  \o freeTemp(xs.pos[1]) \o freeTemp(xs.pos[2]),
                xs.ctx.temp, newTemp(xs.ctx, at.type))

----------------------------------------------------------------------------
(* "<-": the value of data is stored in each target, left to right.  A target *)
(* of another type that is a pipe or a promise is pushed to.                  *)

CastSilently(ctx, to, from) ==
  is_castable(to, from) /\ (is_convertable(to, from) \/ "implicit_castes" \in ctx.enabled)

(* x: the target as a value.  It is built after the types are compared. *)
PushToPipeOrPromise(ctx, x, type, data) ==
  IF /\ type.k \in {"pipe", "promise"}
     /\ CastSilently(ctx, type.base, ctx.var[data]) /\ x.pos # -1
  THEN Built(x.ops \o <<Op(IF type.k = "pipe" THEN "PUSH_PIPE" ELSE "PUSH_PROMISE", <<x.pos, data>>)>>
               \o freeTemp(x.pos), -1, x.ctx)
  ELSE Error(ctx)

buildSetToSimpleTerm(ctx, e, data) ==
  LET id   == ctx.names[e.name]
      type == ctx.var[id]
      at   == GetFieldOffset(type, e.path)
  IN IF e.n # "var" \/ e.name \notin DOMAIN ctx.names THEN Error(ctx)
     ELSE IF is_castable(at.type, ctx.var[data])
          THEN IF ~CastSilently(ctx, at.type, ctx.var[data]) THEN Error(ctx)
               ELSE Built(IF type.k = "record"
                          THEN <<Op("PUSH_VAR", <<id, at.offset, ctx.var[data], data>>)>>
                          ELSE <<Op("MOV", <<id, data>>)>>, -1, ctx)
          ELSE PushToPipeOrPromise(ctx, buildQueryVariable(ctx, e.name, e.path), at.type, data)

(* A target in braces, or a query: only a pipe or a promise is pushed to. *)
buildSetToExpression(ctx, e, data) ==
  LET x == buildExpression(ctx, e) IN
  IF x.pos = -1 THEN Error(x.ctx)
  ELSE PushToPipeOrPromise(x.ctx, x, x.ctx.var[x.pos], data)

(* The array and the index are built again when their element is pushed to. *)
SetElement(xs, e, data) ==
  LET type == xs.ctx.var[xs.pos[1]]
      at   == GetFieldOffset(type.base, e.path)
      again == buildExpressions(xs.ctx, <<e.of, e.i>>)
  IN IF type.k # "array" \/ ~IsInteger(xs.ctx.var[xs.pos[2]]) THEN Error(xs.ctx)
     ELSE IF is_castable(at.type, xs.ctx.var[data])
          THEN IF ~CastSilently(xs.ctx, at.type, xs.ctx.var[data]) THEN Error(xs.ctx)
               ELSE Built(xs.ops \o <<Op("PUSH_ARRAY", <<xs.pos[1], xs.pos[2], at.offset, at.type, data>>)>>
                            \o freeTemp(xs.pos[1]) \o freeTemp(xs.pos[2]), -1, xs.ctx)
          ELSE PushToPipeOrPromise(again.ctx, buildIndexOperation(again, e), type.base, data)

buildSetToIndex(ctx, e, data) == SetElement(buildExpressions(ctx, <<e.of, e.i>>), e, data)

(* No types are compared for a field of a class. *)
buildSetToQuery(ctx, e, data) ==
  LET x  == buildExpression(ctx, e.of)
      a  == getAttributeList(x.ctx, e.at)
      at == InfixPath(x, e)
  IN IF x.pos = -1 THEN Error(x.ctx)
     ELSE IF x.ctx.var[x.pos].k # "class" THEN Error(a.ctx)
     ELSE Built(a.ops \o x.ops
                  \o <<OpWith("PUSH_CLASS", <<x.pos, at.offset, at.type, data>>, a.at, a.av)>>
                  \o freeAttributeTemps(a.av) \o freeTemp(x.pos), -1, a.ctx)

buildSetTarget(ctx, to, data) ==
  CASE to.n = "var"   -> buildSetToSimpleTerm(ctx, to, data)
    [] to.n = "index" -> buildSetToIndex(ctx, to, data)
    [] to.n = "field" -> buildSetToQuery(ctx, to, data)
    [] to.n \in {"ask", "paren"} -> buildSetToExpression(ctx, to, data)
    [] OTHER -> Error(ctx)

buildSetOperation(ctx, e) ==
  LET Set(data) ==
        LET Then(acc, r) == Built(acc.ops \o r.ops, acc.pos, r.ctx) IN
        IF data.pos = -1 THEN Error(data.ctx)
        ELSE FoldLeft(LAMBDA acc, to : Then(acc, buildSetTarget(acc.ctx, to, data.pos)), data, e.to)
  IN Set(buildExpression(ctx, e.of))

Link(rule, l, op, r) ==
  IF l.pos = -1 \/ r.pos = -1 THEN Error(r.ctx)
  ELSE CASE rule = "LogicOperation"   -> buildLogicOperation(l, op, r)
         [] rule = "CompareOperation" -> buildCompareOperation(l, op, r)
         [] OTHER                     -> buildArithmetic(l, op, r)

Unless(x, y) == IF x.pos = -1 THEN Error(x.ctx) ELSE y

buildExpression(ctx, e) ==
  CASE e.n = "int"    -> buildInteger(ctx, e.v)
    [] e.n = "float"  -> buildFloat(ctx, e.bits)
    [] e.n = "var"    -> buildQueryVariable(ctx, e.name, e.path)
    [] e.n = "paren"  -> buildExpression(ctx, e.of)
    [] e.n = "call"   -> buildFunctionCall(ctx, e)
    [] e.n \in {"new", "string"} -> buildNewOperator(ctx, e)
    [] e.n = "chain"  -> FoldLeft(LAMBDA l, x : Link(e.rule, l, x[1], buildExpression(l.ctx, x[2])),
                                  buildExpression(ctx, e.first), e.rest)
    [] e.n = "prefix" -> LET x == buildExpression(ctx, e.of) IN Unless(x, buildPrefixOperator(e.op, x))
    [] e.n = "cast"   -> LET x == buildExpression(ctx, e.of) IN Unless(x, buildCastOperator(e.type, x))
    [] e.n = "ask"    -> LET x == buildExpression(ctx, e.of) IN Unless(x, buildPrefixQuery(x))
    [] e.n = "field"  -> LET x == buildExpression(ctx, e.of) IN Unless(x, buildInfixQuery(x, e))
    [] e.n = "index"  -> LET xs == buildExpressions(ctx, <<e.of, e.i>>) IN
                         IF Voids(xs) THEN Error(xs.ctx) ELSE buildIndexOperation(xs, e)
    [] e.n = "set"    -> buildSetOperation(ctx, e)

----------------------------------------------------------------------------
(* Statements: what they leave in pos is not used. *)

RECURSIVE buildStatement(_, _)

buildCodeBlock(ctx, block) ==
  LET Then(acc, x) == Built(acc.ops \o x.ops, -1, x.ctx) IN
  FoldLeft(LAMBDA acc, s : Then(acc, buildStatement(acc.ctx, s)), Built(<<>>, -1, ctx), block)

buildDeclaration(ctx, s) ==
  Built(<<>>, -1, FoldLeft(LAMBDA c, name : newVar(c, name, getType(ctx, s.type)), ctx, s.names))

(* The jump to the guard counts on one operation before the body, the first *)
(* free of the guard's temporary.                                           *)
WhileAround(guard, body) ==
  Built(<<Op("JMP", <<2 + Len(body.ops)>>)>> \o freeTemp(guard.pos) \o body.ops \o guard.ops
          \o <<Op("JNZ", <<-1 - Len(guard.ops) - Len(body.ops), guard.pos>>)>>
          \o freeTemp(guard.pos), -1, body.ctx)

buildWhile(guard, block) ==
  IF guard.pos = -1 THEN Error(guard.ctx) ELSE WhileAround(guard, buildCodeBlock(guard.ctx, block))

(* Every branch is compared, also after one was taken. *)
Branch(acc, match, pattern, block) ==
  LET temp == block.ctx.temp IN
  Built(acc.ops \o pattern.ops \o <<Op("EQ", <<temp, match, pattern.pos>>)>>
          \o freeTemp(pattern.pos) \o <<Op("JZ", <<2 + Len(block.ops), temp>>)>>
          \o freeTemp(temp) \o block.ops \o freeTemp(temp),
        -1, newTemp(block.ctx, i32))

BranchUnlessVoid(acc, match, pattern, block) ==
  IF pattern.pos = -1 THEN Built(acc.ops, -1, Error(pattern.ctx).ctx)
  ELSE Branch(acc, match, pattern, buildCodeBlock(pattern.ctx, block))

Branches(match, cases) ==
  FoldLeft(LAMBDA acc, c : BranchUnlessVoid(acc, match.pos, buildExpression(acc.ctx, c[1]), c[2]),
           match, cases)

buildMatch(match, cases) ==
  LET Freed(all) == Built(all.ops \o freeTemp(match.pos), -1, all.ctx) IN
  IF match.pos = -1 THEN Error(match.ctx) ELSE Freed(Branches(match, cases))

Discarded(x) == Built(x.ops \o freeTemp(x.pos), -1, x.ctx)
buildSleep(x) ==
  Unless(x, Built(x.ops \o <<Op("SLEEP", <<x.pos>>)>> \o freeTemp(x.pos), -1, x.ctx))

buildStatement(ctx, s) ==
  CASE s.s = "decl"  -> buildDeclaration(ctx, s)
    [] s.s = "while" -> buildWhile(buildExpression(ctx, s.guard), s.body)
    [] s.s = "match" -> buildMatch(buildExpression(ctx, s.of), s.cases)
    [] s.s = "expr"  -> Discarded(buildExpression(ctx, s.of))
    [] s.s = "sleep" -> buildSleep(buildExpression(ctx, s.of))

----------------------------------------------------------------------------
(* Workers and programs. *)

readWorkerArgList(ctx, args) ==
  [i \in DOMAIN args |-> [name |-> args[i].name, type |-> getType(ctx, args[i].type)]]

NoContent == [entry |-> NULL, code |-> <<>>, b |-> <<>>, var |-> <<>>, temp |-> 0]

addWorkerDefinition(ctx, g) ==
  [ctx EXCEPT !.workers = Append(@,
     [name |-> g.name, at |-> g.at, inputs |-> readWorkerArgList(ctx, g.inputs),
      outputs |-> readWorkerArgList(ctx, g.outputs), body |-> FALSE, c |-> NoContent,
      uses |-> IF "entry" \in DOMAIN g.at THEN {"x64"} ELSE {}])]

(* Inputs and outputs are variables that the worker loads first.  Once the   *)
(* operations are blocks the jumps that only lead on are taken out.          *)
ContentOf(var, temp, b) ==
  LET c == [entry |-> 1, code |-> [i \in DOMAIN b |-> i], b |-> b, var |-> var, temp |-> temp]
  IN FoldLeft(removeOp, c, SelectSeq(c.code, LAMBDA x : b[x].t = "JMP"))

buildWorkerContent(ctx, id, body) ==
  LET wk    == ctx.workers[id]
      fresh == [ctx EXCEPT !.var = <<>>, !.names = <<>>, !.next = 0, !.temp = FirstTemp,
                           !.integer64 = "integer64" \in DOMAIN wk.at]
      args  == wk.inputs \o wk.outputs
      n     == Len(wk.inputs)
      decl  == FoldLeft(LAMBDA c, a : newVar(c, a.name, a.type), fresh, args)
      loads == [i \in DOMAIN args |-> IF i <= n THEN Op("LOAD_INPUT", <<i - 1, i - 1>>)
                                      ELSE Op("LOAD_OUTPUT", <<i - n - 1, i - 1>>)]
      Defined(built) ==
        [built.ctx EXCEPT !.workers[id].body = TRUE,
           !.workers[id].c = ContentOf(built.ctx.var, built.ctx.temp, OpsToBlocks(loads \o built.ops))]
  IN Defined(buildCodeBlock(decl, body))

initializateContext(enabled) ==
  [var |-> <<>>, names |-> <<>>, next |-> 0, temp |-> FirstTemp, types |-> BuiltinTypes,
   workers |-> <<>>, provider |-> "", enabled |-> enabled, integer64 |-> FALSE,
   strings |-> <<>>, uses |-> {}, errors |-> 0]

BuildGlobal(ctx, g) ==
  CASE g.g = "using"  -> [ctx EXCEPT !.provider = g.name]
    [] g.g = "worker" -> buildWorkerContent(ctx, IdOf(ctx, g.name), g.body)
    [] OTHER          -> ctx

(* All declarations first, then the bodies. *)
buildAst(program, enabled) ==
  LET Declare(ctx, g) ==
        CASE g.g = "using" -> [ctx EXCEPT !.provider = g.name]
          [] g.g \in {"record", "union", "class"} -> registerStructure(ctx, g)
          [] g.g \in {"worker", "worker_decl"} -> addWorkerDefinition(ctx, g)
      declared == [FoldLeft(Declare, initializateContext(enabled), program) EXCEPT !.provider = ""]
      Build(ctx) ==
        [workers |-> [i \in DOMAIN ctx.workers |->
                        [ctx.workers[i] EXCEPT !.uses = @ \cup {u[2] : u \in {v \in ctx.uses : v[1] = i}}]],
         strings |-> ctx.strings, errors |-> ctx.errors]
  IN Build(FoldLeft(BuildGlobal, declared, program))
============================================================================
