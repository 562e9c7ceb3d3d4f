-------------------------------- MODULE Ir --------------------------------
(* The intermediate code of the compiler: types, operations, the variables *)
(* an operation reads and writes (src/ir/lookups.cpp), the graph of        *)
(* operation blocks a worker consists of, and the edits the optimizer and  *)
(* the register allocator make to it (src/optimization/common.cpp).        *)
(*                                                                         *)
(* An operation is [t, d, at, av]: its OperationType without OP_, its data *)
(* and its attributes, those with a text value in at and those whose value *)
(* is a variable in av.  A block is an operation with next and prev, blocks*)
(* are named by their place in b, and 0 is the null pointer.               *)
EXTENDS Integers, Sequences, FiniteSets, TLC
LOCAL INSTANCE SequencesExt

CONSTANTS FirstTemp,   \* FIRST_TEMP_ID
          Base         \* values of one digit: 1, 2, 4 and 8 bytes are 1 to 4 digits

NULL == 0

----------------------------------------------------------------------------
(* Types: struct TypeContext.  A type made twice is one object in the code *)
(* (typeTable, getDerivative), so pointers are compared by value here.     *)

Scalar(sign, size)      == [k |-> "scalar", sign |-> sign, size |-> size]
Derivative(k, type, p)  == [k |-> k, base |-> type, prov |-> p, size |-> 8]

LinkTypes == {"class", "array", "pipe", "promise"}

FieldsSize(type) == FoldLeft(LAMBDA n, f : n + f.type.size, 0, type.fields)

(* Provider of a type: only link types have one. *)
ProviderOf(type) == IF type.k \in LinkTypes THEN type.prov ELSE ""

(* is_convertable: nothing is lost from "from" to "to". *)
is_convertable(to, from) ==
  \/ to = from
  \/ /\ to.k = "scalar" /\ from.k = "scalar"
     /\ \/ to.sign = from.sign /\ to.size >= from.size
        \/ to.sign = "I" /\ from.sign = "U" /\ to.size > from.size
        \/ to.sign = "F" /\ from.sign # "F" /\ to.size = 8 /\ from.size <= 4

is_castable(to, from) ==
  \/ to = from
  \/ to.k = from.k /\ to.k \in {"scalar", "class"}
  \/ /\ to.k = from.k /\ to.size = from.size
     /\ IF to.k \in {"record", "union"} THEN to.fields = from.fields ELSE to.base = from.base

(* The type of a binary operation, or the set is empty. *)
operation_types(s, t) ==
  IF s = t THEN {s}
  ELSE IF s.k = "scalar" /\ t.k = "scalar" /\ s.sign = t.sign
       THEN {IF s.size > t.size THEN s ELSE t} ELSE {}

----------------------------------------------------------------------------
(* Operations. *)

Op(t, d) == [t |-> t, d |-> d, at |-> <<>>, av |-> <<>>]
OpWith(t, d, at, av) == [t |-> t, d |-> d, at |-> at, av |-> av]

Jumps == {"JMP", "JZ", "JNZ"}

FirstOnly == {"STORE", "STORE_INPUT", "LOAD", "NEW_CLASS", "NEW_STRING", "NEW_INT", "NEW_FLOAT"}

(* The places of an operation's data that name variables. *)
Names(op) ==
  CASE op.t \in {"LOAD_INPUT", "LOAD_OUTPUT"} -> {2}
    [] op.t \in {"PUSH_VAR", "PUSH_CLASS"}    -> {1, Len(op.d)}
    [] op.t \in {"QUERY_VAR", "QUERY_CLASS"}  -> {1, 2}
    [] op.t \in {"PUSH_ARRAY", "QUERY_INDEX"} -> {1, 2, Len(op.d)}
    [] op.t = "CALL"                          -> 2 .. Len(op.d)
    [] op.t \in FirstOnly                     -> {1}
    [] OTHER                                  -> DOMAIN op.d

Vars(op, places) == {op.d[i] : i \in places} \cup {op.av[k] : k \in DOMAIN op.av}

getUsedVariables(op) == Vars(op, Names(op))

getWritedVariables(op) ==
  CASE op.t \in {"LOAD_INPUT", "LOAD_OUTPUT"} -> {op.d[2]}
    [] op.t \in {"CALL", "FREE_TEMP", "SLEEP", "PUSH_PIPE", "PUSH_PROMISE", "PUSH_CLASS",
                 "PUSH_ARRAY", "STORE", "STORE_INPUT"} \cup Jumps -> {}
    [] OTHER -> {op.d[1]}

getReadVariables(op) ==
  Vars(op, CASE op.t \in {"JMP", "LOAD_INPUT", "LOAD_OUTPUT", "LOAD", "NEW_CLASS", "NEW_INT",
                          "NEW_FLOAT", "NEW_STRING", "NEW_PIPE", "NEW_PROMISE"} -> {}
             [] op.t \in {"PUSH_PIPE", "PUSH_PROMISE", "PUSH_CLASS"} -> {1, Len(op.d)}
             [] op.t = "PUSH_VAR"                      -> {Len(op.d)}
             [] op.t \in {"QUERY_VAR", "QUERY_CLASS"}  -> {2}
             [] op.t = "PUSH_ARRAY"                    -> {1, 2, Len(op.d)}
             [] op.t = "QUERY_INDEX"                   -> {2, Len(op.d)}
             [] op.t \in {"JZ", "JNZ", "SLEEP", "STORE", "STORE_INPUT"} -> {1}
             [] OTHER                                  -> 2 .. Len(op.d))

(* The operation with every variable of f's domain renamed. *)
applyNamesTranslition(op, f) ==
  LET T(x) == IF x \in DOMAIN f THEN f[x] ELSE x IN
  [op EXCEPT !.d  = [i \in DOMAIN @ |-> IF i \in Names(op) THEN T(@[i]) ELSE @[i]],
             !.av = [k \in DOMAIN @ |-> T(@[k])]]

----------------------------------------------------------------------------
(* A worker's content: entry, code (the vector of its blocks), b (every    *)
(* block ever made), var (the type of each variable) and temp, the next    *)
(* temporary.                                                              *)

Block(op, next, prev) == [t |-> op.t, d |-> op.d, at |-> op.at, av |-> op.av,
                          next |-> next, prev |-> prev]

(* The sequence f, element by element: TLC evaluates a function anew where it *)
(* is applied, and a sequence once.                                           *)
Listed(f) == SubSeq(f, 1, Len(f))

(* The elements of a set, each after those that come before it. *)
InOrder(set, Before(_, _)) ==
  Listed([i \in 1 .. Cardinality(set) |->
            CHOOSE x \in set : Cardinality({y \in set : Before(y, x)}) = i - 1])
Ascending(set) == InOrder(set, LAMBDA x, y : x < y)

(* A jump's first datum is a distance while code is a sequence of operations; *)
(* it becomes an edge, and an edge past the end is the null pointer.          *)
OpsToBlocks(ops) ==
  LET n == Len(ops)
      At(i) == IF i > n THEN NULL ELSE i
      Next(i) == CASE ops[i].t = "JMP"  -> <<At(i + ops[i].d[1])>>
                   [] ops[i].t \in {"JZ", "JNZ"} -> <<At(i + 1), At(i + ops[i].d[1])>>
                   [] OTHER -> <<At(i + 1)>>
      Data(i) == IF ops[i].t \in Jumps THEN Tail(ops[i].d) ELSE ops[i].d
  IN Listed([i \in 1 .. n |-> Block([ops[i] EXCEPT !.d = Data(i)], Next(i),
                                    {j \in 1 .. n : \E k \in DOMAIN Next(j) : Next(j)[k] = i})])

newTemp(c, type) == [c EXCEPT !.var = (c.temp :> type) @@ @, !.temp = @ + 1]

(* Broken: what the edge led to keeps the block it came from. *)
ConnectKeepingPrev(c, code, k, op) ==
  LET id == Len(c.b) + 1
      to == c.b[code].next[k]
      b  == [Append(c.b, Block(op, <<to>>, {code})) EXCEPT ![code].next[k] = id]
  IN [c EXCEPT !.code = Append(@, id),
               !.b = IF to = NULL THEN b ELSE [b EXCEPT ![to].prev = @ \cup {id}]]

(* connectOp and connectOpSecond: a new block on the k-th edge of "code". *)
ConnectOn(c, code, k, op) ==
  LET id == Len(c.b) + 1
      to == c.b[code].next[k]
      b  == [Append(c.b, Block(op, <<to>>, {code})) EXCEPT ![code].next[k] = id]
  IN [c EXCEPT !.code = Append(@, id),
               !.b = IF to = NULL THEN b ELSE [b EXCEPT ![to].prev = (@ \ {code}) \cup {id}]]

connectOp(c, code, op) == ConnectOn(c, code, 1, op)

connectOpSecond(c, code, op) == ConnectOn(c, code, 2, op)

(* Edges that lead to x lead to y. *)
Redirected(next, x, y) == Listed([k \in DOMAIN next |-> IF next[k] = x THEN y ELSE next[k]])

connectBeforeOp(c, code, op) ==
  LET id   == Len(c.b) + 1
      from == {p \in c.b[code].prev : \E k \in DOMAIN c.b[p].next : c.b[p].next[k] = code}
      b == FoldLeft(LAMBDA bb, p : [bb EXCEPT ![p].next = Redirected(@, code, id)],
                    c.b, Ascending(from))
  IN [c EXCEPT !.entry = IF @ = code THEN id ELSE @, !.code = Append(@, id),
               !.b = Append([b EXCEPT ![code].prev = {id}], Block(op, <<code>>, from))]

(* The edge of "code" that is followed when it is taken out is its first. *)
removeOp(c, code) ==
  LET to    == c.b[code].next[1]
      preds == c.b[code].prev
      nexts == {c.b[code].next[k] : k \in DOMAIN c.b[code].next} \ {NULL}
      aimed == FoldLeft(LAMBDA b, p : [b EXCEPT ![p].next = Redirected(@, code, to)],
                        c.b, Ascending(preds))
      joined == IF to = NULL THEN aimed ELSE [aimed EXCEPT ![to].prev = @ \cup preds]
      b == FoldLeft(LAMBDA bb, x : [bb EXCEPT ![x].prev = @ \ {code}], joined, Ascending(nexts))
  IN [c EXCEPT !.entry = IF @ = code THEN to ELSE @,
               !.code = SelectSeq(@, LAMBDA x : x # code), !.b = b]

----------------------------------------------------------------------------
(* Arithmetic of a value that takes size bytes. *)

Digits(size) == CASE size = 1 -> 1 [] size = 2 -> 2 [] size = 4 -> 3 [] OTHER -> 4
Mod(size)    == Base ^ Digits(size)
Signed(v, size) == LET n == v % Mod(size) IN IF n >= Mod(size) \div 2 THEN n - Mod(size) ELSE n
Read(v, type) == IF type.k = "scalar" /\ type.sign = "I" THEN Signed(v, type.size)
                 ELSE v % Mod(type.size)

(* Division rounds to zero. *)
Quot(a, b) == LET q == (IF a < 0 THEN -a ELSE a) \div (IF b < 0 THEN -b ELSE b) IN
              IF (a < 0) # (b < 0) THEN -q ELSE q
Truth(p) == IF p THEN -1 ELSE 0

(* The value of a binary operation on integers, before it is cut to size. *)
Arith(t, a, b) ==
  CASE t = "ADD" -> a + b [] t = "SUB" -> a - b [] t = "MUL" -> a * b
    [] t = "DIV" -> Quot(a, b) [] t = "MOD" -> a - b * Quot(a, b)
    [] t = "SHL" -> a * 2 ^ b
    [] t = "EQ" -> Truth(a = b) [] t = "NE" -> Truth(a # b)
    [] t = "LT" -> Truth(a < b) [] t = "LE" -> Truth(a <= b)
    [] t = "GT" -> Truth(a > b) [] t = "GE" -> Truth(a >= b)
============================================================================
