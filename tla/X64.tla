-------------------------------- MODULE X64 --------------------------------
(* The x64 code generator, src/codegen/x64_win: how long each instruction   *)
(* is, the instructions of each operation, the order of a worker's          *)
(* operations with the jumps between them, and the lengths of those jumps.  *)
(*                                                                          *)
(* A register is <<code, size>>.  An instruction is [i, d, s, m, v, len]:   *)
(* its name, its registers, its address, its constant and its bytes.  e is  *)
(* the assembler: fn the worker it is at, color and mem the places of fn's  *)
(* variables, code what is emitted and end where, and the tables of         *)
(* addresses, jumps and calls of the runtime.                               *)
EXTENDS Registers
LOCAL INSTANCE SequencesExt
LOCAL INSTANCE FiniteSetsExt

RAX == <<0, 8>>
RCX == <<1, 8>>
RDX == <<2, 8>>
RBP == <<5, 8>>
RSI == <<6, 8>>
RDI == <<7, 8>>
registers == <<3, 8, 9, 10, 11, 12, 13, 14, 15>>

B(p)    == IF p THEN 1 ELSE 0
Byte(v) == v \in -128 .. 127
Rex(r)  == r[1] >= 8 \/ r[2] = 8 \/ (r[2] = 1 /\ r[1] >= 4)

Ins(i, d, s, len) == [i |-> i, d |-> d, s |-> s, m |-> <<>>, v |-> 0, len |-> len]

printZ(i) == Ins(i, RAX, RAX, 2)

Conditions == {"SETE", "SETNE", "SETL", "SETLE", "SETG", "SETGE", "SETB", "SETBE", "SETA", "SETAE"}

printR(i, d) == Ins(i, d, d, B(d[2] = 2) + B(Rex(d)) + (IF i \in Conditions THEN 3 ELSE 2))

(* From two bytes the prefix is always 66: without a 64-bit destination it  *)
(* makes the destination 16 bits.  From four, zero-extension is a move.     *)
printRR(i, d, s) ==
  LET rex == B(Rex(d) \/ Rex(s)) IN
  IF i \notin {"MOVZX", "MOVSX"}
  THEN Ins(i, d, s, IF i = "IMUL" THEN B(d[2] <= 2) + rex + 3 ELSE B(d[2] = 2) + rex + 2)
  ELSE CASE s[2] = 1 -> Ins(i, d, s, B(d[2] = 2) + rex + 3)
         [] s[2] = 2 -> Ins(i, IF d[2] = 4 THEN <<d[1], 2>> ELSE d, s, 1 + rex + 3)
         [] i = "MOVSX" -> Ins(i, d, s, 3)
         [] OTHER -> Ins("MOV", <<d[1], 4>>, s, B(Rex(<<d[1], 4>>) \/ Rex(s)) + 2)

Displacement(base, off) ==
  IF off = 0 /\ base[1] % 8 # 5 THEN 0 ELSE IF Byte(off) THEN 1 ELSE 4

(* [base + off] *)
Memory(i, r, base, off) ==
  [Ins(i, r, r, B(r[2] = 2) + B(Rex(r) \/ base[1] >= 8) + 2 + B(base[1] % 8 = 4)
                + Displacement(base, off))
     EXCEPT !.m = <<base[1], 0, base[1], off>>]

printRM(r, base, off) == Memory("LOAD", r, base, off)
printMR(base, r, off) == Memory("STORE", r, base, off)

(* [base + n * index + off] *)
Indexed(i, r, base, n, index, off) ==
  [Ins(i, r, r, B(r[2] = 2) + B(Rex(r) \/ base[1] >= 8 \/ index[1] >= 8) + 3
                + Displacement(base, off))
     EXCEPT !.m = <<base[1], n, index[1], off>>]

printRRCRC(r, base, n, index, off) == Indexed("LOAD", r, base, n, index, off)
printRCRCR(base, n, index, off, r) == Indexed("STORE", r, base, n, index, off)

(* MOV keeps the constant of the shortest form; ADD always takes one byte. *)
printRC(i, d, v) ==
  LET r == IF d[2] = 8 /\ v \in 0 .. Mod(4) - 1 THEN <<d[1], 4>> ELSE d
      short == r[2] = 8 /\ v = Signed(v, 4)
  IN IF i = "ADD" THEN [Ins("ADDC", d, d, B(d[2] = 2) + B(Rex(d)) + 3)
                          EXCEPT !.v = ((v + 128) % 256) - 128]
     ELSE [Ins("MOVC", r, r, IF short THEN 7 ELSE B(r[2] = 2) + B(Rex(r)) + 1 + r[2])
             EXCEPT !.v = v]

(* A constant of more than a byte is written with eight bytes.  The         *)
(* instruction has four, or two: the zeros behind it are add [rax], al.     *)
printRRC(d, s, v) ==
  LET prefix == B(s[2] = 2) + B(Rex(d) \/ Rex(s))
      taken  == IF s[2] = 2 THEN 2 ELSE 4
      Product(len) == [Ins("IMULC", d, s, prefix + len) EXCEPT !.v = v]
  IN IF Byte(v) THEN <<Product(3)>>
     ELSE <<Product(2 + taken)>>
            \o [k \in 1 .. (8 - taken) \div 2 |-> [Ins("ADDM", <<0, 1>>, <<0, 1>>, 2) EXCEPT !.m = <<0, 0, 0, 0>>]]

(* W is set whatever the size: the operation is on 64 bits. *)
printRRR(i, d, s, by) == [Ins(i, <<d[1], 8>>, s, 5) EXCEPT !.m = <<by[1], 0, by[1], 0>>]

(* mov rax, address; call rax.  The address is the loader's to fill in. *)
printCALL(id) == [Ins("CALL", RAX, RAX, 12) EXCEPT !.v = id]
Unset == -1
printRET == Ins("RET", RAX, RAX, 1)

----------------------------------------------------------------------------
(* Instruction sequences, helpers.cpp. *)

InsertMove(d, s, signed) ==
  IF d[2] <= s[2] THEN IF d[1] = s[1] THEN <<>> ELSE <<printRR("MOV", d, <<s[1], d[2]>>)>>
  ELSE <<printRR(IF signed THEN "MOVSX" ELSE "MOVZX", d, s)>>

InsertInteger(d, v) == IF v = 0 THEN <<printRR("XOR", d, d)>> ELSE <<printRC("MOV", d, v)>>

ExternTo64Bit(r, signed) ==
  IF r[2] = 8 \/ (r[2] = 4 /\ ~signed) THEN <<>>
  ELSE <<printRR(IF signed THEN "MOVSX" ELSE "MOVZX", <<r[1], 8>>, r)>>

(* memTable gives 0 for what has no place in memory. *)
MemTable(e, x) == IF x \in DOMAIN e.mem THEN e.mem[x] ELSE 0
Type_(e, x)    == e.fn.c.var[x]
Whole(e, x)    == <<registers[e.color[x] + 1], 8>>
Register(e, x) == <<registers[e.color[x] + 1], Type_(e, x).size>>
isSigned(e, x) == Type_(e, x).k = "scalar" /\ Type_(e, x).sign = "I"
isApiScalar(e, x) == Type_(e, x).k \notin {"record", "union"}

MoveVar(e, d, s) == InsertMove(Register(e, d), Register(e, s), isSigned(e, d))

TypesSize(args) == FoldLeft(LAMBDA n, a : n + a.type.size, 0, args)
GetInputOffset(fn, id)  == TypesSize(SubSeq(fn.inputs, 1, id))
GetOutputOffset(fn, id) == TypesSize(fn.inputs) + TypesSize(SubSeq(fn.outputs, 1, id))
GetWorkerInputTableSize(fn) == TypesSize(fn.inputs \o fn.outputs)

GetHeaderId(action, provider) ==
  CASE action = "sleep" -> 50
    [] action = "cast"  -> 10
    [] action = "push pipe"  -> IF provider = "x64" THEN 8 ELSE 28
    [] action = "query pipe" -> IF provider = "x64" THEN 9 ELSE 29
    [] action = "new"   -> (CASE provider = "x64" -> 2 [] provider = "gpu" -> 22 [] provider = "loc" -> 42)
    [] action = "push"  -> IF provider = "x64" THEN 0 ELSE 20
    [] action = "query" -> IF provider = "x64" THEN 1 ELSE 21
    [] action = "call"  -> (CASE provider = "x64" -> 3 [] provider = "gpu" -> 23 [] provider = "dll" -> 33)

RuntimeCall(action, provider) == <<printCALL(GetHeaderId(action, provider))>>

----------------------------------------------------------------------------
(* The instructions of an operation, operation.cpp. *)

Extern(e, x) == ExternTo64Bit(Register(e, x), isSigned(e, x))

(* index * element size + offset, in rdx *)
ElementOffset(e, x, size, off) ==
  Extern(e, x) \o printRRC(RDX, Whole(e, x), size)
    \o (IF off = 0 THEN <<>> ELSE <<printRC("ADD", RDX, off)>>)

(* The runtime takes a negative size for a value in a register. *)
Push(e, o, x, Offset, action) ==
  InsertInteger(RCX, IF isApiScalar(e, x) THEN -Type_(e, x).size ELSE Type_(e, x).size)
    \o Offset \o InsertMove(RDI, Register(e, o), FALSE)
    \o (IF isApiScalar(e, x) THEN InsertMove(RSI, Register(e, x), FALSE)
        ELSE InsertInteger(RSI, MemTable(e, x)))
    \o RuntimeCall(action, Type_(e, o).prov)

(* source holds the object, or for a record what the code takes for it. *)
Query(e, x, o, Offset, source, action) ==
  InsertInteger(RCX, IF isApiScalar(e, x) THEN -Type_(e, x).size ELSE Type_(e, x).size)
    \o Offset
    \o (IF isApiScalar(e, x)
        THEN InsertMove(RSI, Register(e, o), FALSE) \o RuntimeCall(action, Type_(e, o).prov)
               \o InsertMove(Register(e, x), RDI, FALSE)
        ELSE InsertInteger(RDI, MemTable(e, x)) \o InsertMove(RSI, Register(e, source), FALSE)
               \o RuntimeCall(action, Type_(e, o).prov))

Create(e, x, kind, Sizes) ==
  InsertInteger(RDI, kind) \o Sizes \o RuntimeCall("new", Type_(e, x).prov)
    \o InsertMove(Register(e, x), RDI, FALSE)

OneElement(size) == InsertInteger(RSI, size) \o InsertMove(RDX, RSI, FALSE)

Creation(e, op) ==
  LET x == op.d[1]
      base == Type_(e, x).base
  IN CASE op.t = "NEW_STRING" ->
            Create(e, x, 5, InsertInteger(RSI, op.d[2]) \o InsertInteger(RDX, base.size))
       [] op.t = "NEW_ARRAY" ->
            Create(e, x, 3, Extern(e, op.d[2])
                              \o printRRC(RSI, Whole(e, op.d[2]), base.size)
                              \o InsertInteger(RDX, base.size))
       [] op.t = "NEW_PROMISE" -> Create(e, x, 2, OneElement(base.size))
       [] op.t = "NEW_CLASS"   -> Create(e, x, 4, OneElement(FieldsSize(Type_(e, x))))
       [] op.t = "NEW_PIPE"    -> Create(e, x, 1, OneElement(base.size))

(* An element of a local array: its address is in an instruction's reach    *)
(* when the size of the elements is a scale.                                *)
LocalElement(e, i, size) ==
  IF size \in {1, 2, 4, 8} THEN [code |-> Extern(e, i), scale |-> size, index |-> Whole(e, i)]
  ELSE [code |-> Extern(e, i) \o printRRC(RDX, Whole(e, i), size), scale |-> 1, index |-> RDX]

Storing(e, op) ==
  LET o == op.d[1]
      x == op.d[Len(op.d)]
      local == Type_(e, o).prov = "loc"
      size  == Type_(e, o).base.size
      Element(at) == Append(at.code, printRCRCR(Register(e, o), at.scale, at.index, op.d[3],
                                                Register(e, x)))
  IN CASE op.t = "PUSH_PIPE"    -> Push(e, o, x, InsertInteger(RDX, 0), "push pipe")
       [] op.t = "PUSH_PROMISE" -> Push(e, o, x, InsertInteger(RDX, 0), "push")
       [] op.t = "PUSH_CLASS"   ->
            IF local THEN <<printMR(Register(e, o), Register(e, x), op.d[2])>>
            ELSE Push(e, o, x, InsertInteger(RDX, op.d[2]), "push")
       [] op.t = "PUSH_ARRAY"   ->
            IF local THEN Element(LocalElement(e, op.d[2], size))
            ELSE Push(e, o, x, ElementOffset(e, op.d[2], size, op.d[3]), "push")

Loading(e, op) ==
  LET x == op.d[1]
      o == op.d[2]
      local == Type_(e, o).prov = "loc"
      size  == Type_(e, o).base.size
      Element(at) == Append(at.code, printRRCRC(Register(e, x), Register(e, o), at.scale, at.index,
                                                op.d[3]))
  IN CASE op.t = "QUERY_PIPE"    -> Query(e, x, o, InsertInteger(RDX, 0), o, "query pipe")
       [] op.t = "QUERY_PROMISE" -> Query(e, x, o, InsertInteger(RDX, 0), o, "query")
       [] op.t = "QUERY_ARRAY"   ->
            IF local THEN <<printRM(Register(e, x), Register(e, o), -16)>>
            ELSE Query(e, x, o, InsertInteger(RDX, -16), o, "query")
       [] op.t = "QUERY_CLASS"   ->
            IF local THEN <<printRM(Register(e, x), Register(e, o), op.d[3])>>
            ELSE Query(e, x, o, InsertInteger(RDX, op.d[3]), o, "query")
       [] op.t = "QUERY_INDEX"   ->
            IF local THEN Element(LocalElement(e, op.d[5], size))
            ELSE Query(e, x, o, ElementOffset(e, op.d[5], size, op.d[3]), op.d[5], "query")

(* GetExportWorkerId: a worker's number for a provider is given on first use. *)
ExportIds(ids, w, provider) ==
  IF \E i \in DOMAIN ids : ids[i] = <<w, provider>> THEN ids ELSE Append(ids, <<w, provider>>)
GetExportWorkerId(ids, w, provider) == (CHOOSE i \in DOMAIN ids : ids[i] = <<w, provider>>) - 1

(* rdi is where the call is to run, rsi its table below the frame. *)
Calling(e, op) ==
  InsertInteger(RDX, GetExportWorkerId(e.exports, op.d[1], op.at["provider"]))
    \o InsertMove(RSI, RBP, FALSE)
    \o (IF "on" \in DOMAIN op.av THEN InsertMove(RDI, Register(e, op.av["on"]), FALSE)
        ELSE InsertInteger(RDI, IF "on" \notin DOMAIN op.at THEN 0
                                ELSE CASE op.at["on"] = "local" -> 1 [] op.at["on"] = "remote" -> 2))
    \o <<printRC("ADD", RSI, -GetWorkerInputTableSize(e.workers[op.d[1]]))>>
    \o RuntimeCall("call", op.at["provider"])

KindId(type) == CASE type.k = "pipe" -> 1 [] type.k = "promise" -> 2 [] type.k = "array" -> 3
                  [] type.k = "class" -> 4 [] OTHER -> 0
ProviderId(p) == CASE p = "x64" -> 0 [] p = "gpu" -> 1 [] p = "dll" -> 2 [] p = "loc" -> 3 [] OTHER -> -1

Casting(e, d, s) ==
  LET to   == Type_(e, d)
      from == Type_(e, s)
      size == CASE from.k \in {"promise", "array", "pipe"} -> from.base.size
                [] from.k = "class" -> FieldsSize(from) [] OTHER -> 0
  IN IF (to.k = "scalar") # (from.k = "scalar") \/ ProviderOf(to) = ProviderOf(from)
     THEN MoveVar(e, d, s)
     ELSE InsertMove(RDI, Register(e, s), FALSE)
            \o InsertInteger(RSI, ProviderId(ProviderOf(to)) + 256 * KindId(to))
            \o InsertInteger(RDX, ProviderId(ProviderOf(from)) + 256 * KindId(from))
            \o InsertInteger(RCX, size) \o RuntimeCall("cast", "")
            \o InsertMove(Register(e, d), RDI, FALSE)

Native == "ADD" :> "ADD" @@ "MUL" :> "IMUL" @@ "BOR" :> "OR" @@ "BAND" :> "AND" @@ "BXOR" :> "XOR"

ABEL_BINOP(e, i, d, a, b) ==
  IF e.color[d] = e.color[b] THEN <<printRR(i, Register(e, b), Register(e, a))>>
  ELSE MoveVar(e, d, a) \o <<printRR(i, Register(e, d), Register(e, b))>>

(* Broken: the result of the comparison is cleared in a way that sets flags. *)
ClearingFlags(e, when, above, d, a, b) ==
  <<printRR("CMP", Register(e, a), Register(e, b))>> \o InsertInteger(Register(e, d), 0)
    \o <<printR(IF isSigned(e, d) THEN when ELSE above, <<Register(e, d)[1], 1>>),
         printR("NEG", Register(e, d))>>

(* The sign is that of the result. *)
CMPOP(e, when, above, d, a, b) ==
  <<printRR("CMP", Register(e, a), Register(e, b)), printRC("MOV", Register(e, d), 0),
    printR(IF isSigned(e, d) THEN when ELSE above, <<Register(e, d)[1], 1>>),
    printR("NEG", Register(e, d))>>

Division(e, d, a, b, result) ==
  InsertMove(RAX, Register(e, a), isSigned(e, d))
    \o (IF isSigned(e, d) THEN <<printZ("CQO"), printR("IDIV", Register(e, b))>>
        ELSE <<printRR("XOR", <<2, 4>>, <<2, 4>>), printR("DIV", Register(e, b))>>)
    \o InsertMove(Register(e, d), result, FALSE)

Arithmetic(e, op) ==
  LET d == op.d[1]
      a == op.d[2]
      b == op.d[3]
  IN CASE op.t \in DOMAIN Native -> ABEL_BINOP(e, Native[op.t], d, a, b)
       [] op.t = "SUB" ->
            IF e.color[d] = e.color[b]
            THEN <<printRR("SUB", Register(e, d), Register(e, a)), printR("NEG", Register(e, d))>>
            ELSE MoveVar(e, d, a) \o <<printRR("SUB", Register(e, d), Register(e, b))>>
       [] op.t = "SHL" -> <<printRRR("SHLX", Register(e, d), Register(e, a), Register(e, b))>>
       [] op.t = "SHR" -> <<printRRR("SHRX", Register(e, d), Register(e, a), Register(e, b))>>
       [] op.t = "EQ" -> CMPOP(e, "SETE", "SETE", d, a, b)
       [] op.t = "NE" -> CMPOP(e, "SETNE", "SETNE", d, a, b)
       [] op.t = "LT" -> CMPOP(e, "SETL", "SETB", d, a, b)
       [] op.t = "LE" -> CMPOP(e, "SETLE", "SETBE", d, a, b)
       [] op.t = "GT" -> CMPOP(e, "SETG", "SETA", d, a, b)
       [] op.t = "GE" -> CMPOP(e, "SETGE", "SETAE", d, a, b)
       [] op.t = "DIV" -> Division(e, d, a, b, RAX)
       [] op.t = "MOD" -> Division(e, d, a, b, RDX)

Instructions(e, op) ==
  CASE op.t \in {"JMP", "FREE_TEMP", "NEW_FLOAT"} -> <<>>
    [] op.t \in {"JZ", "JNZ"}   -> <<printRR("TEST", Register(e, op.d[1]), Register(e, op.d[1]))>>
    [] op.t = "LOAD"            -> <<printRM(Register(e, op.d[1]), RBP, MemTable(e, op.d[2]))>>
    [] op.t = "STORE"           -> <<printMR(RBP, Register(e, op.d[1]), MemTable(e, op.d[2]))>>
    [] op.t = "LOAD_INPUT"      -> <<printRM(Register(e, op.d[2]), RDI, GetInputOffset(e.fn, op.d[1]))>>
    [] op.t = "LOAD_OUTPUT"     -> <<printRM(Register(e, op.d[2]), RDI, GetOutputOffset(e.fn, op.d[1]))>>
    [] op.t = "STORE_INPUT"     -> <<printMR(RBP, Register(e, op.d[1]), op.d[2])>>
    [] op.t = "PUSH_VAR"        -> <<printMR(RBP, Register(e, op.d[4]), MemTable(e, op.d[1]) + op.d[2])>>
    [] op.t = "QUERY_VAR"       -> <<printRM(Register(e, op.d[1]), RBP, MemTable(e, op.d[2]) + op.d[3])>>
    [] op.t = "SLEEP"           -> InsertMove(RDI, Register(e, op.d[1]), isSigned(e, op.d[1]))
                                     \o RuntimeCall("sleep", "x64")
    [] op.t = "MOV"             -> MoveVar(e, op.d[1], op.d[2])
    [] op.t = "NEW_INT"         -> InsertInteger(Whole(e, op.d[1]), op.d[2])
    [] op.t = "BNOT"            -> MoveVar(e, op.d[1], op.d[3]) \o <<printR("NOT", Register(e, op.d[1]))>>
    [] op.t = "CALL"            -> Calling(e, op)
    [] op.t = "CAST"            -> Casting(e, op.d[1], op.d[2])
    [] op.t \in {"NEW_STRING", "NEW_ARRAY", "NEW_PROMISE", "NEW_CLASS", "NEW_PIPE"} -> Creation(e, op)
    [] op.t \in {"PUSH_PIPE", "PUSH_PROMISE", "PUSH_CLASS", "PUSH_ARRAY"} -> Storing(e, op)
    [] op.t \in {"QUERY_PIPE", "QUERY_PROMISE", "QUERY_CLASS", "QUERY_ARRAY", "QUERY_INDEX"} ->
         Loading(e, op)
    [] OTHER -> Arithmetic(e, op)

----------------------------------------------------------------------------
(* ExpandCallInstructions: what a call is given is stored in the table below *)
(* the frame, with a cast where the worker takes another type.               *)
ExpandCall(workers, c, call) ==
  LET fn   == workers[c.b[call].d[1]]
      args == fn.inputs \o fn.outputs
      Offset(i) == TypesSize(SubSeq(args, 1, i - 1)) - GetWorkerInputTableSize(fn)
      Give(cc, i) ==
        LET x == c.b[call].d[i + 1]
            t == cc.temp
        IN IF i <= Len(fn.inputs) /\ cc.var[x] # args[i].type
           THEN connectOp(connectBeforeOp(connectBeforeOp(newTemp(cc, args[i].type), call,
                                                          Op("CAST", <<t, x>>)),
                                          call, Op("STORE_INPUT", <<t, Offset(i)>>)),
                          call, Op("FREE_TEMP", <<t>>))
           ELSE connectBeforeOp(cc, call, Op("STORE_INPUT", <<x, Offset(i)>>))
  IN [FoldLeft(Give, c, [i \in DOMAIN args |-> i]) EXCEPT !.b[call].d = <<@[1]>>]

ExpandCallInstructions(workers, c) ==
  FoldLeft(LAMBDA cc, call : ExpandCall(workers, cc, call), c,
           SelectSeq(c.code, LAMBDA x : c.b[x].t = "CALL"))

----------------------------------------------------------------------------
(* BuildOperation: the next operation of the stack.  One that was built is  *)
(* jumped to; the order tells apart what stands at the same address.        *)
Emit(e, ins, order) ==
  LET At(i) == e.end + FoldLeft(LAMBDA n, x : n + x.len, 0, SubSeq(ins, 1, i - 1))
      calls == SelectSeq([i \in DOMAIN ins |-> i], LAMBDA i : ins[i].i = "CALL")
      Blank(x) == IF x.i = "CALL" THEN [x EXCEPT !.v = Unset] ELSE x
  IN [e EXCEPT !.code = @ \o Listed([i \in DOMAIN ins |-> [at |-> At(i), ins |-> Blank(ins[i])]]),
               !.api  = @ \o Listed([k \in DOMAIN calls |-> [id |-> ins[calls[k]].v, order |-> order,
                                                             at |-> At(calls[k]) + 2]]),
               !.end  = At(Len(ins) + 1)]

Jump(i, at, order, to) == [i |-> i, at |-> at, order |-> order, to |-> to]

BuildOperation(e) ==
  LET x  == Head(e.todo)
      op == e.fn.c.b[x]
      order == Cardinality(DOMAIN e.addr)
      known == [e EXCEPT !.todo = op.next \o Tail(@), !.addr = (x :> [at |-> e.end, order |-> order]) @@ @,
                         !.exports = IF op.t = "CALL" THEN ExportIds(@, op.d[1], op.at["provider"]) ELSE @]
      built == Emit(known, Instructions(known, op), order)
  IN IF x = NULL THEN Emit([e EXCEPT !.todo = Tail(@)], <<printRET>>, order)
     ELSE IF x \in DOMAIN e.addr
     THEN [e EXCEPT !.todo = Tail(@), !.jumps = Append(@, Jump("JMP", e.end, order, x))]
     ELSE IF op.t \in {"JZ", "JNZ"}
     THEN [built EXCEPT !.jumps = Append(@, Jump(op.t, built.end, order, op.next[2]))]
     ELSE built

RECURSIVE BuildAll(_)
BuildAll(e) == IF e.todo = <<>> THEN e ELSE BuildAll(BuildOperation(e))

----------------------------------------------------------------------------
(* InsertJumpInstructions: jumps are short until one does not reach. *)

JMPsize(i, offset, long) ==
  IF ~long /\ offset \in -122 .. 127 THEN 2 ELSE IF i = "JMP" THEN 5 ELSE 6

(* Broken: of what is at the address of a jump nothing is moved. *)
AddedBefore(e, long, at, order) ==
  FoldLeft(LAMBDA n, k : LET j == e.jumps[k] IN
             IF j.at < at THEN n + JMPsize(j.i, 0, long[k]) ELSE n,
           0, [k \in DOMAIN e.jumps |-> k])

(* What the jumps at or before a place add to its address. *)
Added(e, long, at, order) ==
  FoldLeft(LAMBDA n, k : LET j == e.jumps[k] IN
             IF j.at < at \/ (j.at = at /\ j.order <= order) THEN n + JMPsize(j.i, 0, long[k]) ELSE n,
           0, [k \in DOMAIN e.jumps |-> k])

(* The place of a null pointer is far from the code. *)
Nowhere == -10000
OpPosition(e, long, x) ==
  IF x = NULL THEN Nowhere ELSE e.addr[x].at + Added(e, long, e.addr[x].at, e.addr[x].order)

CurrentPosition(e, long, k) ==
  e.jumps[k].at + FoldLeft(LAMBDA n, j : n + JMPsize(e.jumps[j].i, 0, long[j]), 0, [j \in 1 .. k - 1 |-> j])

RECURSIVE Variants(_, _)
Variants(e, long) ==
  LET Offset(k) == OpPosition(e, long, e.jumps[k].to) - CurrentPosition(e, long, k)
      need == Listed([k \in DOMAIN long |-> long[k] \/ JMPsize("JMP", Offset(k), FALSE) > 2])
  IN IF need = long THEN long ELSE Variants(e, need)

(* The code, the calls of the runtime and the end move by the jumps before them. *)
InsertJumpInstructions(e) ==
  LET long == Variants(e, [k \in DOMAIN e.jumps |-> FALSE])
      Last_ == Cardinality(DOMAIN e.addr)
      Placed(k) ==
        LET j   == e.jumps[k]
            at  == CurrentPosition(e, long, k)
            len == JMPsize(j.i, 0, long[k])
        IN [at |-> at, ins |-> [Ins(j.i, RAX, RAX, len) EXCEPT !.v = OpPosition(e, long, j.to) - at - len]]
  IN [e EXCEPT !.code = Listed([i \in DOMAIN @ |-> [@[i] EXCEPT !.at = @ + Added(e, long, @, Last_)]])
                          \o Listed([k \in DOMAIN e.jumps |-> Placed(k)]),
               !.api  = Listed([i \in DOMAIN @ |-> [@[i] EXCEPT !.at = @ + Added(e, long, @, e.api[i].order)]]),
               !.end  = @ + Added(e, long, @, Last_)]

(* BuildFn, from the colours of the worker's variables on.  The size of a    *)
(* worker is taken before its jumps are inserted.                            *)
BuildFn(e, w, c, color, memory) ==
  LET fn    == [e.workers[w] EXCEPT !.c = c]
      begun == [e EXCEPT !.fn = fn, !.color = color, !.mem = [x \in DOMAIN memory |-> memory[x] + 8] @@ <<>>,
                         !.jumps = <<>>, !.addr = <<>>, !.todo = <<c.entry>>]
      built == BuildAll(begun)
  IN InsertJumpInstructions(
       [built EXCEPT !.at = (w :> [from |-> e.end, size |-> built.end - e.end]) @@ @])

NewAssembler(workers, ids) ==
  [workers |-> workers, exports |-> ids, fn |-> NULL, color |-> <<>>, mem |-> <<>>, jumps |-> <<>>,
   addr |-> <<>>, todo |-> <<>>, code |-> <<>>, api |-> <<>>, end |-> 0, at |-> <<>>]
============================================================================
