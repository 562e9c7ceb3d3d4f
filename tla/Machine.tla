------------------------------ MODULE Machine ------------------------------
(* The executable: what the generators write to it (export.cpp of x64_win   *)
(* and dll_win, src/main/export.cpp), how the runtime loads it (LoadWorker, *)
(* src/runtimes/0.3/common/runtime.c) and the processor and the runtime's   *)
(* calls that run it.  A header item is a record with the number h of its   *)
(* type; code is a function from addresses to instructions.                 *)
EXTENDS X64, IrMeaning
LOCAL INSTANCE SequencesExt
LOCAL INSTANCE FiniteSetsExt

HEADER_DLL_IMPORT    == 4
HEADER_X64_WORKERS   == 16
HEADER_STRINGS_TABLE == 17
HEADER_ENTRY_ID      == 80

Affinity(fn) == IF "affinity" \in DOMAIN fn.at THEN fn.at["affinity"] ELSE -1

(* WriteEntryHeader: without an entry the item has a type and nothing else. *)
WriteEntryHeader(build, order) ==
  LET entries == SelectSeq(order, LAMBDA w : "entry" \in DOMAIN build.workers[w].at)
      ids == FoldLeft(LAMBDA acc, w : ExportIds(acc, w, "x64"), <<>>, entries)
  IN [ids |-> ids,
      header |-> IF entries = <<>> THEN <<>>
                 ELSE <<[h |-> HEADER_ENTRY_ID, id |-> GetExportWorkerId(ids, Last(entries), "x64")]>>]

(* How an argument is passed to a function of a dll. *)
ArgumentKind(type) == CASE type.k = "array" -> 0 [] type.k \in {"promise", "class"} -> 1 [] OTHER -> 2
ArgumentParam(type) == CASE type.k \in {"array", "promise"} -> type.base.size
                         [] type.k = "class" -> FieldsSize(type) [] OTHER -> type.size

(* The dll provider: one item for each worker of it, by id; one with a body  *)
(* is an error there (BuildFn).                                              *)
DllHeader(build, ids) ==
  LET ws == Ascending({w \in DOMAIN build.workers : /\ "dll" \in build.workers[w].uses
                                               /\ ~build.workers[w].body})
      all == FoldLeft(LAMBDA acc, w : ExportIds(acc, w, "dll"), ids, ws)
      Item(w) ==
        LET fn == build.workers[w] IN
        [h |-> HEADER_DLL_IMPORT, id |-> GetExportWorkerId(all, w, "dll"), affinity |-> Affinity(fn),
         out |-> IF fn.outputs = <<>> THEN -1 ELSE fn.outputs[1].type.base.size,
         inputs |-> [i \in DOMAIN fn.inputs |->
                       [type |-> ArgumentKind(fn.inputs[i].type), size |-> fn.inputs[i].type.size,
                        param |-> ArgumentParam(fn.inputs[i].type)]]]
  IN [ids |-> all, header |-> [k \in DOMAIN ws |-> Item(ws[k])]]

(* ExportToFile of x64: the calls of the runtime by type, the workers by id, *)
(* the strings.  A worker's size is taken before its jumps are inserted.     *)
X64Header(e, strings) ==
  LET types == Ascending({e.api[i].id : i \in DOMAIN e.api})
      Calls_(t) == SelectSeq(e.api, LAMBDA a : a.id = t)
      ws  == Ascending(DOMAIN e.at)
      all == FoldLeft(LAMBDA acc, w : ExportIds(acc, w, "x64"), e.exports, ws)
  IN [k \in DOMAIN types |-> [h |-> types[k], at |-> {Calls_(types[k])[i].at : i \in DOMAIN Calls_(types[k])}]]
       \o <<[h |-> HEADER_X64_WORKERS,
             workers |-> [k \in DOMAIN ws |->
               [id |-> GetExportWorkerId(all, ws[k], "x64"), at |-> e.at[ws[k]].from,
                size |-> e.at[ws[k]].size, affinity |-> Affinity(e.workers[ws[k]]),
                table |-> GetWorkerInputTableSize(e.workers[ws[k]])]]],
            [h |-> HEADER_STRINGS_TABLE, strings |-> strings]>>

----------------------------------------------------------------------------
(* LoadWorker. *)

CodeOf(emitted) == [a \in {emitted[i].at : i \in DOMAIN emitted} |->
                      (CHOOSE i \in DOMAIN emitted : emitted[i].at = a)]

(* A call's address stands two bytes after its start. *)
Patch(code, positions, h) ==
  [a \in DOMAIN code |-> IF a + 2 \in positions /\ code[a].i = "CALL" THEN [code[a] EXCEPT !.v = h] ELSE code[a]]

DllTable(item) == 8 + FoldLeft(LAMBDA n, a : n + a.size, 0, item.inputs)

LoadItem(image, item) ==
  CASE item.h = HEADER_ENTRY_ID      -> [image EXCEPT !.entry = item.id]
    [] item.h = HEADER_DLL_IMPORT    ->
         [image EXCEPT !.workers = (item.id :> [prov |-> "dll", at |-> NULL, table |-> DllTable(item),
                                                out |-> item.out]) @@ @]
    [] item.h = HEADER_X64_WORKERS   ->
         [image EXCEPT !.workers = [id \in {item.workers[k].id : k \in DOMAIN item.workers} |->
            LET w == CHOOSE k \in DOMAIN item.workers : item.workers[k].id = id IN
            [prov |-> "x64", at |-> item.workers[w].at, table |-> item.workers[w].table, out |-> -1]] @@ @]
    [] item.h = HEADER_STRINGS_TABLE -> [image EXCEPT !.strings = item.strings]
    [] OTHER                         -> [image EXCEPT !.code = Patch(@, item.at, item.h)]

LoadWorker(header, emitted) ==
  LET raw == CodeOf(emitted) IN
  FoldLeft(LoadItem, [code |-> [a \in DOMAIN raw |-> emitted[raw[a]].ins] @@ <<>>,
                      workers |-> <<>>, strings |-> <<>>, entry |-> Unset], header)

----------------------------------------------------------------------------
(* The processor.  A task is [at, reg, flags, mem]: the address of its next *)
(* instruction, its registers by code, what was compared last and with what *)
(* size, and its frame.                                                     *)

FramePtr == 2048
FrameLow == FramePtr - 256

Reg(task, r) == task.reg[r[1]] % Mod(r[2])
(* Four bytes clear the rest of a register, fewer keep it. *)
SetReg(task, r, v) ==
  LET old  == task.reg[r[1]]
      keep == IF r[2] <= 2 THEN old - (old % Mod(r[2])) ELSE 0
  IN [task EXCEPT !.reg[r[1]] = keep + (v % Mod(r[2]))]

AddressOf(task, m) == (task.reg[m[1]] + m[2] * task.reg[m[3]] + m[4]) % Mod(8)

(* What lies below the frames are the objects of the loc provider. *)
OwnerOf(address) == (address + 16 - LocBase) \div LocSize
InObject(address) == ((address + 16 - LocBase) % LocSize) - 16

MemoryAt(run, task, address, size) ==
  IF address >= FrameLow
  THEN IF address \in DOMAIN task.mem THEN LoadCell(task.mem, address, size) ELSE Garbage
  ELSE LoadCell(run.heap[OwnerOf(address)].cells, InObject(address), size)

Holds(i, flags) ==
  LET a == flags[1]
      b == flags[2]
      s == flags[3]
  IN CASE i \in {"SETE", "JZ"}   -> a = b
       [] i \in {"SETNE", "JNZ"} -> a # b
       [] i = "SETL"  -> Signed(a, s) < Signed(b, s)
       [] i = "SETLE" -> Signed(a, s) <= Signed(b, s)
       [] i = "SETG"  -> Signed(a, s) > Signed(b, s)
       [] i = "SETGE" -> Signed(a, s) >= Signed(b, s)
       [] i = "SETB"  -> a < b
       [] i = "SETBE" -> a <= b
       [] i = "SETA"  -> a > b
       [] i = "SETAE" -> a >= b

(* What an instruction with a result makes of its operands. *)
Result(task, ins) ==
  LET d == Reg(task, ins.d)
      s == Reg(task, ins.s)
      by == task.reg[ins.m[1]] % 64
  IN CASE ins.i \in {"MOV", "MOVZX"} -> s
       [] ins.i = "MOVSX" -> Signed(s, ins.s[2])
       [] ins.i = "MOVC"  -> ins.v
       [] ins.i \in {"ADD"} -> d + s
       [] ins.i = "SUB"   -> d - s
       [] ins.i = "IMUL"  -> d * s
       [] ins.i = "AND"   -> d & s
       [] ins.i = "OR"    -> d | s
       [] ins.i = "XOR"   -> d ^^ s
       [] ins.i = "ADDC"  -> d + ins.v
       [] ins.i = "IMULC" -> s * ins.v
       [] ins.i = "NEG"   -> -d
       [] ins.i = "NOT"   -> -1 - d
       [] ins.i = "SHLX"  -> s * 2 ^ by
       [] ins.i = "SHRX"  -> s \div 2 ^ by
       [] ins.i \in Conditions -> B(Holds(ins.i, task.flags))

SetsFlags == {"ADD", "SUB", "AND", "OR", "XOR", "ADDC", "NEG"}

(* rdx:rax divided by a register of size s. *)
Divided(task, ins) ==
  LET s == ins.s[2]
      n == Reg(task, <<2, s>>) * Mod(s) + Reg(task, <<0, s>>)
      signed == ins.i = "IDIV"
      a == IF signed /\ n >= (Mod(s) * Mod(s)) \div 2 THEN n - Mod(s) * Mod(s) ELSE n
      b == IF signed THEN Signed(Reg(task, ins.s), s) ELSE Reg(task, ins.s)
  IN SetReg(SetReg(task, <<0, s>>, Quot(a, b)), <<2, s>>, a - b * Quot(a, b))

----------------------------------------------------------------------------
(* The calls of the runtime, by the type of their header item.  rbx and r8  *)
(* to r15 survive a call, rdi is what it returns.                           *)

After(task, v) ==
  [task EXCEPT !.reg = [r \in DOMAIN @ |-> CASE r \in {0, 1, 2, 6} -> Garbage [] r = 7 -> v [] OTHER -> @[r]]]

(* x64StartNewLocalWorker: the table is copied below the new frame. *)
NewTask(worker, cells, from) ==
  LET rdi == FramePtr - worker.table
      given == {a \in DOMAIN cells : a >= from /\ a < from + worker.table}
  IN [at |-> worker.at, flags |-> <<0, 0, 8>>,
      reg |-> [r \in 0 .. 15 |-> CASE r = 5 -> FramePtr [] r = 7 -> rdi [] OTHER -> 0],
      mem |-> [a \in {x - from + rdi : x \in given} |-> cells[a + from - rdi]]]

(* Called from task i, which goes on as "task"; none when it has to wait. *)
Service(image, run, i, task, h) ==
  LET rdi == task.reg[7]
      rsi == task.reg[6]
      rdx == task.reg[2]
      offset == Signed(rdx, 8)
      size == -Signed(task.reg[1], 8)
      Go(v) == [run EXCEPT !.tasks[i] = After(task, v)]
      made == [Go(0) EXCEPT !.heap = Append(@, NewObjectUsingPage(rdi, rsi, rdx, image.strings))]
      id   == Len(made.heap)
      worker == image.workers[rdx]
  IN CASE h = 2       -> {[made EXCEPT !.tasks[i] = After(task, id)]}
       [] h = 42      -> {[made EXCEPT !.tasks[i] = After(task, LocBase + LocSize * id)]}
       [] h \in {0, 8} -> {[Go(Garbage) EXCEPT !.heap[rdi] = UpdateLocalPush(@, offset, rsi, size)]}
       [] h \in {1, 9} -> IF CanQuery(run.heap[rsi])
                          THEN {Go(QueryLocalObject(run.heap[rsi], offset, size))} ELSE {}
       [] h \in {3, 33} ->
            IF worker.prov = "x64"
            THEN {[Go(Garbage) EXCEPT !.tasks = Append(@, NewTask(worker, task.mem, rsi))]}
            ELSE {[Go(Garbage) EXCEPT
                     !.heap[LoadCell(task.mem, rsi + worker.table - 8, 8)] =
                        UpdateLocalPush(@, 0, Foreign, worker.out)]}
       [] h = 50 -> {Go(Garbage)}
       [] OTHER -> {}

(* One instruction of task i. *)
MachineStep(image, run, i) ==
  LET task == run.tasks[i]
      ins  == image.code[task.at]
      next == [task EXCEPT !.at = @ + ins.len]
      Go(t) == {[run EXCEPT !.tasks[i] = t]}
      done == SetReg(next, ins.d, Result(task, ins))
      size == ins.d[2]
      address == AddressOf(task, ins.m)
      value == IF ins.i = "ADDM" THEN (MemoryAt(run, task, address, size) + Reg(task, ins.d)) % Mod(size)
               ELSE Reg(task, ins.d)
  IN CASE ins.i = "RET"  -> Go([task EXCEPT !.at = Unset])
       [] ins.i = "CALL" -> Service(image, run, i, next, ins.v)
       [] ins.i = "JMP"  -> Go([next EXCEPT !.at = @ + ins.v])
       [] ins.i \in {"JZ", "JNZ"} ->
            Go(IF Holds(ins.i, task.flags) THEN [next EXCEPT !.at = @ + ins.v] ELSE next)
       [] ins.i = "TEST" -> Go([next EXCEPT !.flags = <<Reg(task, ins.d), 0, size>>])
       [] ins.i = "CMP"  -> Go([next EXCEPT !.flags = <<Reg(task, ins.d), Reg(task, ins.s), size>>])
       [] ins.i = "CQO"  -> Go(SetReg(next, RDX, IF Signed(task.reg[0], 8) < 0 THEN -1 ELSE 0))
       [] ins.i \in {"IDIV", "DIV"} -> Go(Divided(next, ins))
       [] ins.i = "LOAD" -> Go(SetReg(next, ins.d, MemoryAt(run, task, address, size)))
       [] ins.i \in {"STORE", "ADDM"} ->
            IF address >= FrameLow
            THEN Go([next EXCEPT !.mem = StoreCell(@, address, value, size)])
            ELSE {[run EXCEPT !.tasks[i] = next,
                              !.heap[OwnerOf(address)].cells =
                                 StoreCell(@, InObject(address), value, size)]}
       [] ins.i \in SetsFlags ->
            Go([done EXCEPT !.flags = <<Result(task, ins) % Mod(size), 0, size>>])
       [] OTHER -> Go(done)

(* StartInitialProcess gives the entry worker an array and a promise. *)
MachineStart(image) ==
  LET worker == image.workers[image.entry] IN
  [tasks |-> <<NewTask(worker, 0 :> [v |-> 1, size |-> 8] @@ 8 :> [v |-> 2, size |-> 8], 0)>>,
   cur |-> 1, heap |-> FirstObjects]

MachineFree(image, run) ==
  LET Over(i) == run.tasks[i].at = Unset IN
  IF ~Over(run.cur) /\ image.code[run.tasks[run.cur].at].i # "CALL" THEN {run.cur}
  ELSE {i \in DOMAIN run.tasks : ~Over(i)}

MachineNext(image, run) ==
  UNION {{[r EXCEPT !.cur = i] : r \in MachineStep(image, run, i)} : i \in MachineFree(image, run)}
============================================================================
