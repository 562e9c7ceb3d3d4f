------------------------------ MODULE Compiler ------------------------------
(* The compiler from a program to the executable, src/main/main.cpp, pass   *)
(* by pass, and what the program does when it is run: as intermediate code  *)
(* before and after the optimizer, and as the machine code that the         *)
(* runtime loads.  All three must return what the program means.            *)
(*                                                                          *)
(* Left open are the addresses of the workers (a map over pointers gives    *)
(* the order in which they are optimized and laid out) and rand().          *)
EXTENDS Machine, Parsing, Source
O == INSTANCE Optimizer
LOCAL INSTANCE SequencesExt

CONSTANTS Programs,       \* the programs, by name
          Enabled,        \* options of the command line
          Seeds,          \* what rand() may start with
          maxOptimizableIterations

VARIABLES program,   \* its name
          stage,     \* what comes next
          build,     \* the workers and the strings
          order,     \* the workers in the order of their addresses
          seed,      \* the next rand()
          work,      \* the worker that is being generated
          asm,       \* the assembler
          image,     \* header and code, and what was loaded of them
          run        \* the tasks and the objects
vars == <<program, stage, build, order, seed, work, asm, image, run>>

None == [none |-> TRUE]

Bodies_ == {w \in DOMAIN build.workers : build.workers[w].body}
EntryOf(b) == CHOOSE w \in DOMAIN b.workers : "entry" \in DOMAIN b.workers[w].at

Init ==
  /\ program \in DOMAIN Programs /\ stage = "parsed"
  /\ build = None /\ order = <<>> /\ seed = 0
  /\ work = None /\ asm = None /\ image = None /\ run = None

(* buildAst: the workers with their blocks. *)
Build ==
  /\ stage = "parsed" /\ stage' = "built"
  /\ build' = buildAst(Programs[program], Enabled)
  /\ UNCHANGED <<program, order, seed, work, asm, image, run>>

----------------------------------------------------------------------------
(* Optimize: its passes in turn. *)

Orders == LET n == Len(build.workers) IN {[i \in 1 .. n |-> i], [i \in 1 .. n |-> n + 1 - i]}

Inline ==
  /\ stage = "built" /\ stage' = "inlined"
  /\ order' \in Orders
  /\ build' = O!Inlined(build, order')
  /\ UNCHANGED <<program, seed, work, asm, image, run>>

Pass(from, to, after) ==
  /\ stage = from /\ stage' = to
  /\ build' = after
  /\ UNCHANGED <<program, order, seed, work, asm, image, run>>

CompressPromise ==
  Pass("inlined", "compressed",
       O!OverBodies(build, [w \in Bodies_ |-> O!CompressPromise(build.workers[w].c)]))
StripUnusedInstructions ==
  Pass("compressed", "stripped",
       O!OverBodies(build, [w \in Bodies_ |-> O!StripUnusedInstructions(build.workers[w].c)]))
StripUnusedFunctions == Pass("stripped", "optimized", O!StripUnusedFunctions(build))

----------------------------------------------------------------------------
(* The generators: the entry's header, the dll workers, the x64 workers one *)
(* by one and their header.  work.left are the workers to come.             *)

Generate ==
  /\ stage = "optimized" /\ stage' = "next worker"
  /\ seed' \in Seeds
  /\ LET entry == WriteEntryHeader(build, SelectSeq(order, LAMBDA w : w \in DOMAIN build.workers))
         dll   == DllHeader(build, entry.ids)
     IN /\ asm'   = NewAssembler(build.workers, dll.ids)
        /\ image' = [header |-> entry.header \o dll.header, code |-> <<>>]
        /\ work'  = [left |-> SelectSeq(order, LAMBDA w : w \in DOMAIN build.workers
                                                          /\ "x64" \in build.workers[w].uses)]
  /\ UNCHANGED <<program, build, order, run>>

(* BuildFn, until the registers are to be spread. *)
NextWorker ==
  /\ stage = "next worker" /\ work.left # <<>>
  /\ LET w == Head(work.left) IN
     IF build.workers[w].body
     THEN /\ stage' = "spread"
          /\ work' = [left |-> Tail(work.left), w |-> w, iter |-> 1, generated |-> {},
                      c |-> ExpandCallInstructions(build.workers, build.workers[w].c)]
     ELSE /\ stage' = stage /\ work' = [left |-> Tail(work.left)]
  /\ UNCHANGED <<program, build, order, seed, asm, image, run>>

(* The rest of BuildFn, when every variable has a register. *)
Spread_ ==
  /\ stage = "spread"
  /\ LET try == trySpreadRegisters(Overlaps(work.c), seed) IN
     /\ try.ok /\ seed' = try.seed
     /\ asm' = BuildFn(asm, work.w, work.c, try.color, spreadMemory(work.c, try.seed))
  /\ stage' = "next worker" /\ work' = [left |-> work.left]
  /\ UNCHANGED <<program, build, order, image, run>>

(* Some variables go to memory, after many attempts all; with none the      *)
(* compiler gives up.                                                       *)
SplitVariables ==
  /\ stage = "spread"
  /\ LET overlaps   == Overlaps(work.c)
         try        == trySpreadRegisters(overlaps, seed)
         candidates == DOMAIN overlaps \ work.generated
         some       == Chosen(candidates, SplitCount(candidates), try.seed)
         others     == candidates \ {some[i] : i \in DOMAIN some}
         all        == some \o (IF work.iter > maxOptimizableIterations
                                THEN Ascending(others) ELSE <<>>)
         c          == FoldLeft(SplitVariable, work.c, all)
     IN /\ ~try.ok
        /\ seed' = Rand(try.seed)
        /\ stage' = IF candidates = {} THEN "no variables" ELSE stage
        /\ work' = [work EXCEPT !.c = c, !.iter = @ + 1,
                                !.generated = @ \cup work.c.temp .. c.temp - 1]
  /\ UNCHANGED <<program, build, order, asm, image, run>>

Export ==
  /\ stage = "next worker" /\ work.left = <<>> /\ stage' = "exported"
  /\ image' = [header |-> image.header \o X64Header(asm, build.strings), code |-> asm.code]
  /\ work' = None /\ asm' = None /\ build' = None
  /\ UNCHANGED <<program, order, seed, run>>

----------------------------------------------------------------------------
(* The runtime, and the runs. *)

Load ==
  /\ stage = "exported" /\ stage' = "loaded"
  /\ image' = LoadWorker(image.header, image.code)
  /\ UNCHANGED <<program, build, order, seed, work, asm, run>>

StartMachine ==
  /\ stage = "loaded" /\ stage' = "running"
  /\ run' = MachineStart(image)
  /\ UNCHANGED <<program, build, order, seed, work, asm, image>>

RunMachine ==
  /\ stage = "running" /\ run' \in MachineNext(image, run)
  /\ UNCHANGED <<program, stage, build, order, seed, work, asm, image>>

StartIr ==
  /\ stage \in {"built", "optimized"} /\ stage' = "interpreting"
  /\ run' = IrStart(build, EntryOf(build))
  /\ UNCHANGED <<program, build, order, seed, work, asm, image>>

RunIr ==
  /\ stage = "interpreting" /\ run' \in IrNext(build, run)
  /\ UNCHANGED <<program, stage, build, order, seed, work, asm, image>>

Over ==
  \/ stage = "interpreting" /\ \A i \in DOMAIN run.tasks : run.tasks[i].at = NULL
  \/ stage = "running" /\ \A i \in DOMAIN run.tasks : run.tasks[i].at = Unset

Next ==
  \/ Build \/ Inline \/ CompressPromise \/ StripUnusedInstructions \/ StripUnusedFunctions
  \/ Generate \/ NextWorker \/ Spread_ \/ SplitVariables \/ Export
  \/ Load \/ StartMachine \/ RunMachine \/ StartIr \/ RunIr

(* The compiler is one thread that goes on until it ends, and the tasks of  *)
(* a program are run as long as one of them can go on.  The fairness is     *)
(* WF_vars(Next) with what enables Next written out.                        *)
CanGoOn ==
  CASE stage = "running"      -> MachineNext(image, run) # {}
    [] stage = "interpreting" -> IrNext(build, run) # {}
    [] OTHER                  -> stage # "no variables"

Spec == Init /\ [][Next]_vars /\ ([]<>~CanGoOn \/ []<><<Next>>_vars)

----------------------------------------------------------------------------
(* A program returns what its source means, whichever way it is run: as it  *)
(* was translated (buildAst), after the passes of Optimize, and as machine  *)
(* code, for any order of the workers and any registers (SpreadRegisters).  *)
ReturnsMeaning ==
  Over => Returned(run) = Meaning(Tree(Programs[program], BuiltinTypes, Foreign))

(* The edges of the blocks agree in both directions: every pass that adds,  *)
(* takes out or copies a block (connectOp, connectBeforeOp, removeOp,       *)
(* InsertFunctionR) leaves prev the inverse of next over the code.          *)
Content == IF "c" \in DOMAIN work THEN {work.c}
           ELSE IF "workers" \in DOMAIN build THEN {build.workers[w].c : w \in Bodies_} ELSE {}

EdgesMatch ==
  \A c \in Content : \A x \in Code(c) :
     /\ Nexts(c, x) \subseteq Code(c)
     /\ \A y \in Code(c) : y \in Nexts(c, x) <=> x \in c.b[y].prev

(* The loaded code is one piece (InsertJumpInstructions, printJMP): every   *)
(* instruction ends where another starts, every jump leads to an instruction *)
(* and its distance fits it, every worker starts at one, and no call of the runtime was left without    *)
(* its address (LoadWorker).                                                *)
CodeIsWhole ==
  stage = "loaded" =>
    LET starts == DOMAIN image.code
        After_(a) == a + image.code[a].len
        ends   == {After_(a) : a \in starts}
    IN /\ Cardinality(ends \ starts) = 1
       /\ \A a \in starts : /\ image.code[a].i \in Jumps =>
                                 /\ After_(a) + image.code[a].v \in starts
                                 /\ image.code[a].len = 2 => Byte(image.code[a].v)
                            /\ image.code[a].i = "CALL" => image.code[a].v # Unset
       /\ \A id \in DOMAIN image.workers :
            image.workers[id].prov = "x64" => image.workers[id].at \in starts

(* The compiler never gives up on a worker, and every run comes to its end: *)
(* splitting variables leads to a colouring (spreadRegisters), and no task  *)
(* waits for a promise that nobody sets.                                    *)
Ends == <>Over
=============================================================================
