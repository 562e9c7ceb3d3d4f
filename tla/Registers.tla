----------------------------- MODULE Registers -----------------------------
(* Which variable is in which register: the live ranges and the conflicts  *)
(* between them (src/analysis), the colouring with its splits into memory   *)
(* (src/codegen/registerAllocator.hpp) and the memory of what was split     *)
(* (memoryAllocator.cpp).                                                   *)
(*                                                                          *)
(* rand() is a sequence of numbers: seed is the number it returns next and  *)
(* Rand(seed) the one after it.                                             *)
EXTENDS Ir
LOCAL INSTANCE SequencesExt
LOCAL INSTANCE FiniteSetsExt

CONSTANTS RegisterCount,   \* registersCount
          Rand(_)

ASSUME RegisterCountAssumption == RegisterCount \in Nat \ {0, 1}

Code(c) == {c.code[i] : i \in DOMAIN c.code}
Nexts(c, x) == {c.b[x].next[k] : k \in DOMAIN c.b[x].next} \ {NULL}
Frees(c, x, v) == c.b[x].t = "FREE_TEMP" /\ c.b[x].d[1] = v

(* What is reached over the edges, a set for each operation. *)
RECURSIVE Spread(_, _, _)
Spread(from, all, edges) ==
  LET next == UNION {edges[x] : x \in from} \ all IN
  IF next = {} THEN all ELSE Spread(next, all \cup next, edges)

(* updateCanFrom, updateCanTo: the operations from which a use of v is led  *)
(* to, and which lead to one, with no release of v between.                 *)
Live(c, v) ==
  LET uses  == {x \in Code(c) : v \in getUsedVariables(c.b[x]) /\ ~Frees(c, x, v)}
      back  == [x \in Code(c) |-> {y \in c.b[x].prev : ~Frees(c, y, v)}]
      forth == [x \in Code(c) |-> {y \in Nexts(c, x) : ~Frees(c, y, v)}]
  IN Spread(uses, uses, forth) \cap Spread(uses, uses, back)

RECURSIVE FreedAfter(_, _)
FreedAfter(c, x) ==
  IF x = NULL THEN {}
  ELSE IF c.b[x].t # "FREE_TEMP" THEN {}
  ELSE {c.b[x].d[1]} \cup FreedAfter(c, c.b[x].next[1])

(* v is written where w is read for the last time: both fit one register. *)
Replaces(c, x, v, w) ==
  /\ getWritedVariables(c.b[x]) = {v}
  /\ w \in getReadVariables(c.b[x])
  /\ Len(c.b[x].next) = 1
  /\ w \in FreedAfter(c, c.b[x].next[1])

(* buildMainConflictGraph: with each variable those it may not share with. *)
Overlaps(c) ==
  LET vars == UNION {getUsedVariables(c.b[x]) : x \in Code(c)}
      live == [v \in vars |-> Live(c, v)] @@ <<>>
      Clash(v, w) == \E x \in live[v] \cap live[w] :
                       ~Replaces(c, x, v, w) /\ ~Replaces(c, x, w, v)
  IN [v \in {u \in vars : live[u] # {}} |-> {w \in vars \ {v} : Clash(v, w)}] @@ <<>>

(* Variables with most neighbours first, each any of the free colours. *)
trySpreadRegisters(overlaps, seed) ==
  LET Before(v, w) == LET m == Cardinality(overlaps[v])
                          n == Cardinality(overlaps[w])
                      IN m > n \/ (m = n /\ v < w)
      Color(acc, v) ==
        LET free == (0 .. RegisterCount - 1) \
                      {acc.color[w] : w \in overlaps[v] \cap DOMAIN acc.color}
            nth  == Ascending(free)[1 + (acc.seed % Cardinality(free))]
        IN IF ~acc.ok \/ free = {} THEN [acc EXCEPT !.ok = FALSE]
           ELSE [acc EXCEPT !.color = (v :> nth) @@ @, !.seed = Rand(@)]
  IN FoldLeft(Color, [ok |-> TRUE, color |-> <<>>, seed |-> seed],
              InOrder(DOMAIN overlaps, Before))

(* Broken: the temporaries are not given back. *)
SplitKeeping(c, v) ==
  LET Around(cc, x) ==
        LET op   == cc.b[x]
            t    == cc.temp
            made == newTemp(cc, cc.var[v])
            read == IF v \in getReadVariables(op)
                    THEN connectBeforeOp(made, x, Op("LOAD", <<t, v>>)) ELSE made
            all  == IF v \in getWritedVariables(op)
                    THEN connectOp(read, x, Op("STORE", <<t, v>>)) ELSE read
        IN [all EXCEPT !.b[x] = applyNamesTranslition(@, v :> t)]
  IN FoldLeft(Around, c, SelectSeq(c.code, LAMBDA x : v \in getUsedVariables(c.b[x])))

(* SplitVariable: around every operation that uses v it has a temporary of  *)
(* its own, loaded from memory when it is read and stored when written.     *)
SplitVariable(c, v) ==
  LET Around(cc, x) ==
        LET op    == cc.b[x]
            t     == cc.temp
            made  == newTemp(cc, cc.var[v])
            read  == IF v \in getReadVariables(op)
                     THEN connectBeforeOp(made, x, Op("LOAD", <<t, v>>)) ELSE made
            freed == connectOp(read, x, Op("FREE_TEMP", <<t>>))
            both  == IF op.t \in Jumps THEN connectOpSecond(freed, x, Op("FREE_TEMP", <<t>>)) ELSE freed
            all   == IF v \in getWritedVariables(op)
                     THEN connectOp(both, x, Op("STORE", <<t, v>>)) ELSE both
        IN [all EXCEPT !.b[x] = applyNamesTranslition(@, v :> t)]
  IN FoldLeft(Around, c, SelectSeq(c.code, LAMBDA x : v \in getUsedVariables(c.b[x])))

(* Variables to split when there is no colour for one: their cost is left    *)
(* open, and those made by a split are not split again.                      *)
SplitCount(candidates) == Max({1, (Cardinality(candidates) \div 4) - RegisterCount})

RECURSIVE Chosen(_, _, _)
Chosen(set, n, seed) ==
  IF n = 0 \/ set = {} THEN <<>>
  ELSE LET v == Ascending(set)[1 + (seed % Cardinality(set))] IN
       <<v>> \o Chosen(set \ {v}, n - 1, Rand(seed))

----------------------------------------------------------------------------
(* Allocate: the first bytes that are free and aligned to the variable's size. *)
Allocate(c, vs) ==
  LET Place(acc, v) ==
        LET size == c.var[v].size
            Free(p) == \A w \in DOMAIN acc.at : p + size <= acc.at[w] \/ acc.at[w] + c.var[w].size <= p
            at == Min({p \in 0 .. acc.used + size : p % size = 0 /\ Free(p)})
        IN [used |-> Max({acc.used, at + size}), at |-> (v :> at) @@ acc.at]
  IN FoldLeft(Place, [used |-> 0, at |-> <<>>], vs)

(* spreadMemory: a shuffled order is taken when it needs less. *)
spreadMemory(c, seed) ==
  LET vars == {c.b[x].d[2] : x \in {y \in Code(c) : c.b[y].t \in {"LOAD", "STORE"}}}
      sorted == Allocate(c, Ascending(vars))
      mixed  == Allocate(c, Chosen(vars, Cardinality(vars), seed))
  IN IF mixed.used < sorted.used THEN mixed.at ELSE sorted.at
============================================================================
