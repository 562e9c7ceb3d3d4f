------------------------------ MODULE Objects ------------------------------
(* The objects of the runtime as compiled workers see them: the calls that *)
(* make an object, store bytes in it and read them, when the object is of  *)
(* this hive (src/runtimes/0.3/common/x64 and loc).  PromiseWait is about  *)
(* how these calls wait; here a call that cannot be served is not enabled. *)
(*                                                                         *)
(* Bytes are kept as cells: the values stored, by offset, with their size. *)
EXTENDS Ir

(* memcpy of size bytes to offset "at": what it overlaps is gone. *)
StoreCell(cells, at, v, size) ==
  LET rest == {x \in DOMAIN cells : x + cells[x].size <= at \/ at + size <= x} IN
  [x \in rest \cup {at} |-> IF x = at THEN [v |-> v % Mod(size), size |-> size] ELSE cells[x]]

(* What was never stored is zero: myMalloc clears. *)
LoadCell(cells, at, size) == IF at \in DOMAIN cells THEN cells[at].v % Mod(size) ELSE 0

OBJECT_PIPE == 1
OBJECT_PROMISE == 2
OBJECT_ARRAY == 3
OBJECT_OBJECT == 4
OBJECT_DEFINED_ARRAY == 5

Object(kind, cells) == [kind |-> kind, cells |-> cells, ready |-> kind # OBJECT_PROMISE]

(* length, 16 bytes before the data *)
Length_(n) == -16 :> [v |-> n, size |-> 8]

RECURSIVE Filled(_, _, _)
Filled(cells, chars, size) ==
  IF chars = <<>> THEN cells
  ELSE Filled(StoreCell(cells, (Len(chars) - 1) * size, chars[Len(chars)], size),
              SubSeq(chars, 1, Len(chars) - 1), size)

(* x64NewObjectUsingPage: strings are the defined_arrays of the image, whose *)
(* element may have another size than the program asks for.                  *)
NewObjectUsingPage(kind, size, param, strings) ==
  CASE kind = OBJECT_ARRAY -> Object(kind, Length_(size \div param))
    [] kind = OBJECT_DEFINED_ARRAY ->
         LET s == strings[size + 1] IN
         Object(OBJECT_ARRAY, Filled(Length_((Len(s.chars) * s.size) \div param), s.chars, s.size))
    [] OTHER -> Object(kind, <<>>)

(* A local object is given by its address, apart from the ids of the others. *)
LocBase == 256
LocSize == 64
LocalObject(id, heap) == id \in DOMAIN heap

(* x64UpdateLocalPush *)
UpdateLocalPush(object, offset, v, size) ==
  [object EXCEPT !.ready = TRUE, !.cells = StoreCell(@, offset, v, size)]

(* x64QueryLocalObject: a promise that is not set gives nothing yet. *)
CanQuery(object) == object.ready
QueryLocalObject(object, offset, size) == LoadCell(object.cells, offset, size)
============================================================================
