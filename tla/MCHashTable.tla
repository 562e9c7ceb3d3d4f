---------------------------- MODULE MCHashTable ----------------------------
(* Three ids that fall on the last cell of the first table, so that every   *)
(* probe collides and wraps around; two tables, the first of four cells.    *)
EXTENDS HashTable, TLC

CONSTANTS a, b, c

Collide == [k \in Keys |-> 3]
=============================================================================
