---------------------------- MODULE MCTaskQueue ----------------------------
(* Small instances of TaskQueue: more tasks than cells, so that the ring    *)
(* fills and two positions share a cell.                                    *)
EXTENDS TaskQueue, TLC

Symm == Permutations(Threads) \cup Permutations(Tasks)
=============================================================================
