--------------------------- MODULE MCPromiseWait ---------------------------
(* Instances of PromiseWait: several awaiting workers, two pushes racing     *)
(* with two idle threads; and the smallest instances of its divergences.     *)
EXTENDS PromiseWait, TLC

Symm == Permutations(Waiters) \cup Permutations(Updaters) \cup Permutations(Pushers)
=============================================================================
