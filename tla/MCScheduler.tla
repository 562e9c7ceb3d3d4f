---------------------------- MODULE MCScheduler ----------------------------
(* Two scheduler threads and a network thread, a task with affinity and one  *)
(* without.                                                                 *)
EXTENDS Scheduler, TLC

CONSTANTS s1, s2, n1, a, b

Ring2     == (s1 :> s2) @@ (s2 :> s1)
Affinity2 == (a :> s1) @@ (b :> None)
=============================================================================
