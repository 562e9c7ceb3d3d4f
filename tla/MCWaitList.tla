----------------------------- MODULE MCWaitList -----------------------------
(* Instances of WaitList: THRESHOLD is 1, so that one resumed worker makes   *)
(* the updater put the rest of its chain back.                               *)
EXTENDS WaitList
=============================================================================
