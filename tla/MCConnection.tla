---------------------------- MODULE MCConnection ----------------------------
(* Two hives. *)
EXTENDS Connection, TLC

\* One hive connects, with every fault; or both do at once.
MCBudgets == {[initiates |-> 1, floods |-> 1, breaks |-> 1, cuts |-> 2],
              [initiates |-> 1, floods |-> 2, breaks |-> 0, cuts |-> 0],
              [initiates |-> 2, floods |-> 0, breaks |-> 0, cuts |-> 0]}
=============================================================================
