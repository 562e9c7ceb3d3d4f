---------------------------- MODULE MCBroadcast ----------------------------
(* Instances of Broadcast: three hives, two of them connected, that close a *)
(* cycle while they ask; and a hive with two neighbours.                    *)
EXTENDS Broadcast, TLC

CONSTANTS h1, h2, h3, i1, p1

Side == {{h2, h3}}
Star == {{h1, h2}, {h1, h3}}
NoPair == {}

\* Random numbers of 63 or 40 bits: no two are equal.
Distinct == [b \in Broadcasts |-> b]
=============================================================================
