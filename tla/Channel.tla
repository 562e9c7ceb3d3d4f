------------------------------- MODULE Channel -------------------------------
(***************************************************************************)
(* What a pair of hives gets from a socket: the messages that one end sent *)
(* are handled by the other end once, in their order, and none is made up. *)
(* Some may never arrive.                                                  *)
(***************************************************************************)
EXTENDS Naturals, Sequences

CONSTANTS Sockets, Msgs

VARIABLES sent,    \* sent[s]: messages put into socket s
          handled  \* handled[s]: messages taken out and handled

Init == sent = [s \in Sockets |-> <<>>] /\ handled = [s \in Sockets |-> <<>>]

\* One socket, or several in a flood, get a message.
SendAll(S, m) ==
    /\ sent' = [s \in Sockets |-> IF s \in S THEN Append(sent[s], m) ELSE sent[s]]
    /\ UNCHANGED handled

Handle(s) ==
    /\ Len(handled[s]) < Len(sent[s])
    /\ handled' = [handled EXCEPT ![s] = Append(@, sent[s][Len(@) + 1])]
    /\ UNCHANGED sent

Next ==
    \/ \E S \in SUBSET Sockets, m \in Msgs : SendAll(S, m)
    \/ \E s \in Sockets : Handle(s)

Spec == Init /\ [][Next]_<<sent, handled>>
=============================================================================
