--------------------------- MODULE MCRemoteObject ---------------------------
(* Three hives that are all connected, the object at O. *)
EXTENDS RemoteObject, TLC
CONSTANTS A, R, O, a1, a2, r1, r2, o1

MCHiveOf == a1 :> A @@ a2 :> A @@ r1 :> R @@ r2 :> R @@ o1 :> O
MCLinks == {<<A, R>>, <<R, A>>, <<R, O>>, <<O, R>>, <<A, O>>, <<O, A>>}

\* R knows the owner, and A may reach it through R.
Known == [h \in Hives |-> IF h = A THEN [via |-> R, dist |-> 2]
                          ELSE IF h = R THEN [via |-> O, dist |-> 1] ELSE NoPath]
Half == [Known EXCEPT ![A] = NoPath]
Do(p) == [w \in Workers |-> IF w \in DOMAIN p THEN p[w] ELSE <<>>]

TwoPushers == [path |-> Known, prog |-> Do(r1 :> <<"set", "get">> @@ r2 :> <<"set">> @@ a1 :> <<"set">>)]

\* The hives know the object, or A looks for it.
MCStarts ==
    {TwoPushers,
     [path |-> Known, prog |-> Do(a1 :> <<"get">> @@ a2 :> <<"get">> @@ r1 :> <<"set", "get">>)],
     [path |-> Known, prog |-> Do(a1 :> <<"set", "get">> @@ o1 :> <<"set", "get">>)],
     [path |-> Half, prog |-> Do(a1 :> <<"set">>)]}
MCPushers == {TwoPushers}
=============================================================================
