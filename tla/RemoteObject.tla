---------------------------- MODULE RemoteObject ----------------------------
(***************************************************************************)
(* An object of one hive, read and written by workers of other hives       *)
(* (src/runtimes/0.3/common/remote.c): the requests API_QUERY_OBJECT and   *)
(* API_PUSH_OBJECT and their answers, the lists of those who wait for an   *)
(* answer, the search for a path to the object, and what a broken          *)
(* connection does to all of this.                                         *)
(*                                                                         *)
(* The object is an array: it may be pushed again and again.  Its content  *)
(* is shown by the pushes it has seen.  A channel is what Connection       *)
(* provides: messages arrive once and in order.  The two network threads   *)
(* of a hive serve different connections at a time.  A send is merged with *)
(* the access before it, because a message may be under way for any time.  *)
(***************************************************************************)
EXTENDS Integers, Sequences, FiniteSets

CONSTANTS Hives, Owner,
          Links,              \* pairs of connected hives, in both directions
          Workers, HiveOf,    \* HiveOf[w]: where a worker runs
          INFINITY_DISTANCE,
          Starts,             \* path: entries of object_paths that earlier
                              \* searches left; prog: what each worker will do
          MaxBreaks,          \* bound: how many connections break
          NoPath, Nobody

ASSUME RemoteAssumption ==
    /\ IsFiniteSet(Hives) /\ Owner \in Hives
    /\ Links \subseteq Hives \X Hives
    /\ \A l \in Links : <<l[2], l[1]>> \in Links /\ l[1] # l[2]
    /\ HiveOf \in [Workers -> Hives]
    /\ NoPath \notin [via : Hives, dist : Nat]
    /\ \A s \in Starts : /\ s.path \in [Hives -> {NoPath} \cup [via : Hives, dist : Nat]]
                         /\ s.prog \in [Workers -> Seq({"get", "set"})]
    /\ Workers \cap Hives = {} /\ Nobody \notin Hives \cup (Workers \X Nat)
    /\ INFINITY_DISTANCE \in Nat /\ MaxBreaks \in Nat

LargestOf(S) == CHOOSE n \in S : \A k \in S : k <= n

\* <<w, n>>: the turn of w when it has n things to do.
Turns == UNION {{w} \X DOMAIN s.prog[w] : s \in Starts, w \in Workers}

\* Who runs code: for each turn of a worker the thread that makes its request,
\* which may still do so when the worker goes on elsewhere; and for each
\* connection the network thread that handles its messages.  <<h, g>> serves
\* at h what comes from g.
Agents == Turns \cup Links
At(a) == IF a \in Links THEN a[1] ELSE HiveOf[a[1]]

VARIABLES links,    \* connections that are up
          chan,     \* chan[<<h, g>>]: messages from h under way to g
          path,     \* path[h]: entry of object_paths, or NoPath
          getList,  \* getList[h]: list under the query's key in get_wait_list
          setList,  \* setList[h]: set_wait_list, the workers whose push waits
          writes,   \* the turns whose push is stored, in order
          act,      \* act[a]: what an agent is doing
          waiting,  \* workers that are paused
          prog,     \* prog[w]: what a worker still has to do
          got,      \* got[w]: content that its last get returned
          floor,    \* floor[w]: told of its hive when its get began
          told,     \* told[h]: newest content that an answer told h of
          sources,  \* sources[h]: neighbours whose answers told it
          crashed   \* hives that used a connection which is gone

history == <<floor, told, sources>>
vars == <<links, chan, path, getList, setList, writes, act, waiting, prog, got,
          history, crashed>>

\* A content is the number of pushes that made it.
stored == Len(writes)

\* pc: the next step; op: the request it makes; who: the turn that pushes;
\* then: the request that follows; skip: the connection a search leaves out;
\* dist: the distance of a path that was found.
Rest == [pc |-> "idle", op |-> "get", who |-> Nobody, then |-> "none",
         skip |-> Nobody, dist |-> 0]

Init ==
    /\ links = Links
    /\ chan = [l \in Links |-> <<>>]
    /\ \E s \in Starts : path = s.path /\ prog = s.prog
    /\ getList = [h \in Hives |-> <<>>]
    /\ setList = [h \in Hives |-> {}]
    /\ writes = <<>>
    /\ act = [a \in Agents |-> Rest]
    /\ waiting = {}
    /\ got = [w \in Workers |-> 0]
    /\ floor = [w \in Workers |-> 0]
    /\ told = [h \in Hives |-> 0]
    /\ sources = [h \in Hives |-> {}]
    /\ crashed = {}

Peers(h) == {g \in Hives : <<h, g>> \in links}

\* Broken: a message overtakes those that were sent before it.
SendToFront(c, h, to, m) ==
    [l \in Links |-> IF l[1] = h /\ l[2] \in to THEN <<m>> \o c[l] ELSE c[l]]

\* The messages under way when h has sent m to each hive of a set, and when
\* the first one on l was taken.
SendTo(c, h, to, m) ==
    [l \in Links |-> IF l[1] = h /\ l[2] \in to THEN Append(c[l], m) ELSE c[l]]
Taken(l) == [chan EXCEPT ![<<l[2], l[1]>>] = Tail(@)]

\* AnswerQueryObject, AnswerPushObject: to the hive that asked.
Reply(l, m) == SendTo(Taken(l), l[1], {l[2]}, m)

\* An agent goes on; a request is over.
Goto(a, label) == act' = [act EXCEPT ![a].pc = label]
Finish(a) ==
    act' = [act EXCEPT ![a] =
                IF act[a].then = "none" THEN Rest
                ELSE [act[a] EXCEPT !.pc = "ask", !.op = act[a].then, !.then = "none"]]

\* GetConnectionById finds no connection, and NULL is used: the process of h
\* dies, and its neighbours lose it.
Crash(h) ==
    /\ crashed' = crashed \cup {h}
    /\ links' = {l \in links : h \notin {l[1], l[2]}}
    /\ chan' = [l \in Links |-> IF h \in {l[1], l[2]} THEN <<>> ELSE chan[l]]
    /\ UNCHANGED <<path, getList, setList, writes, act, waiting, prog, got, history>>

---------------------------------------------------------------------------
(* Workers: x64QueryObject, x64PushObject *)

\* The turn that w has come to.
Turn(w) == <<w, Len(prog[w])>>
Runs(w, op) ==
    /\ w \notin waiting /\ HiveOf[w] \notin crashed
    /\ prog[w] # <<>> /\ Head(prog[w]) = op

\* The worker is paused and listed under its key before the request is made.
BeginGet(w) ==
    /\ Runs(w, "get") /\ HiveOf[w] # Owner
    /\ getList' = [getList EXCEPT ![HiveOf[w]] = <<[kind |-> "worker", id |-> w]>> \o @]
    /\ floor' = [floor EXCEPT ![w] = told[HiveOf[w]]]
    /\ act' = [act EXCEPT ![Turn(w)] = [Rest EXCEPT !.pc = "ask", !.op = "get"]]
    /\ waiting' = waiting \cup {w}
    /\ UNCHANGED <<links, chan, path, setList, writes, prog, got, told, sources, crashed>>

\* Broken: the request does not carry what is pushed.
BeginSetEmpty(w) ==
    /\ Runs(w, "set") /\ HiveOf[w] # Owner
    /\ setList' = [setList EXCEPT ![HiveOf[w]] = @ \cup {w}]
    /\ act' = [act EXCEPT ![Turn(w)] = [Rest EXCEPT !.pc = "ask", !.op = "set"]]
    /\ waiting' = waiting \cup {w}
    /\ UNCHANGED <<links, chan, path, getList, writes, prog, got, history, crashed>>

BeginSet(w) ==
    /\ Runs(w, "set") /\ HiveOf[w] # Owner
    /\ setList' = [setList EXCEPT ![HiveOf[w]] = @ \cup {w}]
    /\ act' = [act EXCEPT ![Turn(w)] = [Rest EXCEPT !.pc = "ask", !.op = "set", !.who = Turn(w)]]
    /\ waiting' = waiting \cup {w}
    /\ UNCHANGED <<links, chan, path, getList, writes, prog, got, history, crashed>>

\* At the owner both are done on the spot.
LocalGet(w) ==
    /\ Runs(w, "get") /\ HiveOf[w] = Owner
    /\ got' = [got EXCEPT ![w] = stored]
    /\ floor' = [floor EXCEPT ![w] = told[Owner]]
    /\ prog' = [prog EXCEPT ![w] = Tail(@)]
    /\ UNCHANGED <<links, chan, path, getList, setList, writes, act, waiting, told, sources, crashed>>

LocalSet(w) ==
    /\ Runs(w, "set") /\ HiveOf[w] = Owner
    /\ writes' = Append(writes, Turn(w))
    /\ told' = [told EXCEPT ![Owner] = stored + 1]
    /\ prog' = [prog EXCEPT ![w] = Tail(@)]
    /\ UNCHANGED <<links, chan, path, getList, setList, act, waiting, got, floor, sources, crashed>>

---------------------------------------------------------------------------
(* RequestObjectGet, RequestObjectSet, RequestObjectPathBroadcast *)

\* The message of a request, to the hive on the path.
Request(a) == [type |-> act[a].op, who |-> act[a].who]

\* The look into object_paths.
AskKnown(a) ==
    /\ act[a].pc = "ask" /\ At(a) \notin crashed
    /\ path[At(a)] # NoPath
    /\ LET h == At(a)
           g == path[h].via
       IN IF g \in Peers(h)
          THEN /\ chan' = SendTo(chan, h, {g}, Request(a))
               /\ Finish(a)
               /\ UNCHANGED <<links, path, getList, setList, writes, waiting, prog, got, history, crashed>>
          ELSE Crash(h)

AskUnknown(a) ==
    /\ act[a].pc = "ask" /\ At(a) \notin crashed
    /\ path[At(a)] = NoPath
    /\ Goto(a, "search")
    /\ UNCHANGED <<links, chan, path, getList, setList, writes, waiting, prog, got, history, crashed>>

\* A path that is known is given up; its connection is kept.
Search(a) ==
    /\ act[a].pc = "search" /\ At(a) \notin crashed
    /\ path' = IF path[At(a)] = NoPath THEN path
               ELSE [path EXCEPT ![At(a)].dist = INFINITY_DISTANCE]
    /\ Goto(a, "flood")
    /\ UNCHANGED <<links, chan, getList, setList, writes, waiting, prog, got, history, crashed>>

\* Broken: the request goes along with the question.
FloodRequest(a) ==
    /\ act[a].pc = "flood" /\ At(a) \notin crashed
    /\ chan' = SendTo(SendTo(chan, At(a), Peers(At(a)) \ {act[a].skip}, [type |-> "where", dist |-> 0]),
                     At(a), Peers(At(a)) \ {act[a].skip}, Request(a))
    /\ Finish(a)
    /\ UNCHANGED <<links, path, getList, setList, writes, waiting, prog, got, history, crashed>>

\* The question goes to every neighbour but one.  The request itself is not
\* sent and not repeated.
Flood(a) ==
    /\ act[a].pc = "flood" /\ At(a) \notin crashed
    /\ chan' = SendTo(chan, At(a), Peers(At(a)) \ {act[a].skip}, [type |-> "where", dist |-> 0])
    /\ Finish(a)
    /\ UNCHANGED <<links, path, getList, setList, writes, waiting, prog, got, history, crashed>>

---------------------------------------------------------------------------
(* HandleApiCall: l = <<h, g>> handles at h what g sent *)

Gets(l, type) ==
    /\ l \in links /\ act[l].pc = "idle"
    /\ chan[<<l[2], l[1]>>] # <<>>
    /\ Head(chan[<<l[2], l[1]>>]).type = type
Message(l) == Head(chan[<<l[2], l[1]>>])

\* API_QUERY_OBJECT: the owner answers, another hive lists the connection
\* that asked and asks itself.
Query(l) ==
    /\ Gets(l, "get")
    /\ IF l[1] = Owner
       THEN /\ chan' = Reply(l, [type |-> "data", data |-> stored])
            /\ UNCHANGED <<getList, act>>
       ELSE /\ chan' = Taken(l)
            /\ getList' = [getList EXCEPT ![l[1]] = <<[kind |-> "query", id |-> l[2]]>> \o @]
            /\ act' = [act EXCEPT ![l] = [Rest EXCEPT !.pc = "ask", !.op = "get"]]
    /\ UNCHANGED <<links, path, setList, writes, waiting, prog, got, history, crashed>>

\* Who stands on the list of queries, who is continued, who is answered.
Listed(h) == {getList[h][i] : i \in DOMAIN getList[h]}
Woken(h) == {w \in Workers : [kind |-> "worker", id |-> w] \in Listed(h)}
Owed(h) == {e.id : e \in {x \in Listed(h) : x.kind # "worker"}}

\* A push is answered with a hash, which the key of set_wait_list holds too.
\* GetByteStringHash makes the same of all data, but callbackPushAnswerLocalId
\* passes an address.  made is the content with the push, for told.
Done(hash, n) == [type |-> "done", hash |-> hash, made |-> n]

\* What h sends to g when m comes for its list: a pusher's connection stands
\* there too (see Push).
Times(h, g, kind) == Cardinality({i \in DOMAIN getList[h] : getList[h][i] = [kind |-> kind, id |-> g]})
Answers(h, g, m) ==
    [i \in 1 .. Times(h, g, "query") |-> m]
    \o [i \in 1 .. Times(h, g, "push") |-> Done("address", 0)]

\* An answer tells h of a content.
Tells(l, n) ==
    /\ told' = [told EXCEPT ![l[1]] = LargestOf({@, n})]
    /\ sources' = [sources EXCEPT ![l[1]] = @ \cup {l[2]}]

\* Broken: only the workers of the list go on.
QueryAnswerHere(l) ==
    /\ Gets(l, "data")
    /\ chan' = Taken(l)
    /\ LET woken == Woken(l[1])
       IN /\ waiting' = waiting \ woken
          /\ got' = [w \in Workers |-> IF w \in woken THEN Message(l).data ELSE got[w]]
          /\ prog' = [w \in Workers |-> IF w \in woken THEN Tail(prog[w]) ELSE prog[w]]
    /\ getList' = [getList EXCEPT ![l[1]] = <<>>]
    /\ Tells(l, Message(l).data)
    /\ UNCHANGED <<links, path, setList, writes, act, floor, crashed>>

\* API_ANSWER_QUERY_OBJECT, UpdateWaitingQuery: everyone on the list goes on.
QueryAnswer(l) ==
    /\ Gets(l, "data")
    /\ LET h == l[1]
           m == Message(l)
           woken == Woken(h)
       IN IF Owed(h) \subseteq Peers(h)
          THEN /\ chan' = [k \in Links |-> IF k[1] = h THEN Taken(l)[k] \o Answers(h, k[2], m)
                                          ELSE Taken(l)[k]]
               /\ getList' = [getList EXCEPT ![h] = <<>>]
               /\ waiting' = waiting \ woken
               /\ got' = [w \in Workers |-> IF w \in woken THEN m.data ELSE got[w]]
               /\ prog' = [w \in Workers |-> IF w \in woken THEN Tail(prog[w]) ELSE prog[w]]
               /\ Tells(l, m.data)
               /\ UNCHANGED <<links, path, setList, writes, act, floor, crashed>>
          ELSE Crash(h)

\* API_PUSH_OBJECT: the owner stores and answers.  Another hive enters the
\* connection in the list of queries, asks for the object and pushes itself.
Push(l) ==
    /\ Gets(l, "set")
    /\ IF l[1] = Owner
       THEN /\ writes' = Append(writes, Message(l).who)
            /\ chan' = Reply(l, Done("constant", stored + 1))
            /\ UNCHANGED <<getList, act>>
       ELSE /\ chan' = Taken(l)
            /\ getList' = [getList EXCEPT ![l[1]] = <<[kind |-> "push", id |-> l[2]]>> \o @]
            /\ act' = [act EXCEPT ![l] = [Rest EXCEPT !.pc = "ask", !.op = "get",
                                                      !.who = Message(l).who, !.then = "set"]]
            /\ UNCHANGED writes
    /\ UNCHANGED <<links, path, setList, waiting, prog, got, history, crashed>>

\* Whom an answer continues.  equal_bytes compares the first eight bytes of a
\* key, the object; a worker then looks whether the hash is that of its push:
\* every worker of the hive that pushes goes on, or with an address none does.
Pushers(h, hash) == IF hash = "constant" THEN setList[h] ELSE {}

\* API_ANSWER_PUSH_OBJECT, UpdateWaitingPush.
PushAnswer(l) ==
    /\ Gets(l, "done")
    /\ chan' = Taken(l)
    /\ LET h == l[1]
           woken == Pushers(h, Message(l).hash)
       IN /\ setList' = [setList EXCEPT ![h] = @ \ woken]
          /\ waiting' = waiting \ woken
          /\ prog' = [w \in Workers |-> IF w \in woken THEN Tail(prog[w]) ELSE prog[w]]
    /\ IF Message(l).hash = "constant" THEN Tells(l, Message(l).made) ELSE UNCHANGED <<told, sources>>
    /\ UNCHANGED <<links, path, getList, writes, act, got, floor, crashed>>

\* API_REQUEST_PATH: the owner tells all its neighbours.  Another hive passes
\* the question on, under a new number: it is never known already.
PathQuestion(l) ==
    /\ Gets(l, "where")
    /\ IF l[1] = Owner
       THEN /\ chan' = SendTo(Taken(l), Owner, Peers(Owner), [type |-> "found", dist |-> 1])
            /\ UNCHANGED act
       ELSE /\ chan' = Taken(l)
            /\ act' = [act EXCEPT ![l] = [Rest EXCEPT !.pc = "search", !.skip = l[2]]]
    /\ UNCHANGED <<links, path, getList, setList, writes, waiting, prog, got, history, crashed>>

\* API_ANSWER_REQUEST_PATH: a first path is entered, a shorter one replaces
\* what is there, the others are ignored.
PathFound(l) ==
    /\ Gets(l, "found")
    /\ chan' = Taken(l)
    /\ LET h == l[1]
           d == Message(l).dist
           Continue(label) == act' = [act EXCEPT ![l] = [Rest EXCEPT !.pc = label, !.dist = d]]
       IN IF h # Owner /\ path[h] = NoPath
          THEN path' = [path EXCEPT ![h] = [via |-> l[2], dist |-> d + 1]] /\ Continue("tell")
          ELSE IF h # Owner /\ path[h].dist > d
               THEN UNCHANGED path /\ Continue("via")
               ELSE UNCHANGED <<path, act>>
    /\ UNCHANGED <<links, getList, setList, writes, waiting, prog, got, history, crashed>>

\* The two fields are stored one after the other.
StoreVia(l) ==
    /\ act[l].pc = "via" /\ l[1] \notin crashed
    /\ path' = [path EXCEPT ![l[1]].via = l[2]]
    /\ Goto(l, "dist")
    /\ UNCHANGED <<links, chan, getList, setList, writes, waiting, prog, got, history, crashed>>

StoreDist(l) ==
    /\ act[l].pc = "dist" /\ l[1] \notin crashed
    /\ path' = [path EXCEPT ![l[1]].dist = act[l].dist]
    /\ Goto(l, "tell")
    /\ UNCHANGED <<links, chan, getList, setList, writes, waiting, prog, got, history, crashed>>

\* AnswerRequestObjectPath: all neighbours are told.
Tell(l) ==
    /\ act[l].pc = "tell" /\ l[1] \notin crashed
    /\ chan' = SendTo(chan, l[1], Peers(l[1]), [type |-> "found", dist |-> act[l].dist + 1])
    /\ Finish(l)
    /\ UNCHANGED <<links, path, getList, setList, writes, waiting, prog, got, history, crashed>>

---------------------------------------------------------------------------
(* A connection breaks: both ends remove it, and what is under way is lost. *)
(* Paths and lists that name it stay.                                       *)

Break(h, g) ==
    /\ <<h, g>> \in links
    /\ Cardinality(Links) - Cardinality(links) < 2 * MaxBreaks
    /\ links' = links \ {<<h, g>>, <<g, h>>}
    /\ chan' = [chan EXCEPT ![<<h, g>>] = <<>>, ![<<g, h>>] = <<>>]
    /\ UNCHANGED <<path, getList, setList, writes, act, waiting, prog, got, history, crashed>>

AgentStep(a) == AskKnown(a) \/ AskUnknown(a) \/ Search(a) \/ Flood(a)
Handle(l) ==
    \/ Query(l) \/ QueryAnswer(l) \/ Push(l) \/ PushAnswer(l)
    \/ PathQuestion(l) \/ PathFound(l) \/ StoreVia(l) \/ StoreDist(l) \/ Tell(l)
Begin(w) == BeginGet(w) \/ BeginSet(w) \/ LocalGet(w) \/ LocalSet(w)

Next ==
    \/ \E w \in Workers : Begin(w)
    \/ \E a \in Agents : AgentStep(a)
    \/ \E l \in Links : Handle(l)
    \/ \E l \in Links : Break(l[1], l[2])

Spec ==
    /\ Init /\ [][Next]_vars
    /\ \A a \in Agents : WF_vars(AgentStep(a))
    /\ \A l \in Links : WF_vars(Handle(l))

---------------------------------------------------------------------------
Pcs == {"idle", "ask", "search", "flood", "via", "dist", "tell"}
Messages ==
    [type : {"get"}, who : Turns \cup {Nobody}] \cup [type : {"set"}, who : Turns]
    \cup [type : {"data"}, data : Nat]
    \cup [type : {"done"}, hash : {"constant", "address"}, made : Nat]
    \cup [type : {"where", "found"}, dist : Nat]

\* Types of the variables.
TypeOK ==
    /\ links \subseteq Links
    /\ chan \in [Links -> Seq(Messages)]
    /\ path \in [Hives -> {NoPath} \cup [via : Hives, dist : Nat]]
    /\ getList \in [Hives -> Seq([kind : {"worker"}, id : Workers]
                                 \cup [kind : {"query", "push"}, id : Hives])]
    /\ setList \in [Hives -> SUBSET Workers]
    /\ writes \in Seq(Turns)
    /\ act \in [Agents -> [pc : Pcs, op : {"get", "set"}, who : Turns \cup {Nobody},
                           then : {"none", "set"}, skip : Hives \cup {Nobody}, dist : Nat]]
    /\ waiting \subseteq Workers
    /\ prog \in [Workers -> Seq({"get", "set"})]
    /\ got \in [Workers -> Nat] /\ floor \in [Workers -> Nat]
    /\ told \in [Hives -> Nat] /\ sources \in [Hives -> SUBSET Hives]
    /\ crashed \subseteq Hives

\* As long as each hive gets its answers from one neighbour, a worker never
\* reads older content than an answer, to whomever, had told its hive of when
\* it began to read, although one answer serves every worker on the list and
\* an answer to an earlier request may arrive first.
NoStaleRead ==
    (\A h \in Hives : Cardinality(sources[h]) <= 1) =>
        \A w \in Workers \ waiting : got[w] >= floor[w]

\* A push is stored once at most, although relays repeat requests, searches
\* interrupt them, and its worker may have gone on long ago.
PushedOnce == \A i, j \in DOMAIN writes : writes[i] = writes[j] => i = j

\* A worker that asked for the object when its hive knew a path is continued,
\* whoever else asks, and whichever answer comes first, unless a connection
\* breaks.
KnownIsAnswered ==
    \A w \in Workers :
        (/\ w \in waiting /\ path[HiveOf[w]] # NoPath
         /\ act[Turn(w)].pc = "ask" /\ act[Turn(w)].op = "get")
        ~> (w \notin waiting \/ links # Links)

\* A worker goes on after a push when the answer is to its own: the object holds
\* what it pushed.
ContinuedByOwnAnswer ==
    [][\A w \in Workers :
          prog'[w] # prog[w] /\ Head(prog[w]) = "set" => \E i \in DOMAIN writes' : writes'[i] = Turn(w)]_vars

=============================================================================
