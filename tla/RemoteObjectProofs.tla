------------------------- MODULE RemoteObjectProofs -------------------------
(***************************************************************************)
(* Proofs about RemoteObject for every graph of hives, every place of the  *)
(* object and of the workers, any number of messages and of connections    *)
(* that break: types; that a push is stored once at most; and that no read *)
(* is stale as long as each hive gets its answers from one neighbour.      *)
(***************************************************************************)
EXTENDS RemoteObject, FiniteSetTheorems, TLAPS

---------------------------------------------------------------------------
(* Types, and what agents and lists are about *)

\* An agent that has work is not at the owner, which answers at once; a push
\* has a pusher; a path under change exists.
Agency ==
    \A a \in Agents :
        /\ act[a].pc # "idle" => At(a) # Owner
        /\ act[a].pc \in {"via", "dist"} => path[At(a)] # NoPath
        /\ act[a].op = "set" => act[a].then = "none"
        /\ act[a].op = "set" \/ act[a].then = "set" => act[a].who \in Turns

\* Does what a worker waits for: the first thing it still has to do.
WaitsTo(w, op) == w \in waiting /\ prog[w] # <<>> /\ Head(prog[w]) = op

\* What a worker comes to was in its program at first.
Programs == \A w \in Workers : prog[w] # <<>> => Turn(w) \in Turns

Lists ==
    /\ Programs
    /\ \A h \in Hives, w \in Workers :
          /\ [kind |-> "worker", id |-> w] \in Listed(h) =>
                HiveOf[w] = h /\ h # Owner /\ WaitsTo(w, "get")
          /\ w \in setList[h] => HiveOf[w] = h /\ h # Owner /\ WaitsTo(w, "set")

Typed == TypeOK /\ Agency /\ Lists

---------------------------------------------------------------------------
(* Messages *)

Chans == [Links -> Seq(Messages)]
Works == [pc : Pcs, op : {"get", "set"}, who : Turns \cup {Nobody},
          then : {"none", "set"}, skip : Hives \cup {Nobody}, dist : Nat]
Back(l) == <<l[2], l[1]>>

LEMMA LinkEnds ==
  ASSUME NEW l \in Links
  PROVE  /\ l = <<l[1], l[2]>> /\ l[1] \in Hives /\ l[2] \in Hives
         /\ Back(l) \in Links /\ Back(l)[1] = l[2] /\ Back(l)[2] = l[1] /\ l \in Agents
         /\ At(l) = l[1]
  BY RemoteAssumption DEF Back, Agents, At

\* A message that is sent is the last one of its channels.
LEMMA Sent ==
  ASSUME NEW c \in Chans, NEW h, NEW to, NEW m \in Messages
  PROVE  /\ SendTo(c, h, to, m) \in Chans
         /\ \A l \in Links :
               SendTo(c, h, to, m)[l] = IF l[1] = h /\ l[2] \in to THEN Append(c[l], m) ELSE c[l]
  BY DEF Chans, SendTo

\* A message that is taken was the first one of its channel.
LEMMA Taking ==
  ASSUME chan \in Chans, NEW l \in Links, chan[Back(l)] # <<>>
  PROVE  /\ Taken(l) \in Chans /\ Message(l) \in Messages
         /\ Taken(l)[Back(l)] = Tail(chan[Back(l)])
         /\ \A k \in Links \ {Back(l)} : Taken(l)[k] = chan[k]
         /\ 1 \in DOMAIN chan[Back(l)] /\ Message(l) = chan[Back(l)][1]
<1>1. Back(l) \in Links
  BY LinkEnds
<1>2. chan[Back(l)] \in Seq(Messages)
  BY <1>1 DEF Chans
<1>3. Tail(chan[Back(l)]) \in Seq(Messages) /\ Head(chan[Back(l)]) \in Messages
      /\ 1 \in DOMAIN chan[Back(l)] /\ Head(chan[Back(l)]) = chan[Back(l)][1]
  BY <1>2
<1>4. QED
  BY <1>1, <1>3 DEF Taken, Message, Back, Chans

\* What a message of each type holds.
LEMMA MessageKinds ==
  ASSUME NEW m \in Messages
  PROVE  /\ m.type = "get" => m.who \in Turns \cup {Nobody}
         /\ m.type = "set" => m.who \in Turns
         /\ m.type = "data" => m.data \in Nat
         /\ m.type = "done" => m.hash \in {"constant", "address"} /\ m.made \in Nat
         /\ m.type \in {"where", "found"} => m.dist \in Nat
         /\ m.type \in {"get", "set", "data", "done", "where", "found"}
  BY DEF Messages

LEMMA MessageMade ==
  /\ \A t \in Turns \cup {Nobody} : [type |-> "get", who |-> t] \in Messages
  /\ \A t \in Turns : [type |-> "set", who |-> t] \in Messages
  /\ \A hash \in {"constant", "address"}, n \in Nat : Done(hash, n) \in Messages
  /\ \A n \in Nat : /\ [type |-> "data", data |-> n] \in Messages
                    /\ [type |-> "where", dist |-> n] \in Messages
                    /\ [type |-> "found", dist |-> n] \in Messages
  BY DEF Messages, Done

\* What an agent does next when its request is made.
LEMMA Finished ==
  ASSUME act \in [Agents -> Works], Agency, NEW a \in Agents, act[a].pc # "idle", Finish(a)
  PROVE  /\ act' \in [Agents -> Works] /\ \A b \in Agents \ {a} : act'[b] = act[b]
         /\ act'[a].pc \in {"idle", "ask"}
         /\ act'[a].then = "none"
         /\ act'[a].op = "set" => act[a].then = "set" /\ act'[a].who = act[a].who
<1>1. Rest \in Works
  BY DEF Rest, Works, Pcs
<1>2. act[a] \in Works
  OBVIOUS
<1>3. CASE act[a].then = "none"
  BY <1>1, <1>3 DEF Finish, Rest
<1>4. CASE act[a].then = "set"
  <2>1. [act[a] EXCEPT !.pc = "ask", !.op = "set", !.then = "none"] \in Works
    BY <1>2 DEF Works, Pcs
  <2>2. act' = [act EXCEPT ![a] = [act[a] EXCEPT !.pc = "ask", !.op = "set", !.then = "none"]]
    BY <1>4 DEF Finish
  <2>3. QED
    BY <1>2, <1>4, <2>1, <2>2 DEF Works
<1>5. QED
  BY <1>2, <1>3, <1>4 DEF Works

LEMMA Gone ==
  ASSUME act \in [Agents -> Works], NEW a \in Agents, NEW label \in Pcs, Goto(a, label)
  PROVE  /\ act' \in [Agents -> Works] /\ \A b \in Agents \ {a} : act'[b] = act[b]
         /\ act'[a] = [act[a] EXCEPT !.pc = label]
         /\ act'[a].pc = label /\ act'[a].op = act[a].op /\ act'[a].then = act[a].then
         /\ act'[a].who = act[a].who /\ act'[a].dist = act[a].dist
  BY DEF Goto, Works

---------------------------------------------------------------------------
(* Typed is inductive *)

Entries == [kind : {"worker"}, id : Workers] \cup [kind : {"query", "push"}, id : Hives]
Paths == [Hives -> {NoPath} \cup [via : Hives, dist : Nat]]

LEMMA TypeIs ==
  TypeOK <=>
    /\ links \subseteq Links /\ chan \in Chans /\ path \in Paths
    /\ getList \in [Hives -> Seq(Entries)] /\ setList \in [Hives -> SUBSET Workers]
    /\ writes \in Seq(Turns) /\ act \in [Agents -> Works]
    /\ waiting \subseteq Workers /\ prog \in [Workers -> Seq({"get", "set"})]
    /\ got \in [Workers -> Nat] /\ floor \in [Workers -> Nat]
    /\ told \in [Hives -> Nat] /\ sources \in [Hives -> SUBSET Hives] /\ crashed \subseteq Hives
  BY DEF TypeOK, Chans, Paths, Works, Entries

LEMMA TypeIsNext ==
  TypeOK' <=>
    /\ links' \subseteq Links /\ chan' \in Chans /\ path' \in Paths
    /\ getList' \in [Hives -> Seq(Entries)] /\ setList' \in [Hives -> SUBSET Workers]
    /\ writes' \in Seq(Turns) /\ act' \in [Agents -> Works]
    /\ waiting' \subseteq Workers /\ prog' \in [Workers -> Seq({"get", "set"})]
    /\ got' \in [Workers -> Nat] /\ floor' \in [Workers -> Nat]
    /\ told' \in [Hives -> Nat] /\ sources' \in [Hives -> SUBSET Hives] /\ crashed' \subseteq Hives
  BY DEF TypeOK, Chans, Paths, Works, Entries

\* An entry in front of a list.
LEMMA Prepended ==
  ASSUME getList \in [Hives -> Seq(Entries)], NEW h \in Hives, NEW e \in Entries,
         getList' = [getList EXCEPT ![h] = <<e>> \o @]
  PROVE  /\ getList' \in [Hives -> Seq(Entries)]
         /\ Listed(h)' = Listed(h) \cup {e}
         /\ \A g \in Hives \ {h} : Listed(g)' = Listed(g)
<1> DEFINE q == getList[h]
           r == <<e>> \o q
<1>1. /\ r \in Seq(Entries) /\ getList'[h] = r /\ \A g \in Hives \ {h} : getList'[g] = getList[g]
      /\ getList' \in [Hives -> Seq(Entries)]
  OBVIOUS
<1>2. /\ DOMAIN r = 1 .. Len(q) + 1 /\ DOMAIN q = 1 .. Len(q) /\ Len(q) \in Nat /\ r[1] = e
      /\ \A i \in DOMAIN q : i + 1 \in DOMAIN r /\ r[i + 1] = q[i]
      /\ \A i \in DOMAIN r \ {1} : i - 1 \in DOMAIN q /\ r[i] = q[i - 1]
  OBVIOUS
<1> HIDE DEF r, q
<1>3. {r[i] : i \in DOMAIN r} = {q[i] : i \in DOMAIN q} \cup {e}
  <2>1. \A i \in DOMAIN r : r[i] \in {q[j] : j \in DOMAIN q} \cup {e}
    BY <1>2
  <2>2. \A i \in DOMAIN q : q[i] \in {r[j] : j \in DOMAIN r}
    BY <1>2
  <2>3. e \in {r[j] : j \in DOMAIN r}
    BY <1>2
  <2>4. QED
    BY <2>1, <2>2, <2>3
<1>4. Listed(h) = {q[i] : i \in DOMAIN q} /\ Listed(h)' = {r[i] : i \in DOMAIN r}
  BY <1>1 DEF Listed, q
<1>5. \A g \in Hives \ {h} : Listed(g)' = Listed(g)
  BY <1>1 DEF Listed
<1>6. QED
  BY <1>1, <1>3, <1>4, <1>5

\* A turn is made at the hive of its worker, and comes after those with more to
\* do.
LEMMA TurnPlace ==
  ASSUME NEW w \in Workers, NEW n, <<w, n>> \in Turns
  PROVE  <<w, n>> \in Agents /\ <<w, n>> \notin Links /\ At(<<w, n>>) = HiveOf[w]
<1>1. <<w, n>> \notin Links
  <2>1. \A l \in Links : l[1] \in Hives
    BY RemoteAssumption
  <2>2. <<w, n>>[1] \notin Hives
    BY RemoteAssumption
  <2>3. QED
    BY <2>1, <2>2
<1>2. QED
  BY <1>1 DEF Agents, At

LEMMA TurnFrom ==
  ASSUME NEW s \in Starts, NEW w \in Workers, NEW n \in DOMAIN s.prog[w]
  PROVE  <<w, n>> \in Turns
<1> DEFINE T == {{v} \X DOMAIN r.prog[v] : r \in Starts, v \in Workers}
           S == {w} \X DOMAIN s.prog[w]
<1>1. <<w, n>> \in S /\ S \in T
  OBVIOUS
<1>2. Turns = UNION T
  BY DEF Turns
<1> HIDE DEF S, T
<1>3. QED
  BY <1>1, <1>2

LEMMA TurnIs ==
  ASSUME NEW t \in Turns
  PROVE  /\ t = <<t[1], t[2]>> /\ t[1] \in Workers /\ t[2] \in Nat \ {0} /\ t # Nobody
         /\ t[2] > 1 => <<t[1], t[2] - 1>> \in Turns
<1>0. PICK s \in Starts, w \in Workers : t \in {w} \X DOMAIN s.prog[w]
  BY DEF Turns
<1>1. PICK n \in DOMAIN s.prog[w] : t = <<w, n>>
  BY <1>0
<1>2. s.prog[w] \in Seq({"get", "set"})
  BY RemoteAssumption
<1>3. n \in Nat \ {0} /\ (n > 1 => n - 1 \in DOMAIN s.prog[w])
  BY <1>2
<1>4. n > 1 => <<w, n - 1>> \in Turns
  BY <1>3, TurnFrom
<1>5. t \in Workers \X Nat
  BY <1>1, <1>3
<1>6. QED
  BY <1>1, <1>3, <1>4, <1>5, RemoteAssumption

LEMMA Places ==
  ASSUME NEW a \in Agents
  PROVE  At(a) \in Hives /\ At(a)' = At(a)
<1>1. CASE a \in Links
  BY <1>1, RemoteAssumption DEF At
<1>2. CASE a \notin Links
  <2>1. a[1] \in Workers
    BY <1>2, TurnIs DEF Agents
  <2>2. QED
    BY <1>2, <2>1, RemoteAssumption DEF At
<1>3. QED
  BY <1>1, <1>2

LEMMA ProgramsShorter ==
  ASSUME Programs, prog \in [Workers -> Seq({"get", "set"})],
         NEW S, \A w \in S : w \in Workers /\ prog[w] # <<>>,
         prog' = [w \in Workers |-> IF w \in S THEN Tail(prog[w]) ELSE prog[w]]
  PROVE  Programs'
<1>1. ASSUME NEW w \in Workers, prog'[w] # <<>> PROVE Turn(w)' \in Turns
  <2>1. CASE w \in S
    <3>1. /\ Turn(w) \in Turns /\ prog[w] \in Seq({"get", "set"}) /\ prog[w] # <<>>
          /\ prog'[w] = Tail(prog[w])
      BY <2>1 DEF Programs
    <3>2. Len(prog'[w]) = Len(prog[w]) - 1 /\ Len(prog[w]) > 1
      BY <1>1, <3>1
    <3>3. <<w, Len(prog[w])>> \in Turns
      BY <3>1 DEF Turn
    <3>4. <<w, Len(prog[w]) - 1>> \in Turns
      BY <3>2, <3>3, TurnIs
    <3>5. QED
      BY <3>2, <3>4 DEF Turn
  <2>2. CASE w \notin S
    BY <1>1, <2>2 DEF Programs, Turn
  <2>3. QED
    BY <2>1, <2>2
<1>2. QED
  BY <1>1 DEF Programs

\* Works that are begun.
LEMMA AgentBegun ==
  ASSUME act \in [Agents -> Works], NEW a \in Agents, NEW x \in Works,
         act' = [act EXCEPT ![a] = x]
  PROVE  act' \in [Agents -> Works] /\ act'[a] = x /\ \A b \in Agents \ {a} : act'[b] = act[b]
  OBVIOUS

LEMMA AgencyKept ==
  ASSUME Agency, act \in [Agents -> Works], NEW a \in Agents,
         \A b \in Agents \ {a} : act'[b] = act[b],
         \A h \in Hives : path[h] # NoPath => path'[h] # NoPath,
         RemoteAssumption,
         act'[a].pc # "idle" => At(a) # Owner,
         act'[a].pc \in {"via", "dist"} => path'[At(a)] # NoPath,
         act'[a].op = "set" => act'[a].then = "none",
         act'[a].op = "set" \/ act'[a].then = "set" => act'[a].who \in Turns
  PROVE  Agency'
<1>1. \A b \in Agents : At(b) \in Hives /\ At(b)' = At(b)
  BY Places
<1>2. QED
  BY <1>1 DEF Agency

\* A worker w of h enters a list and waits; the others wait as before.
LEMMA ListsMore ==
  ASSUME Lists, prog' = prog, NEW w \in Workers, NEW h \in Hives, NEW op \in {"get", "set"},
         HiveOf[w] = h, h # Owner, WaitsTo(w, op)',
         \A v \in Workers, x \in {"get", "set"} : WaitsTo(v, x) => WaitsTo(v, x)',
         \A v \in Workers, g \in Hives :
            [kind |-> "worker", id |-> v] \in Listed(g)' =>
                [kind |-> "worker", id |-> v] \in Listed(g) \/ (v = w /\ g = h /\ op = "get"),
         \A v \in Workers, g \in Hives :
            v \in setList'[g] => v \in setList[g] \/ (v = w /\ g = h /\ op = "set")
  PROVE  Lists'
<1>1. ASSUME NEW v \in Workers, NEW g \in Hives, [kind |-> "worker", id |-> v] \in Listed(g)'
      PROVE  HiveOf[v] = g /\ g # Owner /\ WaitsTo(v, "get")'
  BY <1>1 DEF Lists
<1>2. ASSUME NEW v \in Workers, NEW g \in Hives, v \in setList'[g]
      PROVE  HiveOf[v] = g /\ g # Owner /\ WaitsTo(v, "set")'
  BY <1>2 DEF Lists
<1>3. QED
  BY <1>1, <1>2 DEF Lists, Programs, Turn

LEMMA TypedBegin ==
  ASSUME Typed, NEW w \in Workers, Begin(w)
  PROVE  Typed'
<1> USE RemoteAssumption
<1>0. TypeOK /\ Agency /\ Lists /\ HiveOf[w] \in Hives
  BY DEF Typed
<1> DEFINE h == HiveOf[w]
           t == Turn(w)
<1>t. prog[w] # <<>> /\ w \notin waiting /\ t \in Turns /\ t \in Agents /\ At(t) = h
  <2>1. prog[w] # <<>> /\ w \notin waiting
    BY DEF Begin, BeginGet, BeginSet, LocalGet, LocalSet, Runs
  <2>2. t \in Turns
    BY <1>0, <2>1 DEF Lists, Programs
  <2>3. QED
    BY <2>1, <2>2, TurnPlace DEF Turn
<1>1. CASE BeginGet(w)
  <2> DEFINE e == [kind |-> "worker", id |-> w]
             x == [Rest EXCEPT !.pc = "ask", !.op = "get"]
  <2>1. /\ Runs(w, "get") /\ h # Owner /\ waiting' = waiting \cup {w}
        /\ getList' = [getList EXCEPT ![h] = <<e>> \o @] /\ act' = [act EXCEPT ![t] = x]
        /\ floor' = [floor EXCEPT ![w] = told[h]]
        /\ UNCHANGED <<links, chan, path, setList, writes, prog, got, told, sources, crashed>>
    BY <1>1 DEF BeginGet
  <2>2. e \in Entries /\ x \in Works /\ x.pc = "ask" /\ x.op = "get" /\ x.then = "none"
    BY DEF Entries, Works, Rest, Pcs
  <2> HIDE DEF e, x, t
  <2>3. /\ act' \in [Agents -> Works] /\ act'[t] = x
        /\ \A b \in Agents \ {t} : act'[b] = act[b]
    BY <1>0, <1>t, <2>1, <2>2, TypeIs, AgentBegun
  <2>4. TypeOK' /\ Listed(h)' = Listed(h) \cup {e} /\ \A g \in Hives \ {h} : Listed(g)' = Listed(g)
    BY <1>0, <2>1, <2>2, <2>3, TypeIs, TypeIsNext, Prepended
  <2>5. Agency'
    BY <1>0, <1>t, <2>1, <2>2, <2>3, TypeIs, AgencyKept
  <2>6. WaitsTo(w, "get")' /\ \A v \in Workers, op \in {"get", "set"} : WaitsTo(v, op) => WaitsTo(v, op)'
    BY <2>1 DEF WaitsTo, Runs
  <2>7. \A v \in Workers, g \in Hives :
            [kind |-> "worker", id |-> v] \in Listed(g)' =>
                [kind |-> "worker", id |-> v] \in Listed(g) \/ (v = w /\ g = h)
    BY <2>4 DEF e
  <2>8. Lists'
    BY <1>0, <2>1, <2>6, <2>7, ListsMore
  <2>9. QED
    BY <2>4, <2>5, <2>8 DEF Typed
<1>2. CASE BeginSet(w)
  <2> DEFINE x == [Rest EXCEPT !.pc = "ask", !.op = "set", !.who = t]
  <2>1. /\ Runs(w, "set") /\ h # Owner /\ waiting' = waiting \cup {w}
        /\ setList' = [setList EXCEPT ![h] = @ \cup {w}] /\ act' = [act EXCEPT ![t] = x]
        /\ UNCHANGED <<links, chan, path, getList, writes, prog, got, floor, told, sources, crashed>>
    BY <1>2 DEF BeginSet, history
  <2>2. x \in Works /\ x.pc = "ask" /\ x.op = "set" /\ x.then = "none" /\ x.who = t
    BY <1>t DEF Works, Rest, Pcs
  <2> HIDE DEF x, t
  <2>3. /\ act' \in [Agents -> Works] /\ act'[t] = x
        /\ \A b \in Agents \ {t} : act'[b] = act[b]
    BY <1>0, <1>t, <2>1, <2>2, TypeIs, AgentBegun
  <2>4. TypeOK'
    BY <1>0, <2>1, <2>3, TypeIs, TypeIsNext
  <2>5. Agency'
    BY <1>0, <1>t, <2>1, <2>2, <2>3, TypeIs, AgencyKept
  <2>6. WaitsTo(w, "set")' /\ \A v \in Workers, op \in {"get", "set"} : WaitsTo(v, op) => WaitsTo(v, op)'
    BY <2>1 DEF WaitsTo, Runs
  <2>7. \A g \in Hives : /\ Listed(g)' = Listed(g)
                         /\ \A v \in setList'[g] : v \in setList[g] \/ (v = w /\ g = h)
    BY <1>0, <2>1, TypeIs DEF Listed
  <2>8. Lists'
    BY <1>0, <2>1, <2>6, <2>7, ListsMore
  <2>9. QED
    BY <2>4, <2>5, <2>8 DEF Typed
<1>3. CASE LocalGet(w) \/ LocalSet(w)
  <2>1. /\ prog' = [prog EXCEPT ![w] = Tail(@)]
        /\ UNCHANGED <<links, chan, path, getList, setList, act, waiting, sources, crashed>>
        /\ \/ /\ got' = [got EXCEPT ![w] = stored] /\ floor' = [floor EXCEPT ![w] = told[Owner]]
              /\ UNCHANGED <<writes, told>>
           \/ /\ writes' = Append(writes, t)
              /\ told' = [told EXCEPT ![Owner] = stored + 1] /\ UNCHANGED <<got, floor>>
    BY <1>3 DEF LocalGet, LocalSet, Runs
  <2> HIDE DEF t
  <2>2. prog' \in [Workers -> Seq({"get", "set"})]
    <3>1. Tail(prog[w]) \in Seq({"get", "set"})
      BY <1>0, <1>t, TypeIs
    <3>2. QED
      BY <1>0, <2>1, <3>1, TypeIs
  <2>3. TypeOK'
    <3>1. writes \in Seq(Turns) /\ stored \in Nat /\ told \in [Hives -> Nat] /\ Owner \in Hives
      <4>1. writes \in Seq(Turns) /\ told \in [Hives -> Nat]
        BY <1>0, TypeIs
      <4>2. QED
        BY <4>1 DEF stored
    <3>2. /\ writes' \in Seq(Turns) /\ got' \in [Workers -> Nat] /\ floor' \in [Workers -> Nat]
          /\ told' \in [Hives -> Nat]
      <4>1. got \in [Workers -> Nat] /\ floor \in [Workers -> Nat] /\ told[Owner] \in Nat
        BY <1>0, <3>1, TypeIs
      <4>2. Append(writes, t) \in Seq(Turns) /\ [told EXCEPT ![Owner] = stored + 1] \in [Hives -> Nat]
        BY <1>t, <3>1
      <4>3. CASE LocalGet(w)
        <5>1. /\ got' = [got EXCEPT ![w] = stored] /\ floor' = [floor EXCEPT ![w] = told[Owner]]
              /\ writes' = writes /\ told' = told
          BY <4>3 DEF LocalGet
        <5>2. QED
          BY <3>1, <4>1, <5>1
      <4>4. CASE LocalSet(w)
        <5>1. /\ got' = got /\ floor' = floor
              /\ writes' = Append(writes, t) /\ told' = [told EXCEPT ![Owner] = stored + 1]
          BY <4>4 DEF LocalSet, t
        <5>2. QED
          BY <4>1, <4>2, <5>1
      <4>5. QED
        BY <1>3, <4>3, <4>4
    <3>3. QED
      BY <1>0, <2>1, <2>2, <3>2, TypeIs, TypeIsNext
  <2>4. Agency'
    BY <1>0, <2>1 DEF Agency, At
  <2>5. \A v \in Workers, op \in {"get", "set"} : WaitsTo(v, op) => WaitsTo(v, op)'
    BY <1>0, <1>t, <2>1, TypeIs DEF WaitsTo
  <2>6. Lists'
    <3>1. Programs'
      <4>1. prog' = [v \in Workers |-> IF v \in {w} THEN Tail(prog[v]) ELSE prog[v]]
        BY <1>0, <2>1, TypeIs
      <4>2. QED
        <5> DEFINE S == {w}
        <5>1. /\ Programs /\ prog \in [Workers -> Seq({"get", "set"})]
              /\ \A v \in S : v \in Workers /\ prog[v] # <<>>
              /\ prog' = [v \in Workers |-> IF v \in S THEN Tail(prog[v]) ELSE prog[v]]
          BY <1>0, <1>t, <4>1, TypeIs DEF Lists
        <5> HIDE DEF S
        <5>2. QED
          BY <5>1, ProgramsShorter
    <3>2. QED
      BY <1>0, <2>1, <2>5, <3>1 DEF Lists, Listed
  <2>7. QED
    BY <2>3, <2>4, <2>6 DEF Typed
<1>4. QED
  BY <1>1, <1>2, <1>3 DEF Begin

LEMMA ListsKept ==
  ASSUME Lists, UNCHANGED <<getList, setList, waiting, prog>>
  PROVE  Lists'
  BY DEF Lists, Listed, WaitsTo, Programs, Turn

\* Channels that are gone are empty.
LEMMA Lost ==
  ASSUME Typed, UNCHANGED <<path, getList, setList, writes, act, waiting, prog, got, floor, told, sources>>,
         links' \subseteq Links, crashed' \subseteq Hives,
         chan' \in Chans
  PROVE  Typed'
<1>1. TypeOK'
  BY TypeIs, TypeIsNext DEF Typed
<1>2. Agency' /\ Lists'
  BY ListsKept DEF Typed, Agency, At
<1>3. QED
  BY <1>1, <1>2 DEF Typed

LEMMA CrashLoses ==
  ASSUME Typed, NEW h \in Hives, Crash(h)
  PROVE  Typed' /\ \A l \in Links : chan'[l] \in {chan[l], <<>>}
<1>1. chan \in Chans /\ links \subseteq Links /\ crashed \subseteq Hives
  BY TypeIs DEF Typed
<1>2. chan' \in Chans /\ \A l \in Links : chan'[l] \in {chan[l], <<>>}
  <2>1. chan' = [l \in Links |-> IF h \in {l[1], l[2]} THEN <<>> ELSE chan[l]]
    BY DEF Crash
  <2>2. <<>> \in Seq(Messages)
    OBVIOUS
  <2>3. QED
    BY <1>1, <2>1, <2>2 DEF Chans
<1>3. links' \subseteq Links /\ crashed' \subseteq Hives
  BY <1>1 DEF Crash
<1>4. QED
  BY <1>2, <1>3, Lost DEF Crash, history

LEMMA BreakLoses ==
  ASSUME Typed, NEW l \in Links, Break(l[1], l[2])
  PROVE  Typed' /\ \A k \in Links : chan'[k] \in {chan[k], <<>>}
<1>1. chan \in Chans /\ links \subseteq Links /\ crashed \subseteq Hives
  BY TypeIs DEF Typed
<1>2. chan' \in Chans /\ \A k \in Links : chan'[k] \in {chan[k], <<>>}
  <2>1. chan' = [chan EXCEPT ![<<l[1], l[2]>>] = <<>>, ![<<l[2], l[1]>>] = <<>>]
    BY DEF Break
  <2>2. <<>> \in Seq(Messages)
    OBVIOUS
  <2>3. QED
    BY <1>1, <2>1, <2>2 DEF Chans
<1>3. links' \subseteq Links /\ crashed' \subseteq Hives
  BY <1>1 DEF Break
<1>4. QED
  BY <1>2, <1>3, Lost DEF Break, history

\* A request of agent a, and what it does next.
LEMMA RequestIs ==
  ASSUME Typed, NEW a \in Agents
  PROVE  /\ Request(a) \in Messages /\ Request(a).type = act[a].op
         /\ Request(a).type \in {"get", "set"} /\ Request(a).who = act[a].who
<1>1. act[a] \in Works /\ act[a].op \in {"get", "set"}
  BY TypeIs DEF Typed, Works
<1>2. act[a].op = "set" => act[a].who \in Turns
  BY DEF Typed, Agency
<1>3. QED
  BY <1>1, <1>2, MessageMade DEF Request, Works

LEMMA TypedAgent ==
  ASSUME Typed, NEW a \in Agents, AgentStep(a)
  PROVE  Typed'
<1>1. TypeOK /\ Agency /\ Lists /\ At(a) \in Hives /\ act[a] \in Works
  BY Places, TypeIs DEF Typed
<1> DEFINE h == At(a)
<1>2. ASSUME act' \in [Agents -> Works], \A b \in Agents \ {a} : act'[b] = act[b],
             chan' \in Chans, path' \in Paths, \A g \in Hives : path[g] # NoPath => path'[g] # NoPath,
             act'[a].pc # "idle" => h # Owner,
             act'[a].pc \notin {"via", "dist"},
             act'[a].op = "set" => act'[a].then = "none",
             act'[a].op = "set" \/ act'[a].then = "set" => act'[a].who \in Turns,
             UNCHANGED <<links, getList, setList, writes, waiting, prog, got, floor, told, sources, crashed>>
      PROVE  Typed'
  <2>1. TypeOK'
    BY <1>1, <1>2, TypeIs, TypeIsNext
  <2>2. Agency'
    BY <1>1, <1>2, TypeIs, AgencyKept, RemoteAssumption
  <2>3. Lists'
    BY <1>1, <1>2, ListsKept
  <2>4. QED
    BY <2>1, <2>2, <2>3 DEF Typed
<1>3. act[a].pc # "idle" /\ h # Owner
  BY <1>1 DEF AgentStep, AskKnown, AskUnknown, Search, Flood, Agency
<1>4. act \in [Agents -> Works] /\ chan \in Chans /\ path \in Paths
  BY <1>1, TypeIs
<1>5. CASE AskKnown(a)
  <2>1. CASE path[h].via \in Peers(h)
    <3>1. Finish(a) /\ chan' = SendTo(chan, h, {path[h].via}, Request(a))
          /\ UNCHANGED <<links, path, getList, setList, writes, waiting, prog, got, floor, told, sources, crashed>>
      BY <1>5, <2>1 DEF AskKnown, history
    <3>2. chan' \in Chans
      BY <1>4, <3>1, RequestIs, Sent
    <3>3. act[a].then = "set" => act[a].who \in Turns
      BY <1>1 DEF Agency
    <3>4. QED
      BY <1>1, <1>2, <1>3, <1>4, <3>1, <3>2, <3>3, Finished
  <2>2. CASE path[h].via \notin Peers(h)
    <3>1. Crash(h)
      BY <1>5, <2>2 DEF AskKnown
    <3>2. QED
      BY <1>1, <3>1, CrashLoses
  <2>3. QED
    BY <2>1, <2>2
<1>6. CASE AskUnknown(a)
  <2>1. Goto(a, "search") /\ UNCHANGED <<links, chan, path, getList, setList, writes, waiting, prog, got, floor, told, sources, crashed>>
    BY <1>6 DEF AskUnknown, history
  <2>2. /\ act[a].op = "set" => act[a].then = "none"
        /\ act[a].op = "set" \/ act[a].then = "set" => act[a].who \in Turns
    BY <1>1 DEF Agency
  <2>3. "search" \in Pcs
    BY DEF Pcs
  <2>4. QED
    BY <1>2, <1>3, <1>4, <2>1, <2>2, <2>3, Gone
<1>7. CASE Search(a)
  <2>1. Goto(a, "flood") /\ UNCHANGED <<links, chan, getList, setList, writes, waiting, prog, got, floor, told, sources, crashed>>
    BY <1>7 DEF Search, history
  <2>2. /\ act[a].op = "set" => act[a].then = "none"
        /\ act[a].op = "set" \/ act[a].then = "set" => act[a].who \in Turns
    BY <1>1 DEF Agency
  <2>3. "flood" \in Pcs
    BY DEF Pcs
  <2>4. path' \in Paths /\ \A g \in Hives : path[g] # NoPath => path'[g] # NoPath
    <3>1. CASE path[h] = NoPath
      BY <1>4, <1>7, <3>1 DEF Search
    <3>2. CASE path[h] # NoPath
      <4>1. path[h] \in [via : Hives, dist : Nat]
        BY <1>1, <1>4, <3>2 DEF Paths
      <4>2. INFINITY_DISTANCE \in Nat /\ NoPath \notin [via : Hives, dist : Nat]
        BY RemoteAssumption
      <4>3. [path[h] EXCEPT !.dist = INFINITY_DISTANCE] \in [via : Hives, dist : Nat]
        BY <4>1, <4>2
      <4>4. path' = [path EXCEPT ![h] = [path[h] EXCEPT !.dist = INFINITY_DISTANCE]]
        BY <1>7, <3>2 DEF Search
      <4>5. QED
        BY <1>1, <1>4, <4>2, <4>3, <4>4 DEF Paths
    <3>3. QED
      BY <3>1, <3>2
  <2>5. QED
    BY <1>2, <1>3, <1>4, <2>1, <2>2, <2>3, <2>4, Gone
<1>8. CASE Flood(a)
  <2>1. /\ Finish(a) /\ chan' = SendTo(chan, h, Peers(h) \ {act[a].skip}, [type |-> "where", dist |-> 0])
        /\ UNCHANGED <<links, path, getList, setList, writes, waiting, prog, got, floor, told, sources, crashed>>
    BY <1>8 DEF Flood, history
  <2>2. chan' \in Chans
    BY <1>4, <2>1, MessageMade, Sent
  <2>3. act[a].then = "set" => act[a].who \in Turns
    BY <1>1 DEF Agency
  <2>4. QED
    BY <1>1, <1>2, <1>3, <1>4, <2>1, <2>2, <2>3, Finished
<1>9. QED
  BY <1>5, <1>6, <1>7, <1>8 DEF AgentStep

\* Works that a message begins.
WorkFor(l, x) ==
    /\ x \in Works /\ l[1] # Owner /\ x.pc \notin {"via", "dist"} /\ x.op = "get"
    /\ x.then = "set" => x.who \in Turns

LEMMA AgencyBegun ==
  ASSUME TypeOK, Agency, NEW l \in Links, NEW x, WorkFor(l, x), act' = [act EXCEPT ![l] = x],
         \A g \in Hives : path[g] # NoPath => path'[g] # NoPath
  PROVE  act' \in [Agents -> Works] /\ Agency'
<1>1. l \in Agents /\ At(l) = l[1]
  BY LinkEnds
<1>2. /\ act' \in [Agents -> Works] /\ act'[l] = x /\ \A b \in Agents \ {l} : act'[b] = act[b]
  BY <1>1, TypeIs, AgentBegun DEF WorkFor
<1>3. Agency'
  BY <1>1, <1>2, TypeIs, AgencyKept, RemoteAssumption DEF WorkFor
<1>4. QED
  BY <1>2, <1>3

\* A message is there.
LEMMA Got ==
  ASSUME Typed, NEW l \in Links, NEW type, Gets(l, type)
  PROVE  /\ chan \in Chans /\ Taken(l) \in Chans /\ Message(l) \in Messages /\ Message(l).type = type
         /\ act[l].pc = "idle" /\ l \in links
         /\ chan[Back(l)] # <<>>
<1>1. chan \in Chans /\ chan[Back(l)] # <<>>
  BY TypeIs DEF Typed, Gets, Back
<1>2. QED
  BY <1>1, Taking DEF Gets, Message, Back

LEMMA TypedQuery ==
  ASSUME Typed, NEW l \in Links, Query(l) \/ Push(l)
  PROVE  Typed'
<1> DEFINE h == l[1]
           m == Message(l)
<1>1. TypeOK /\ Agency /\ Lists /\ h \in Hives /\ l[2] \in Hives
  BY LinkEnds DEF Typed
<1>2. /\ chan \in Chans /\ Taken(l) \in Chans /\ m \in Messages /\ m.type \in {"get", "set"}
      /\ Query(l) => m.type = "get"
      /\ Push(l) => m.type = "set"
  BY Got DEF Query, Push
<1>3. UNCHANGED <<links, path, setList, waiting, prog, got, floor, told, sources, crashed>>
  BY DEF Query, Push, history
<1>4. CASE h = Owner
  <2>1. /\ getList' = getList /\ act' = act
        /\ \E r \in Messages : chan' = Reply(l, r)
        /\ writes' \in Seq(Turns)
    <3>0. writes \in Seq(Turns) /\ stored \in Nat
      <4>1. writes \in Seq(Turns)
        BY <1>1, TypeIs
      <4>2. QED
        BY <4>1 DEF stored
    <3>1. CASE Query(l)
      <4>1. [type |-> "data", data |-> stored] \in Messages
        BY <3>0, MessageMade
      <4>2. /\ chan' = Reply(l, [type |-> "data", data |-> stored])
            /\ UNCHANGED <<getList, act, writes>>
        BY <1>4, <3>1 DEF Query
      <4>3. QED
        BY <3>0, <4>1, <4>2
    <3>2. CASE Push(l)
      <4>1. m.who \in Turns /\ Done("constant", stored + 1) \in Messages
        BY <1>2, <3>0, <3>2, MessageKinds, MessageMade
      <4>2. Append(writes, m.who) \in Seq(Turns)
        BY <3>0, <4>1
      <4>3. /\ getList' = getList /\ act' = act /\ chan' = Reply(l, Done("constant", stored + 1))
            /\ writes' = Append(writes, m.who)
        BY <1>4, <3>2 DEF Push
      <4>4. QED
        BY <4>1, <4>2, <4>3
    <3>3. QED
      BY <3>1, <3>2
  <2>2. chan' \in Chans
    BY <1>2, <2>1, Sent DEF Reply
  <2>3. TypeOK'
    BY <1>1, <1>3, <2>1, <2>2, TypeIs, TypeIsNext
  <2>4. Agency' /\ Lists'
    BY <1>1, <1>3, <2>1, ListsKept DEF Agency, At
  <2>5. QED
    BY <2>3, <2>4 DEF Typed
<1>5. CASE h # Owner
  <2> DEFINE kind == IF m.type = "get" THEN "query" ELSE "push"
             e == [kind |-> kind, id |-> l[2]]
             x == IF m.type = "get" THEN [Rest EXCEPT !.pc = "ask", !.op = "get"]
                  ELSE [Rest EXCEPT !.pc = "ask", !.op = "get", !.who = m.who, !.then = "set"]
  <2>1. /\ chan' = Taken(l) /\ getList' = [getList EXCEPT ![h] = <<e>> \o @]
        /\ act' = [act EXCEPT ![l] = x] /\ writes' = writes
    <3>1. CASE Query(l)
      BY <1>2, <1>5, <3>1 DEF Query
    <3>2. CASE Push(l)
      BY <1>2, <1>5, <3>2 DEF Push
    <3>3. QED
      BY <3>1, <3>2
  <2>0. \A v \in Workers : [kind |-> "worker", id |-> v] # e
    <3>1. kind # "worker"
      OBVIOUS
    <3> HIDE DEF kind
    <3>2. ASSUME NEW v \in Workers, [kind |-> "worker", id |-> v] = e PROVE FALSE
      <4>1. [kind |-> "worker", id |-> v].kind = [kind |-> kind, id |-> l[2]].kind
        BY <3>2
      <4>2. QED
        BY <3>1, <4>1
    <3>3. QED
      BY <3>2
  <2>2. e \in Entries /\ WorkFor(l, x)
    <3>1. m.type = "set" => m.who \in Turns
      BY <1>2, MessageKinds
    <3>2. QED
      BY <1>1, <1>2, <1>5, <3>1 DEF Entries, WorkFor, Works, Rest, Pcs
  <2> HIDE DEF e, x
  <2>3. /\ getList' \in [Hives -> Seq(Entries)] /\ Listed(h)' = Listed(h) \cup {e}
        /\ \A g \in Hives \ {h} : Listed(g)' = Listed(g)
    BY <1>1, <2>1, <2>2, TypeIs, Prepended
  <2>4. act' \in [Agents -> Works] /\ Agency'
    BY <1>1, <1>3, <2>1, <2>2, AgencyBegun
  <2>5. TypeOK'
    <3>1. chan' \in Chans /\ writes' = writes
      BY <1>2, <2>1
    <3>2. QED
      BY <1>1, <1>3, <2>3, <2>4, <3>1, TypeIs, TypeIsNext
  <2>6. \A v \in Workers, g \in Hives :
            [kind |-> "worker", id |-> v] \in Listed(g)' => [kind |-> "worker", id |-> v] \in Listed(g)
    <3>1. ASSUME NEW v \in Workers, NEW g \in Hives, NEW z, z # e, z \in Listed(g)'
          PROVE  z \in Listed(g)
      <4>1. CASE g = h
        BY <2>3, <3>1, <4>1
      <4>2. CASE g # h
        BY <2>3, <3>1, <4>2
      <4>3. QED
        BY <4>1, <4>2
    <3>2. QED
      BY <2>0, <3>1, Zenon
  <2>7. Lists'
    BY <1>1, <1>3, <2>6 DEF Lists, WaitsTo, Programs, Turn
  <2>8. QED
    BY <2>4, <2>5, <2>7 DEF Typed
<1>6. QED
  BY <1>4, <1>5

\* What workers still have to do, when some of those that wait go on.
LEMMA Continued ==
  ASSUME TypeOK, NEW S, \A w \in S : w \in Workers /\ prog[w] # <<>>,
         waiting' = waiting \ S,
         prog' = [w \in Workers |-> IF w \in S THEN Tail(prog[w]) ELSE prog[w]]
  PROVE  /\ waiting' \subseteq Workers /\ prog' \in [Workers -> Seq({"get", "set"})]
         /\ \A w \in Workers \ S, op \in {"get", "set"} : WaitsTo(w, op)' <=> WaitsTo(w, op)
         /\ \A w \in Workers : prog'[w] # <<>> => prog[w] # <<>>
         /\ S \cap waiting' = {} /\ (Programs => Programs')
<1>1. waiting \subseteq Workers /\ prog \in [Workers -> Seq({"get", "set"})]
  BY TypeIs
<1>2. \A w \in S : Tail(prog[w]) \in Seq({"get", "set"})
  BY <1>1
<1>3. prog' \in [Workers -> Seq({"get", "set"})]
  BY <1>1, <1>2
<1>4. \A w \in Workers \ S : prog'[w] = prog[w] /\ (w \in waiting' <=> w \in waiting)
  BY <1>1
<1>5. \A w \in Workers : prog'[w] # <<>> => prog[w] # <<>>
  BY <1>4
<1>6. Programs => Programs'
  BY <1>1, ProgramsShorter
<1>7. QED
  BY <1>1, <1>3, <1>4, <1>5, <1>6 DEF WaitsTo

LEMMA WokenWait ==
  ASSUME Typed, NEW h \in Hives, NEW w \in Woken(h)
  PROVE  w \in Workers /\ HiveOf[w] = h /\ h # Owner /\ WaitsTo(w, "get")
  BY DEF Typed, Lists, Woken

---------------------------------------------------------------------------
(* Messages that are sent behind those under way *)

\* In d each channel from h holds some of M behind what it holds in c.
More(c, d, h, M) ==
    /\ d = [l \in Links |-> d[l]]
    /\ \A l \in Links : \E z \in Seq(M) : d[l] = c[l] \o z /\ (l[1] # h => z = <<>>)

\* Each message is an old one at its place, or one of M behind those.
LEMMA MoreWhere ==
  ASSUME NEW c \in Chans, NEW d, NEW h, NEW M \in SUBSET Messages, More(c, d, h, M), NEW l \in Links
  PROVE  /\ d[l] \in Seq(Messages)
         /\ \A i \in DOMAIN d[l] : i \in Nat
         /\ \A i \in DOMAIN c[l] : i \in DOMAIN d[l] /\ d[l][i] = c[l][i]
         /\ \A i \in DOMAIN d[l] \ DOMAIN c[l] :
               /\ d[l][i] \in M /\ l[1] = h
               /\ \A j \in DOMAIN c[l] : j < i
<1>1. PICK z \in Seq(M) : d[l] = c[l] \o z /\ (l[1] # h => z = <<>>)
  BY DEF More
<1> DEFINE q == c[l]
           r == d[l]
<1>2. q \in Seq(Messages) /\ z \in Seq(Messages) /\ r = q \o z
  <2>1. q \in Seq(Messages)
    BY DEF Chans
  <2>2. z \in Seq(Messages)
    BY <1>1
  <2>3. QED
    BY <1>1, <2>1, <2>2
<1>3. l[1] # h => z = <<>>
  BY <1>1
<1> HIDE DEF q, r
<1>4. r \in Seq(Messages) /\ Len(r) = Len(q) + Len(z) /\ Len(q) \in Nat /\ Len(z) \in Nat
  BY <1>2
<1>5. /\ DOMAIN r = 1 .. Len(q) + Len(z) /\ DOMAIN q = 1 .. Len(q) /\ DOMAIN z = 1 .. Len(z)
      /\ \A i \in DOMAIN q : r[i] = q[i]
      /\ \A i \in DOMAIN r \ DOMAIN q : i - Len(q) \in DOMAIN z /\ r[i] = z[i - Len(q)]
  BY <1>2, <1>4
<1>6. \A i \in DOMAIN z : z[i] \in M
  BY <1>1
<1>7. \A i \in DOMAIN r \ DOMAIN q : r[i] \in M /\ l[1] = h /\ \A j \in DOMAIN q : j < i
  <2>1. ASSUME NEW i \in DOMAIN r \ DOMAIN q PROVE r[i] \in M /\ l[1] = h /\ \A j \in DOMAIN q : j < i
    <3>1. i - Len(q) \in DOMAIN z /\ r[i] = z[i - Len(q)]
      BY <1>5
    <3>2. z # <<>>
      BY <3>1
    <3>3. r[i] \in M
      BY <1>6, <3>1
    <3>4. \A j \in DOMAIN q : j < i
      BY <1>4, <1>5
    <3>5. QED
      BY <1>3, <3>2, <3>3, <3>4
  <2>2. QED
    BY <2>1
<1>8. (\A i \in DOMAIN r : i \in Nat) /\ \A i \in DOMAIN q : i \in DOMAIN r /\ r[i] = q[i]
  BY <1>4, <1>5
<1>9. QED
  BY <1>4, <1>7, <1>8 DEF q, r

LEMMA MoreChans ==
  ASSUME NEW c \in Chans, NEW d, NEW h, NEW M \in SUBSET Messages, More(c, d, h, M)
  PROVE  d \in Chans
<1>1. \A l \in Links : d[l] \in Seq(Messages)
  BY MoreWhere
<1>2. d = [l \in Links |-> d[l]]
  BY DEF More
<1>3. QED
  BY <1>1, <1>2 DEF Chans

LEMMA SentMore ==
  ASSUME NEW c \in Chans, NEW h, NEW to, NEW m \in Messages
  PROVE  More(c, SendTo(c, h, to, m), h, {m})
<1> DEFINE d == SendTo(c, h, to, m)
<1>1. d = [l \in Links |-> IF l[1] = h /\ l[2] \in to THEN Append(c[l], m) ELSE c[l]]
  BY DEF SendTo
<1>2. d = [l \in Links |-> d[l]]
  BY <1>1
<1>3. ASSUME NEW l \in Links PROVE \E z \in Seq({m}) : d[l] = c[l] \o z /\ (l[1] # h => z = <<>>)
  <2> DEFINE q == c[l]
  <2>1. q \in Seq(Messages)
    BY DEF Chans
  <2>2. CASE l[1] = h /\ l[2] \in to
    <3>1. d[l] = Append(q, m)
      BY <1>1, <2>2
    <3> HIDE DEF q
    <3>2. <<m>> \in Seq({m}) /\ Append(q, m) = q \o <<m>>
      BY <2>1
    <3>3. QED
      BY <2>2, <3>1, <3>2 DEF q
  <2>3. CASE ~ (l[1] = h /\ l[2] \in to)
    <3>1. d[l] = q
      BY <1>1, <2>3
    <3> HIDE DEF q
    <3>2. <<>> \in Seq({m}) /\ q = q \o <<>>
      BY <2>1
    <3>3. QED
      BY <3>1, <3>2 DEF q
  <2>4. QED
    BY <2>2, <2>3
<1>4. QED
  BY <1>2, <1>3 DEF More

\* Answers to those on the list of h, which has as many entries of a kind.
LEMMA TimesIs ==
  ASSUME TypeOK, NEW h \in Hives, NEW g, NEW kind
  PROVE  Times(h, g, kind) \in Nat /\ (getList[h] = <<>> => Times(h, g, kind) = 0)
<1> DEFINE S == {i \in DOMAIN getList[h] : getList[h][i] = [kind |-> kind, id |-> g]}
<1>1. getList[h] \in Seq(Entries)
  BY TypeIs
<1>2. DOMAIN getList[h] = 1 .. Len(getList[h]) /\ Len(getList[h]) \in Int
  BY <1>1
<1>3. IsFiniteSet(DOMAIN getList[h])
  <2>1. 1 \in Int
    OBVIOUS
  <2>2. QED
    BY <1>2, <2>1, FS_Interval
<1>4. S \in SUBSET (DOMAIN getList[h])
  OBVIOUS
<1> HIDE DEF S
<1>5. IsFiniteSet(S)
  BY <1>3, <1>4, FS_Subset
<1>6. Cardinality(S) \in Nat
  BY <1>5, FS_CardinalityType
<1>7. getList[h] = <<>> => S = {}
  BY DEF S
<1>8. getList[h] = <<>> => Cardinality(S) = 0
  BY <1>7, FS_EmptySet
<1>9. QED
  BY <1>6, <1>8 DEF Times, S

LEMMA AnswersAre ==
  ASSUME TypeOK, NEW h \in Hives, NEW g, NEW m \in Messages
  PROVE  /\ Answers(h, g, m) \in Seq({m, Done("address", 0)})
         /\ getList[h] = <<>> => Answers(h, g, m) = <<>>
<1> DEFINE n == Done("address", 0)
           a == Times(h, g, "query")
           b == Times(h, g, "push")
<1>1. a \in Nat /\ b \in Nat /\ (getList[h] = <<>> => a = 0 /\ b = 0)
  BY TimesIs
<1>2. Answers(h, g, m) = [i \in 1 .. a |-> m] \o [i \in 1 .. b |-> n]
  BY DEF Answers
<1> HIDE DEF a, b, n
<1>3. [i \in 1 .. a |-> m] \in Seq({m, n}) /\ [i \in 1 .. b |-> n] \in Seq({m, n})
  BY <1>1
<1>4. [i \in 1 .. a |-> m] \o [i \in 1 .. b |-> n] \in Seq({m, n})
  BY <1>3
<1>5. a = 0 /\ b = 0 => [i \in 1 .. a |-> m] \o [i \in 1 .. b |-> n] = <<>>
  <2>1. ASSUME a = 0, b = 0 PROVE [i \in 1 .. a |-> m] \o [i \in 1 .. b |-> n] = <<>>
    <3>1. [i \in 1 .. a |-> m] = <<>> /\ [i \in 1 .. b |-> n] = <<>>
      BY <2>1
    <3>2. QED
      BY <3>1
  <2>2. QED
    BY <2>1
<1>6. QED
  BY <1>1, <1>2, <1>4, <1>5 DEF n

LEMMA AnsweredMore ==
  ASSUME TypeOK, NEW l \in Links, NEW m \in Messages, NEW c \in Chans, NEW d,
         d = [k \in Links |-> IF k[1] = l[1] THEN c[k] \o Answers(l[1], k[2], m) ELSE c[k]]
  PROVE  /\ More(c, d, l[1], {m, Done("address", 0)})
         /\ getList[l[1]] = <<>> => d = c
<1> DEFINE h == l[1]
<1>1. h \in Hives
  BY LinkEnds
<1>2. \A k \in Links : c[k] \in Seq(Messages)
  BY DEF Chans
<1>3. \A k \in Links : c[k] \o <<>> = c[k]
  BY <1>2
<1>4. <<>> \in Seq({m, Done("address", 0)})
  OBVIOUS
<1>5. ASSUME NEW k \in Links
      PROVE  \E z \in Seq({m, Done("address", 0)}) : d[k] = c[k] \o z /\ (k[1] # h => z = <<>>)
  <2>1. CASE k[1] = h
    <3>1. d[k] = c[k] \o Answers(h, k[2], m) /\ Answers(h, k[2], m) \in Seq({m, Done("address", 0)})
      BY <1>1, <2>1, AnswersAre
    <3>2. QED
      BY <2>1, <3>1
  <2>2. CASE k[1] # h
    <3>1. d[k] = c[k] \o <<>>
      BY <1>3, <2>2
    <3>2. QED
      BY <1>4, <3>1
  <2>3. QED
    BY <2>1, <2>2
<1>6. getList[h] = <<>> => d = c
  <2>1. ASSUME getList[h] = <<>> PROVE \A k \in Links : d[k] = c[k]
    BY <1>1, <1>3, <2>1, AnswersAre
  <2>2. c = [k \in Links |-> c[k]]
    BY DEF Chans
  <2>3. QED
    BY <2>1, <2>2
<1>7. d = [k \in Links |-> d[k]]
  OBVIOUS
<1>8. QED
  BY <1>5, <1>6, <1>7 DEF More

LEMMA LargestIs ==
  ASSUME NEW a \in Nat, NEW b \in Nat
  PROVE  LET n == LargestOf({a, b})
         IN n \in Nat /\ n >= a /\ n >= b /\ n \in {a, b}
<1> DEFINE T == {a, b}
<1>1. \E n \in T : \A k \in T : k <= n
  <2>1. a <= b \/ b <= a
    OBVIOUS
  <2>2. QED
    BY <2>1
<1> DEFINE n == LargestOf(T)
<1>2. n \in T /\ \A k \in T : k <= n
  <2> HIDE DEF T
  <2> QED BY <1>1 DEF LargestOf
<1>3. QED
  BY <1>2

\* What an answer with n told.
LEMMA Telling ==
  ASSUME TypeOK, NEW l \in Links, NEW n \in Nat, Tells(l, n)
  PROVE  /\ told' \in [Hives -> Nat] /\ sources' \in [Hives -> SUBSET Hives]
         /\ \A g \in Hives \ {l[1]} : told'[g] = told[g] /\ sources'[g] = sources[g]
         /\ told'[l[1]] >= told[l[1]] /\ told'[l[1]] >= n /\ told'[l[1]] \in {told[l[1]], n}
         /\ sources'[l[1]] = sources[l[1]] \cup {l[2]}
<1> DEFINE k == LargestOf({told[l[1]], n})
<1>1. /\ l[1] \in Hives /\ l[2] \in Hives
      /\ told \in [Hives -> Nat] /\ sources \in [Hives -> SUBSET Hives]
  BY LinkEnds, TypeIs
<1>2. k \in Nat /\ k >= told[l[1]] /\ k >= n /\ k \in {told[l[1]], n}
  BY <1>1, LargestIs
<1>3. told' = [told EXCEPT ![l[1]] = k] /\ sources' = [sources EXCEPT ![l[1]] = @ \cup {l[2]}]
  BY DEF Tells
<1> HIDE DEF k
<1>4. QED
  BY <1>1, <1>2, <1>3

LEMMA TypedQueryAnswer ==
  ASSUME Typed, NEW l \in Links, QueryAnswer(l)
  PROVE  Typed'
<1> DEFINE h == l[1]
           m == Message(l)
           S == Woken(h)
           d == [k \in Links |-> IF k[1] = h THEN Taken(l)[k] \o Answers(h, k[2], m) ELSE Taken(l)[k]]
<1>1. TypeOK /\ Agency /\ Lists /\ h \in Hives /\ l[2] \in Hives
  BY LinkEnds DEF Typed
<1>2. chan \in Chans /\ Taken(l) \in Chans /\ m \in Messages /\ m.type = "data" /\ m.data \in Nat
  BY Got, MessageKinds DEF QueryAnswer
<1>3. CASE Owed(h) \subseteq Peers(h)
  <2>1. /\ chan' = d /\ getList' = [getList EXCEPT ![h] = <<>>]
        /\ waiting' = waiting \ S
        /\ got' = [w \in Workers |-> IF w \in S THEN m.data ELSE got[w]]
        /\ prog' = [w \in Workers |-> IF w \in S THEN Tail(prog[w]) ELSE prog[w]]
        /\ Tells(l, m.data)
        /\ UNCHANGED <<links, path, setList, writes, act, floor, crashed>>
    BY <1>3, Zenon DEF QueryAnswer
  <2>2. d \in Chans
    <3>1. {m, Done("address", 0)} \in SUBSET Messages
      BY <1>2, MessageMade
    <3>2. More(Taken(l), d, h, {m, Done("address", 0)})
      BY <1>1, <1>2, AnsweredMore
    <3> HIDE DEF d, m
    <3>3. QED
      BY <1>2, <3>1, <3>2, MoreChans
  <2>3. told' \in [Hives -> Nat] /\ sources' \in [Hives -> SUBSET Hives]
    BY <1>1, <1>2, <2>1, Telling
  <2> HIDE DEF d, S, m
  <2>4. \A w \in S : w \in Workers /\ prog[w] # <<>> /\ HiveOf[w] = h /\ WaitsTo(w, "get")
    BY <1>1, WokenWait DEF S, WaitsTo
  <2>5. /\ waiting' \subseteq Workers /\ prog' \in [Workers -> Seq({"get", "set"})]
        /\ \A w \in Workers \ S, op \in {"get", "set"} : WaitsTo(w, op)' <=> WaitsTo(w, op)
        /\ Programs => Programs'
    BY <1>1, <2>1, <2>4, Continued
  <2>6. TypeOK'
    <3>1. got' \in [Workers -> Nat] /\ getList' \in [Hives -> Seq(Entries)]
      BY <1>1, <1>2, <2>1, TypeIs
    <3>2. QED
      BY <1>1, <2>1, <2>2, <2>3, <2>5, <3>1, TypeIs, TypeIsNext
  <2>7. Agency'
    BY <1>1, <2>1 DEF Agency, At
  <2>8. Lists'
    <3>1. /\ Listed(h)' = {} /\ \A g \in Hives \ {h} : Listed(g)' = Listed(g)
      BY <1>1, <2>1, TypeIs DEF Listed
    <3>2. ASSUME NEW g \in Hives, NEW w \in Workers, [kind |-> "worker", id |-> w] \in Listed(g)'
          PROVE  HiveOf[w] = g /\ g # Owner /\ WaitsTo(w, "get")'
      BY <1>1, <2>4, <2>5, <3>1, <3>2 DEF Lists
    <3>3. ASSUME NEW g \in Hives, NEW w \in Workers, w \in setList'[g]
          PROVE  HiveOf[w] = g /\ g # Owner /\ WaitsTo(w, "set")'
      <4>1. HiveOf[w] = g /\ g # Owner /\ WaitsTo(w, "set")
        BY <1>1, <2>1, <3>3 DEF Lists
      <4>2. w \notin S
        BY <2>4, <4>1 DEF WaitsTo
      <4>3. QED
        BY <2>5, <4>1, <4>2
    <3>4. Programs'
      BY <1>1, <2>5 DEF Lists
    <3>5. QED
      BY <3>2, <3>3, <3>4 DEF Lists
  <2>9. QED
    BY <2>6, <2>7, <2>8 DEF Typed
<1>4. CASE ~ (Owed(h) \subseteq Peers(h))
  <2>1. Crash(h)
    BY <1>4 DEF QueryAnswer
  <2>2. QED
    BY <1>1, <2>1, CrashLoses
<1>5. QED
  BY <1>3, <1>4

\* Whom an answer to a push continues waits to push.
LEMMA PushersWait ==
  ASSUME Typed, NEW h \in Hives, NEW hash
  PROVE  \A w \in Pushers(h, hash) : /\ w \in Workers /\ w \in setList[h] /\ HiveOf[w] = h
                                     /\ WaitsTo(w, "set") /\ prog[w] # <<>>
  BY TypeIs DEF Pushers, Lists, Typed, WaitsTo

LEMMA TypedPushAnswer ==
  ASSUME Typed, NEW l \in Links, PushAnswer(l)
  PROVE  Typed'
<1> DEFINE h == l[1]
           S == Pushers(h, Message(l).hash)
<1>1. TypeOK /\ Agency /\ Lists /\ h \in Hives /\ l[2] \in Hives
  BY LinkEnds DEF Typed
<1>2. chan \in Chans /\ Taken(l) \in Chans /\ Message(l).made \in Nat
  BY Got, MessageKinds DEF PushAnswer
<1>3. /\ chan' = Taken(l) /\ setList' = [setList EXCEPT ![h] = @ \ S]
      /\ waiting' = waiting \ S
      /\ prog' = [w \in Workers |-> IF w \in S THEN Tail(prog[w]) ELSE prog[w]]
      /\ Tells(l, Message(l).made) \/ UNCHANGED <<told, sources>>
      /\ UNCHANGED <<links, path, getList, writes, act, got, floor, crashed>>
  BY Zenon DEF PushAnswer
<1>4. \A w \in S : w \in Workers /\ w \in setList[h] /\ HiveOf[w] = h /\ WaitsTo(w, "set")
  BY <1>1, PushersWait
<1>5. told' \in [Hives -> Nat] /\ sources' \in [Hives -> SUBSET Hives]
  <2>1. CASE Tells(l, Message(l).made)
    BY <1>1, <1>2, <2>1, Telling
  <2>2. CASE UNCHANGED <<told, sources>>
    BY <1>1, <2>2, TypeIs
  <2>3. QED
    BY <1>3, <2>1, <2>2
<1> HIDE DEF S
<1>6. /\ waiting' \subseteq Workers /\ prog' \in [Workers -> Seq({"get", "set"})]
      /\ \A w \in Workers \ S, op \in {"get", "set"} : WaitsTo(w, op)' <=> WaitsTo(w, op)
      /\ Programs => Programs'
  <2>1. /\ waiting' = waiting \ S
        /\ prog' = [w \in Workers |-> IF w \in S THEN Tail(prog[w]) ELSE prog[w]]
        /\ \A w \in S : w \in Workers /\ prog[w] # <<>>
    BY <1>3, <1>4 DEF WaitsTo
  <2>2. QED
    BY <1>1, <2>1, Continued
<1>7. TypeOK'
  <2>1. setList' \in [Hives -> SUBSET Workers]
    <3>1. setList \in [Hives -> SUBSET Workers]
      BY <1>1, TypeIs
    <3>2. QED
      BY <1>1, <1>3, <3>1
  <2>2. QED
    BY <1>1, <1>2, <1>3, <1>5, <1>6, <2>1, TypeIs, TypeIsNext
<1>8. Agency'
  BY <1>1, <1>3 DEF Agency, At
<1>9. Lists'
  <2>1. ASSUME NEW g \in Hives, NEW w \in Workers, [kind |-> "worker", id |-> w] \in Listed(g)'
        PROVE  HiveOf[w] = g /\ g # Owner /\ WaitsTo(w, "get")'
    <3>1. HiveOf[w] = g /\ g # Owner /\ WaitsTo(w, "get")
      BY <1>1, <1>3, <2>1 DEF Lists, Listed
    <3>2. w \notin S
      BY <1>4, <3>1 DEF WaitsTo
    <3>3. QED
      BY <1>6, <3>1, <3>2
  <2>2. ASSUME NEW g \in Hives, NEW w \in Workers, w \in setList'[g]
        PROVE  HiveOf[w] = g /\ g # Owner /\ WaitsTo(w, "set")'
    <3>0. setList \in [Hives -> SUBSET Workers] /\ setList' = [setList EXCEPT ![h] = @ \ S]
      BY <1>1, <1>3, TypeIs
    <3>1. w \in setList[g] /\ (g = h => w \notin S)
      BY ONLY <1>1, <2>2, <3>0
    <3>2. HiveOf[w] = g /\ g # Owner /\ WaitsTo(w, "set")
      BY <1>1, <3>1 DEF Lists
    <3>3. w \notin S
      BY <1>4, <3>1, <3>2
    <3>4. QED
      BY <1>6, <3>2, <3>3
  <2>3. Programs'
    BY <1>1, <1>6 DEF Lists
  <2>4. QED
    BY <2>1, <2>2, <2>3 DEF Lists
<1>10. QED
  BY <1>7, <1>8, <1>9 DEF Typed


\* A path is stored: it stays a path.
LEMMA PathStored ==
  ASSUME path \in Paths, NEW h \in Hives, NEW p \in [via : Hives, dist : Nat],
         path' = [path EXCEPT ![h] = p]
  PROVE  /\ path' \in Paths /\ path'[h] # NoPath
         /\ \A g \in Hives : path[g] # NoPath => path'[g] # NoPath
<1>1. NoPath \notin [via : Hives, dist : Nat]
  BY RemoteAssumption
<1>2. QED
  BY <1>1 DEF Paths

LEMMA TypedPathAnswer ==
  ASSUME Typed, NEW l \in Links, PathQuestion(l) \/ PathFound(l)
  PROVE  Typed'
<1> DEFINE h == l[1]
           m == Message(l)
<1>1. TypeOK /\ Agency /\ Lists /\ h \in Hives /\ l[2] \in Hives /\ l \in Agents /\ At(l) = h
  BY LinkEnds DEF Typed
<1>2. /\ chan \in Chans /\ Taken(l) \in Chans /\ m \in Messages /\ m.dist \in Nat
      /\ act \in [Agents -> Works] /\ path \in Paths /\ act[l].pc = "idle"
  <2>1. TypeOK
    BY <1>1
  <2>2. act \in [Agents -> Works] /\ path \in Paths
    BY <2>1, TypeIs
  <2>3. Gets(l, "where") \/ Gets(l, "found")
    BY DEF PathQuestion, PathFound
  <2>4. chan \in Chans /\ Taken(l) \in Chans /\ m \in Messages /\ m.type \in {"where", "found"} /\ act[l].pc = "idle"
    BY <2>3, Got
  <2>5. QED
    BY <2>2, <2>4, MessageKinds
<1> HIDE DEF m
<1>3. UNCHANGED <<links, getList, setList, writes, waiting, prog, got, floor, told, sources, crashed>>
  BY DEF PathQuestion, PathFound, history
<1>4. ASSUME chan' \in Chans, path' \in Paths, act' \in [Agents -> Works], Agency' PROVE Typed'
  <2>1. TypeOK'
    BY <1>1, <1>3, <1>4, TypeIs, TypeIsNext
  <2>2. Lists'
    BY <1>1, <1>3, ListsKept
  <2>3. QED
    BY <1>4, <2>1, <2>2 DEF Typed
<1>5. CASE PathQuestion(l)
  <2>1. path' = path
    BY <1>5 DEF PathQuestion
  <2>2. CASE h = Owner
    <3>1. /\ act' = act
          /\ chan' = SendTo(Taken(l), Owner, Peers(Owner), [type |-> "found", dist |-> 1])
      BY <1>5, <2>2 DEF PathQuestion
    <3>2. chan' \in Chans
      <4>1. [type |-> "found", dist |-> 1] \in Messages
        BY MessageMade
      <4>2. QED
        BY <1>2, <3>1, <4>1, Sent
    <3>3. Agency'
      BY <1>1, <2>1, <3>1 DEF Agency, At
    <3>4. QED
      BY <1>2, <1>4, <2>1, <3>1, <3>2, <3>3
  <2>3. CASE h # Owner
    <3> DEFINE x == [Rest EXCEPT !.pc = "search", !.skip = l[2]]
    <3>1. chan' = Taken(l) /\ act' = [act EXCEPT ![l] = x]
      BY <1>5, <2>3 DEF PathQuestion
    <3>2. WorkFor(l, x)
      BY <1>1, <2>3 DEF WorkFor, Works, Rest, Pcs
    <3> HIDE DEF x
    <3>3. act' \in [Agents -> Works] /\ Agency'
      BY <1>1, <2>1, <3>1, <3>2, AgencyBegun
    <3>4. QED
      BY <1>2, <1>4, <2>1, <3>1, <3>3
  <2>4. QED
    BY <2>2, <2>3
<1>6. CASE PathFound(l)
  <2>1. chan' = Taken(l)
    BY <1>6 DEF PathFound
  <2>2. CASE h # Owner /\ path[h] = NoPath
    <3> DEFINE x == [Rest EXCEPT !.pc = "tell", !.dist = m.dist]
               p == [via |-> l[2], dist |-> m.dist + 1]
    <3>1. path' = [path EXCEPT ![h] = p] /\ act' = [act EXCEPT ![l] = x]
      BY <1>6, <2>2 DEF PathFound, m
    <3>2. WorkFor(l, x) /\ p \in [via : Hives, dist : Nat]
      <4>1. p \in [via : Hives, dist : Nat]
        BY <1>1, <1>2
      <4>2. x \in Works /\ x.pc = "tell" /\ x.op = "get" /\ x.then = "none"
        BY <1>2 DEF Works, Rest, Pcs
      <4> HIDE DEF x, p
      <4>3. QED
        BY <2>2, <4>1, <4>2 DEF WorkFor
    <3> HIDE DEF x, p
    <3>3. path' \in Paths /\ \A g \in Hives : path[g] # NoPath => path'[g] # NoPath
      BY <1>1, <1>2, <3>1, <3>2, PathStored
    <3>4. act' \in [Agents -> Works] /\ Agency'
      BY <1>1, <3>1, <3>2, <3>3, AgencyBegun
    <3>5. QED
      BY <1>2, <1>4, <2>1, <3>3, <3>4
  <2>3. CASE ~ (h # Owner /\ path[h] = NoPath) /\ h # Owner /\ path[h].dist > m.dist
    <3> DEFINE x == [Rest EXCEPT !.pc = "via", !.dist = m.dist]
    <3>1. path' = path /\ act' = [act EXCEPT ![l] = x]
      BY <1>6, <2>3 DEF PathFound, m
    <3>2. /\ x \in Works /\ x.pc = "via" /\ x.op = "get" /\ x.then = "none"
      BY <1>2 DEF Works, Rest, Pcs
    <3> HIDE DEF x
    <3>3. /\ act' \in [Agents -> Works] /\ act'[l] = x /\ \A b \in Agents \ {l} : act'[b] = act[b]
      BY <1>1, <1>2, <3>1, <3>2, AgentBegun
    <3>4. Agency'
      BY <1>1, <1>2, <2>3, <3>1, <3>2, <3>3, AgencyKept, RemoteAssumption
    <3>5. QED
      BY <1>2, <1>4, <2>1, <3>1, <3>3, <3>4
  <2>4. CASE ~ (h # Owner /\ path[h] = NoPath) /\ ~ (h # Owner /\ path[h].dist > m.dist)
    <3>1. UNCHANGED <<path, act>>
      BY <1>6, <2>4 DEF PathFound, m
    <3>2. Agency'
      BY <1>1, <3>1 DEF Agency, At
    <3>3. QED
      BY <1>2, <1>4, <2>1, <3>1, <3>2
  <2>5. QED
    BY <2>2, <2>3, <2>4
<1>7. QED
  BY <1>5, <1>6

LEMMA TypedPathStep ==
  ASSUME Typed, NEW l \in Links, StoreVia(l) \/ StoreDist(l) \/ Tell(l)
  PROVE  Typed'
<1> DEFINE h == l[1]
<1>1. TypeOK /\ Agency /\ Lists /\ h \in Hives /\ l[2] \in Hives /\ l \in Agents /\ At(l) = h
  BY LinkEnds DEF Typed
<1>2. chan \in Chans /\ act \in [Agents -> Works] /\ path \in Paths /\ act[l] \in Works
  BY <1>1, TypeIs
<1>3. UNCHANGED <<links, getList, setList, writes, waiting, prog, got, floor, told, sources, crashed>>
  BY DEF StoreVia, StoreDist, Tell, history
<1>4. /\ h # Owner /\ act[l].pc \in {"via", "dist", "tell"}
      /\ act[l].pc \in {"via", "dist"} => path[h] # NoPath
      /\ act[l].op = "set" => act[l].then = "none"
      /\ act[l].op = "set" \/ act[l].then = "set" => act[l].who \in Turns
  BY <1>1 DEF StoreVia, StoreDist, Tell, Agency
<1>5. ASSUME chan' \in Chans, path' \in Paths, act' \in [Agents -> Works],
             \A b \in Agents \ {l} : act'[b] = act[b],
             \A g \in Hives : path[g] # NoPath => path'[g] # NoPath,
             act'[l].pc \in {"via", "dist"} => path'[h] # NoPath,
             act'[l].op = "set" => act'[l].then = "none",
             act'[l].op = "set" \/ act'[l].then = "set" => act'[l].who \in Turns
      PROVE  Typed'
  <2>1. TypeOK'
    BY <1>1, <1>3, <1>5, TypeIs, TypeIsNext
  <2>2. Agency'
    BY <1>1, <1>2, <1>4, <1>5, AgencyKept, RemoteAssumption
  <2>3. Lists'
    BY <1>1, <1>3, ListsKept
  <2>4. QED
    BY <2>1, <2>2, <2>3 DEF Typed
<1>6. CASE StoreVia(l) \/ StoreDist(l)
  <2> DEFINE p == IF StoreVia(l) THEN [path[h] EXCEPT !.via = l[2]] ELSE [path[h] EXCEPT !.dist = act[l].dist]
             label == IF StoreVia(l) THEN "dist" ELSE "tell"
  <2>1. path' = [path EXCEPT ![h] = p] /\ Goto(l, label) /\ chan' = chan /\ path[h] # NoPath
    BY <1>4, <1>6 DEF StoreVia, StoreDist
  <2>2. p \in [via : Hives, dist : Nat]
    <3>1. path[h] \in [via : Hives, dist : Nat] /\ act[l].dist \in Nat
      BY <1>1, <1>2, <2>1 DEF Paths, Works
    <3>2. QED
      BY <1>1, <3>1
  <2>3. label \in Pcs
    BY DEF Pcs
  <2> HIDE DEF p, label
  <2>4. path' \in Paths /\ path'[h] # NoPath /\ \A g \in Hives : path[g] # NoPath => path'[g] # NoPath
    BY <1>1, <1>2, <2>1, <2>2, PathStored
  <2>5. /\ act' \in [Agents -> Works] /\ \A b \in Agents \ {l} : act'[b] = act[b]
        /\ act'[l].op = act[l].op /\ act'[l].then = act[l].then /\ act'[l].who = act[l].who
    BY <1>1, <1>2, <2>1, <2>3, Gone
  <2>6. QED
    BY <1>2, <1>4, <1>5, <2>1, <2>4, <2>5
<1>7. CASE Tell(l)
  <2>1. /\ Finish(l) /\ path' = path
        /\ chan' = SendTo(chan, h, Peers(h), [type |-> "found", dist |-> act[l].dist + 1])
    BY <1>7 DEF Tell
  <2>2. chan' \in Chans
    <3>1. act[l].dist + 1 \in Nat
      BY <1>2 DEF Works
    <3>2. [type |-> "found", dist |-> act[l].dist + 1] \in Messages
      BY <3>1, MessageMade
    <3>3. QED
      BY <1>2, <2>1, <3>2, Sent
  <2>3. QED
    BY <1>1, <1>2, <1>4, <1>5, <2>1, <2>2, Finished
<1>8. QED
  BY <1>6, <1>7

LEMMA TypedStep ==
  Typed /\ [Next]_vars => Typed'
<1> SUFFICES ASSUME Typed, [Next]_vars PROVE Typed'
  OBVIOUS
<1>1. ASSUME NEW l \in Links, Handle(l) PROVE Typed'
  BY <1>1, TypedQuery, TypedQueryAnswer, TypedPushAnswer, TypedPathAnswer, TypedPathStep DEF Handle
<1>2. CASE UNCHANGED vars
  <2>1. TypeOK /\ TypeOK'
    BY <1>2, TypeIs, TypeIsNext DEF Typed, vars, history
  <2>2. QED
    BY <1>2, <2>1, ListsKept DEF Typed, vars, Agency, At
<1>3. QED
  BY <1>1, <1>2, TypedBegin, TypedAgent, BreakLoses DEF Next

LEMMA TypedInit ==
  Init => Typed
<1> SUFFICES ASSUME Init PROVE Typed
  OBVIOUS
<1>1. PICK s \in Starts : path = s.path /\ prog = s.prog
  BY DEF Init
<1>2. path \in Paths /\ prog \in [Workers -> Seq({"get", "set"})]
  BY <1>1, RemoteAssumption DEF Paths
<1>3. Rest \in Works /\ Rest.pc = "idle" /\ Rest.op = "get" /\ Rest.then = "none"
  BY DEF Rest, Works, Pcs
<1>4. TypeOK
  <2>1. chan \in Chans /\ getList \in [Hives -> Seq(Entries)] /\ act \in [Agents -> Works]
    BY <1>3 DEF Init, Chans
  <2>2. QED
    BY <1>2, <2>1, TypeIs DEF Init
<1>5. Agency
  BY <1>3 DEF Init, Agency
<1>6. Lists
  <2>1. Programs
    <3>1. ASSUME NEW w \in Workers, prog[w] # <<>> PROVE Turn(w) \in Turns
      <4>1. prog[w] = s.prog[w] /\ s.prog[w] \in Seq({"get", "set"})
        BY <1>1, RemoteAssumption
      <4>2. Len(prog[w]) \in DOMAIN s.prog[w]
        BY <3>1, <4>1
      <4>3. QED
        BY <4>1, <4>2, TurnFrom DEF Turn
    <3>2. QED
      BY <3>1 DEF Programs
  <2>2. QED
    BY <2>1 DEF Init, Lists, Listed
<1>7. QED
  BY <1>4, <1>5, <1>6 DEF Typed

\* The variables keep their types for every graph, every program of the
\* workers and whatever breaks: no message is sent that its receiver cannot
\* read, and no push without a worker (remote.c:833-1090).
THEOREM RemoteTyping == Spec => []TypeOK
<1>1. Typed => TypeOK
  BY DEF Typed
<1>2. QED
  BY <1>1, TypedInit, TypedStep, PTL DEF Spec

---------------------------------------------------------------------------
(* What happens to messages when some are taken, lost or sent *)

\* From each channel of c some first messages, or all, are gone.
Thin(d, c) ==
    \A l \in Links : \E k \in Nat : \A i \in DOMAIN d[l] :
        i \in Nat /\ i + k \in DOMAIN c[l] /\ d[l][i] = c[l][i + k]

LEMMA TakenThin ==
  ASSUME chan \in Chans, NEW l \in Links, chan[Back(l)] # <<>>
  PROVE  Thin(Taken(l), chan)
<1>1. ASSUME NEW k \in Links, k # Back(l)
      PROVE  \A i \in DOMAIN Taken(l)[k] :
                i \in Nat /\ i + 0 \in DOMAIN chan[k] /\ Taken(l)[k][i] = chan[k][i + 0]
  <2>1. Taken(l)[k] = chan[k] /\ chan[k] \in Seq(Messages)
    BY <1>1, Taking DEF Chans
  <2>2. QED
    BY <2>1
<1>2. \A i \in DOMAIN Taken(l)[Back(l)] :
         /\ i \in Nat /\ i + 1 \in DOMAIN chan[Back(l)]
         /\ Taken(l)[Back(l)][i] = chan[Back(l)][i + 1]
  <2> DEFINE q == chan[Back(l)]
  <2>1. Taken(l)[Back(l)] = Tail(q) /\ q \in Seq(Messages) /\ q # <<>>
    BY LinkEnds, Taking DEF Chans
  <2> HIDE DEF q
  <2>2. \A i \in DOMAIN Tail(q) : i \in Nat /\ i + 1 \in DOMAIN q /\ Tail(q)[i] = q[i + 1]
    BY <2>1
  <2>3. QED
    BY <2>1, <2>2 DEF q
<1>3. QED
  <2>1. 0 \in Nat /\ 1 \in Nat
    OBVIOUS
  <2>2. QED
    BY <1>1, <1>2, <2>1 DEF Thin

LEMMA LostThin ==
  ASSUME chan \in Chans, NEW d, \A l \in Links : d[l] \in {chan[l], <<>>}
  PROVE  Thin(d, chan)
<1>1. ASSUME NEW l \in Links
      PROVE  \A i \in DOMAIN d[l] : i \in Nat /\ i + 0 \in DOMAIN chan[l] /\ d[l][i] = chan[l][i + 0]
  <2>1. chan[l] \in Seq(Messages)
    BY DEF Chans
  <2>2. CASE d[l] = chan[l]
    BY <2>1, <2>2
  <2>3. CASE d[l] = <<>>
    BY <2>3
  <2>4. QED
    BY <1>1, <2>2, <2>3
<1>2. QED
  <2>1. 0 \in Nat
    OBVIOUS
  <2>2. QED
    BY <1>1, <2>1 DEF Thin

\* Each message under way after a send is an old one, or the new one behind all.
LEMMA SentWhere ==
  ASSUME NEW c \in Chans, NEW h, NEW to, NEW m \in Messages, NEW l \in Links
  PROVE  LET d == SendTo(c, h, to, m)
         IN /\ \A i \in DOMAIN d[l] : i \in Nat
            /\ \A i \in DOMAIN c[l] : i \in DOMAIN d[l] /\ d[l][i] = c[l][i]
            /\ \A i \in DOMAIN d[l] \ DOMAIN c[l] :
                  /\ d[l][i] = m /\ l[1] = h /\ l[2] \in to
                  /\ \A j \in DOMAIN d[l] : j <= i
                  /\ \A j \in DOMAIN d[l] \ DOMAIN c[l] : i = j
<1> DEFINE d == SendTo(c, h, to, m)
<1>1. d[l] = (IF l[1] = h /\ l[2] \in to THEN Append(c[l], m) ELSE c[l]) /\ c[l] \in Seq(Messages)
  BY Sent DEF Chans
<1> HIDE DEF d
<1>2. CASE l[1] = h /\ l[2] \in to
  <2> DEFINE q == c[l]
  <2>1. q \in Seq(Messages) /\ d[l] = Append(q, m)
    BY <1>1, <1>2
  <2> HIDE DEF q
  <2>2. /\ DOMAIN q = 1 .. Len(q) /\ DOMAIN Append(q, m) = 1 .. Len(q) + 1 /\ Len(q) \in Nat
        /\ Append(q, m)[Len(q) + 1] = m /\ \A i \in DOMAIN q : Append(q, m)[i] = q[i]
    BY <2>1
  <2>3. \A i \in DOMAIN d[l] \ DOMAIN q : i = Len(q) + 1
    BY <2>1, <2>2
  <2>4. QED
    BY <1>2, <2>1, <2>2, <2>3 DEF d, q
<1>3. CASE ~ (l[1] = h /\ l[2] \in to)
  <2>1. d[l] = c[l] /\ \A i \in DOMAIN c[l] : i \in Nat
    BY <1>1, <1>3
  <2>2. QED
    BY <2>1 DEF d
<1>4. QED
  BY <1>2, <1>3

---------------------------------------------------------------------------
(* A push is stored once: until then it is in one place, with an agent or  *)
(* in a request, and afterwards in none                                    *)

\* The worker has come to a turn, or is done with it.
Begun(t) ==
    \/ Len(prog[t[1]]) < t[2]
    \/ Len(prog[t[1]]) = t[2] /\ t[1] \in waiting

\* Its push is to be stored yet.
Pending(t) == Begun(t) /\ \A i \in DOMAIN writes : writes[i] # t

Holds(A, a, t) == A[a].pc # "idle" /\ A[a].who = t /\ "set" \in {A[a].op, A[a].then}
Bears(m, t) == m.type = "set" /\ m.who = t

\* With the channels c and what agents do in A.
Nowhere(c, A, t) ==
    /\ \A a \in Agents : ~ Holds(A, a, t)
    /\ \A l \in Links : \A i \in DOMAIN c[l] : ~ Bears(c[l][i], t)

OnePush(c, A) ==
    \A t \in Turns :
        /\ \A a \in Agents : Holds(A, a, t) =>
              /\ Pending(t)
              /\ \A b \in Agents : Holds(A, b, t) => a = b
              /\ \A l \in Links : \A i \in DOMAIN c[l] : ~ Bears(c[l][i], t)
        /\ \A l \in Links : \A i \in DOMAIN c[l] : Bears(c[l][i], t) =>
              /\ Pending(t)
              /\ \A k \in Links : \A j \in DOMAIN c[k] : Bears(c[k][j], t) => l = k /\ i = j

Stored ==
    /\ \A t \in Turns : Begun(t) \/ \A i \in DOMAIN writes : writes[i] # t
    /\ PushedOnce

LEMMA OnePushThin ==
  ASSUME NEW c, NEW d, NEW A, OnePush(c, A), Thin(d, c)
  PROVE  OnePush(d, A)
<1>1. ASSUME NEW l \in Links, NEW i \in DOMAIN d[l]
      PROVE  \E j \in DOMAIN c[l] : d[l][i] = c[l][j]
  BY DEF Thin
<1>2. ASSUME NEW l \in Links, NEW i \in DOMAIN d[l], NEW j \in DOMAIN d[l], i # j
      PROVE  \E x \in DOMAIN c[l], y \in DOMAIN c[l] : x # y /\ d[l][i] = c[l][x] /\ d[l][j] = c[l][y]
  <2>1. PICK n \in Nat : \A x \in DOMAIN d[l] :
            x \in Nat /\ x + n \in DOMAIN c[l] /\ d[l][x] = c[l][x + n]
    BY DEF Thin
  <2>2. i \in Nat /\ j \in Nat /\ i + n # j + n
    BY <1>2, <2>1
  <2>3. QED
    BY <2>1, <2>2
<1>3. ASSUME NEW t \in Turns, NEW a \in Agents, Holds(A, a, t)
      PROVE  /\ Pending(t)
             /\ \A b \in Agents : Holds(A, b, t) => a = b
             /\ \A l \in Links : \A i \in DOMAIN d[l] : ~ Bears(d[l][i], t)
  BY <1>1, <1>3 DEF OnePush
<1>4. ASSUME NEW t \in Turns, NEW l \in Links, NEW i \in DOMAIN d[l], Bears(d[l][i], t)
      PROVE  /\ Pending(t)
             /\ \A k \in Links : \A j \in DOMAIN d[k] : Bears(d[k][j], t) => l = k /\ i = j
  <2>1. PICK x \in DOMAIN c[l] : d[l][i] = c[l][x]
    BY <1>1
  <2>2. Pending(t)
    BY <1>4, <2>1 DEF OnePush
  <2>3. ASSUME NEW k \in Links, NEW j \in DOMAIN d[k], Bears(d[k][j], t) PROVE l = k
    <3>1. PICK y \in DOMAIN c[k] : d[k][j] = c[k][y]
      BY <1>1
    <3>2. QED
      BY <1>4, <2>1, <2>3, <3>1 DEF OnePush
  <2>4. ASSUME NEW j \in DOMAIN d[l], Bears(d[l][j], t), i # j PROVE FALSE
    <3>1. PICK y \in DOMAIN c[l], z \in DOMAIN c[l] : y # z /\ d[l][i] = c[l][y] /\ d[l][j] = c[l][z]
      BY <1>2, <2>4
    <3>2. QED
      BY <1>4, <2>4, <3>1 DEF OnePush
  <2>5. QED
    BY <2>2, <2>3, <2>4
<1>5. QED
  BY <1>3, <1>4 DEF OnePush

\* After a push is taken from a channel it is nowhere.
LEMMA OnePushTaken ==
  ASSUME chan \in Chans, NEW A, OnePush(chan, A), NEW l \in Links, chan[Back(l)] # <<>>,
         NEW t \in Turns, Bears(Message(l), t)
  PROVE  OnePush(Taken(l), A) /\ Nowhere(Taken(l), A, t) /\ Pending(t)
<1>1. /\ Back(l) \in Links /\ 1 \in DOMAIN chan[Back(l)] /\ Message(l) = chan[Back(l)][1]
      /\ Taken(l)[Back(l)] = Tail(chan[Back(l)])
      /\ \A k \in Links \ {Back(l)} : Taken(l)[k] = chan[k]
  BY LinkEnds, Taking
<1>2. OnePush(Taken(l), A)
  BY TakenThin, OnePushThin
<1>3. Bears(chan[Back(l)][1], t)
  BY <1>1
<1>4. Pending(t) /\ \A a \in Agents : ~ Holds(A, a, t)
  BY <1>1, <1>3 DEF OnePush
<1>5. \A k \in Links : \A j \in DOMAIN chan[k] : Bears(chan[k][j], t) => k = Back(l) /\ j = 1
  BY <1>1, <1>3 DEF OnePush
<1>6. \A k \in Links \ {Back(l)} : \A i \in DOMAIN Taken(l)[k] : ~ Bears(Taken(l)[k][i], t)
  BY <1>1, <1>5
<1>7. \A i \in DOMAIN Taken(l)[Back(l)] : ~ Bears(Taken(l)[Back(l)][i], t)
  <2> DEFINE q == chan[Back(l)]
  <2>1. q \in Seq(Messages) /\ q # <<>>
    BY <1>1 DEF Chans
  <2> HIDE DEF q
  <2>2. \A i \in DOMAIN Tail(q) : i + 1 \in DOMAIN q /\ Tail(q)[i] = q[i + 1] /\ i + 1 # 1
    BY <2>1
  <2>3. QED
    BY <1>1, <1>5, <2>2 DEF q
<1>8. QED
  BY <1>2, <1>4, <1>6, <1>7 DEF Nowhere

\* A message that is no push, and one that is.
LEMMA OnePushOther ==
  ASSUME NEW c \in Chans, NEW A, OnePush(c, A), NEW h, NEW to, NEW m \in Messages,
         \A t \in Turns : ~ Bears(m, t)
  PROVE  OnePush(SendTo(c, h, to, m), A)
<1> DEFINE d == SendTo(c, h, to, m)
<1>1. \A l \in Links : \A i \in DOMAIN d[l] : i \in DOMAIN c[l] \/ d[l][i] = m
  BY SentWhere
<1>2. \A l \in Links : \A i \in DOMAIN c[l] : d[l][i] = c[l][i]
  BY SentWhere
<1> HIDE DEF d
<1>3. \A t \in Turns, l \in Links : \A i \in DOMAIN d[l] :
         Bears(d[l][i], t) => i \in DOMAIN c[l] /\ Bears(c[l][i], t)
  BY <1>1, <1>2
<1>4. OnePush(d, A)
  BY <1>3 DEF OnePush
<1>5. QED
  BY <1>4 DEF d

LEMMA OnePushSent ==
  ASSUME NEW c \in Chans, NEW A, OnePush(c, A), NEW h, NEW g, NEW m \in Messages,
         NEW t \in Turns, Nowhere(c, A, t), Pending(t), Bears(m, t)
  PROVE  OnePush(SendTo(c, h, {g}, m), A)
<1> DEFINE d == SendTo(c, h, {g}, m)
<1>1. \A l \in Links : \A i \in DOMAIN d[l] :
         i \in DOMAIN c[l] \/ (d[l][i] = m /\ l[1] = h /\ l[2] = g
                               /\ \A j \in DOMAIN d[l] : j \in DOMAIN c[l] \/ i = j)
  <2> SUFFICES ASSUME NEW l \in Links, NEW i \in DOMAIN d[l], i \notin DOMAIN c[l]
               PROVE  d[l][i] = m /\ l[1] = h /\ l[2] = g
                      /\ \A j \in DOMAIN d[l] : j \in DOMAIN c[l] \/ i = j
    OBVIOUS
  <2>1. \A x \in DOMAIN d[l] \ DOMAIN c[l] :
           /\ d[l][x] = m /\ l[1] = h /\ l[2] \in {g}
           /\ \A j \in DOMAIN d[l] \ DOMAIN c[l] : x = j
    <3>1. c \in Chans /\ m \in Messages
      OBVIOUS
    <3>2. LET e == SendTo(c, h, {g}, m)
          IN \A x \in DOMAIN e[l] \ DOMAIN c[l] :
                /\ e[l][x] = m /\ l[1] = h /\ l[2] \in {g}
                /\ \A j \in DOMAIN e[l] : j <= x
                /\ \A j \in DOMAIN e[l] \ DOMAIN c[l] : x = j
      BY <3>1, SentWhere, Zenon
    <3>3. QED
      BY <3>2, Zenon
  <2> HIDE DEF d
  <2>2. QED
    BY <2>1
<1>2. \A l \in Links : \A i \in DOMAIN c[l] : d[l][i] = c[l][i]
  BY SentWhere
<1> HIDE DEF d
<1>3. \A u \in Turns : Bears(m, u) => u = t
  BY DEF Bears
<1>4. \A u \in Turns \ {t}, l \in Links : \A i \in DOMAIN d[l] :
         Bears(d[l][i], u) => i \in DOMAIN c[l] /\ Bears(c[l][i], u)
  BY <1>1, <1>2, <1>3
<1>5. \A l \in Links : \A i \in DOMAIN d[l] : Bears(d[l][i], t) => i \notin DOMAIN c[l]
  BY <1>2 DEF Nowhere
<1>6. ASSUME NEW l \in Links, NEW k \in Links, NEW i \in DOMAIN d[l], NEW j \in DOMAIN d[k],
             Bears(d[l][i], t), Bears(d[k][j], t)
      PROVE  l = k /\ i = j
  <2>1. l[1] = k[1] /\ l[2] = k[2]
    BY <1>1, <1>5, <1>6
  <2>2. l = k
    <3>1. l = <<l[1], l[2]>> /\ k = <<k[1], k[2]>>
      BY LinkEnds
    <3>2. QED
      BY <2>1, <3>1
  <2>3. QED
    BY <1>1, <1>5, <1>6, <2>2
<1>7. OnePush(d, A)
  <2>1. ASSUME NEW u \in Turns PROVE
          /\ \A a \in Agents : Holds(A, a, u) =>
              /\ Pending(u)
              /\ \A b \in Agents : Holds(A, b, u) => a = b
              /\ \A l \in Links : \A i \in DOMAIN d[l] : ~ Bears(d[l][i], u)
          /\ \A l \in Links : \A i \in DOMAIN d[l] : Bears(d[l][i], u) =>
              /\ Pending(u)
              /\ \A k \in Links : \A j \in DOMAIN d[k] : Bears(d[k][j], u) => l = k /\ i = j
    <3>1. CASE u = t
      BY <1>6, <3>1 DEF Nowhere
    <3>2. CASE u # t
      BY <1>4, <3>2 DEF OnePush
    <3>3. QED
      BY <3>1, <3>2
  <2>2. QED
    BY <2>1 DEF OnePush
<1>8. QED
  BY <1>7 DEF d

\* Agents that let go of pushes, and one that gets one.
LEMMA OnePushFewer ==
  ASSUME NEW c, NEW A, NEW B, OnePush(c, A),
         \A a \in Agents, t \in Turns : Holds(B, a, t) => Holds(A, a, t)
  PROVE  OnePush(c, B)
  BY DEF OnePush

LEMMA OnePushHeld ==
  ASSUME NEW A, OnePush(chan', A), NEW t \in Turns, NEW a \in Agents,
         Nowhere(chan', A, t), Pending(t)',
         \A u \in Turns : Pending(u) => Pending(u)',
         \A b \in Agents, u \in Turns : Holds(act', b, u) => Holds(A, b, u) \/ (b = a /\ u = t)
  PROVE  OnePush(chan, act)'
<1>1. ASSUME NEW u \in Turns PROVE
        /\ \A x \in Agents : Holds(act', x, u) =>
            /\ Pending(u)'
            /\ \A b \in Agents : Holds(act', b, u) => x = b
            /\ \A l \in Links : \A i \in DOMAIN chan'[l] : ~ Bears(chan'[l][i], u)
        /\ \A l \in Links : \A i \in DOMAIN chan'[l] : Bears(chan'[l][i], u) =>
            /\ Pending(u)'
            /\ \A k \in Links : \A j \in DOMAIN chan'[k] : Bears(chan'[k][j], u) => l = k /\ i = j
  <2>1. CASE u = t
    BY <2>1 DEF Nowhere
  <2>2. CASE u # t
    BY <2>2 DEF OnePush
  <2>3. QED
    BY <2>1, <2>2
<1>2. QED
  BY <1>1 DEF OnePush, Holds

\* Workers that go on have no push under way.
LEMMA OnePushWaits ==
  ASSUME OnePush(chan', act'),
         \A t \in Turns : Pending(t) => Pending(t)' \/ Nowhere(chan', act', t)
  PROVE  OnePush(chan, act)'
<1>1. ASSUME NEW t \in Turns, NEW a \in Agents, Holds(act', a, t)
      PROVE  /\ Pending(t)'
             /\ \A b \in Agents : Holds(act', b, t) => a = b
             /\ \A l \in Links : \A i \in DOMAIN chan'[l] : ~ Bears(chan'[l][i], t)
  BY <1>1 DEF OnePush, Nowhere
<1>2. ASSUME NEW t \in Turns, NEW l \in Links, NEW i \in DOMAIN chan'[l], Bears(chan'[l][i], t)
      PROVE  /\ Pending(t)'
             /\ \A k \in Links : \A j \in DOMAIN chan'[k] : Bears(chan'[k][j], t) => l = k /\ i = j
  BY <1>2 DEF OnePush, Nowhere
<1>3. QED
  BY <1>1, <1>2 DEF OnePush, Holds

\* The steps that send no push keep this form.
LEMMA OnePushKept ==
  ASSUME NEW A, OnePush(chan', A),
         \A a \in Agents, t \in Turns : Holds(act', a, t) => Holds(A, a, t),
         \A t \in Turns : Pending(t) => Pending(t)'
  PROVE  OnePush(chan, act)'
  BY OnePushFewer, OnePushWaits

\* Steps that store nothing, and that let workers go on or begin.
LEMMA PendingKept ==
  ASSUME writes' = writes, \A t \in Turns : Begun(t) => Begun(t)'
  PROVE  \A t \in Turns : Pending(t) => Pending(t)'
  BY DEF Pending

LEMMA BegunSame ==
  ASSUME UNCHANGED <<prog, waiting>>
  PROVE  \A t \in Turns : Begun(t) <=> Begun(t)'
  BY DEF Begun

\* Messages that are no pushes are sent.
LEMMA OnePushMore ==
  ASSUME NEW c \in Chans, NEW A, OnePush(c, A), NEW d, NEW h, NEW M \in SUBSET Messages,
         More(c, d, h, M), \A m \in M, t \in Turns : ~ Bears(m, t)
  PROVE  OnePush(d, A)
<1>1. ASSUME NEW l \in Links, NEW i \in DOMAIN d[l], i \notin DOMAIN c[l]
      PROVE  d[l][i] \in M
  BY <1>1, MoreWhere
<1>2. ASSUME NEW l \in Links, NEW i \in DOMAIN c[l]
      PROVE  d[l][i] = c[l][i]
  BY <1>2, MoreWhere
<1>3. \A t \in Turns, l \in Links : \A i \in DOMAIN d[l] :
         Bears(d[l][i], t) => i \in DOMAIN c[l] /\ Bears(c[l][i], t)
  BY <1>1, <1>2
<1>4. QED
  BY <1>3 DEF OnePush

LEMMA PushLost ==
  ASSUME Typed, OnePush(chan, act), \A l \in Links : chan'[l] \in {chan[l], <<>>},
         UNCHANGED <<writes, act, waiting, prog>>
  PROVE  OnePush(chan, act)'
<1>1. chan \in Chans
  BY TypeIs DEF Typed
<1>2. OnePush(chan', act)
  BY <1>1, LostThin, OnePushThin
<1>3. QED
  BY <1>2, OnePushKept, PendingKept, BegunSame

\* The turn that a worker begins or makes at the owner is nowhere yet.
LEMMA TurnNew ==
  ASSUME Typed, OnePush(chan, act), NEW w \in Workers, Begin(w)
  PROVE  /\ Turn(w) \in Turns /\ Turn(w) \in Agents /\ ~ Begun(Turn(w))
         /\ Nowhere(chan, act, Turn(w))
         /\ prog[w] # <<>> /\ w \notin waiting /\ chan' = chan
<1>1. prog[w] # <<>> /\ w \notin waiting /\ chan' = chan
  BY DEF Begin, BeginGet, BeginSet, LocalGet, LocalSet, Runs
<1>2. Turn(w) \in Turns /\ Turn(w) \in Agents
  BY <1>1 DEF Typed, Lists, Programs, Agents
<1>3. ~ Begun(Turn(w))
  <2>1. prog[w] \in Seq({"get", "set"})
    BY TypeIs DEF Typed
  <2>2. Turn(w)[1] = w /\ Turn(w)[2] = Len(prog[w]) /\ Len(prog[w]) \in Nat
    BY <2>1 DEF Turn
  <2>3. QED
    BY <1>1, <2>2 DEF Begun
<1>4. Nowhere(chan, act, Turn(w))
  BY <1>2, <1>3 DEF OnePush, Nowhere, Pending
<1>5. QED
  BY <1>1, <1>2, <1>3, <1>4

LEMMA Shorter ==
  ASSUME NEW q \in Seq({"get", "set"})
  PROVE  Len(q) \in Nat /\ (q # <<>> => Len(Tail(q)) = Len(q) - 1 /\ Len(q) > 0)
  OBVIOUS

LEMMA BegunBegin ==
  ASSUME Typed, NEW w \in Workers, Begin(w), NEW t \in Turns, Begun(t) \/ t = Turn(w)
  PROVE  Begun(t)'
<1>0. prog \in [Workers -> Seq({"get", "set"})] /\ prog[w] # <<>>
  BY TypeIs DEF Typed, Begin, BeginGet, BeginSet, LocalGet, LocalSet, Runs
<1>1. t[1] \in Workers /\ t[2] \in Nat /\ \A v \in Workers : Len(prog[v]) \in Nat
  <2>1. \A v \in Workers : prog[v] \in Seq({"get", "set"})
    BY <1>0
  <2>2. QED
    BY <2>1, TurnIs, Shorter
<1>2. t = Turn(w) => t[1] = w /\ t[2] = Len(prog[w])
  BY DEF Turn
<1>3. CASE BeginGet(w) \/ BeginSet(w)
  <2>1. prog' = prog /\ waiting' = waiting \cup {w}
    BY <1>3 DEF BeginGet, BeginSet
  <2>2. QED
    BY <1>2, <2>1 DEF Begun
<1>4. CASE LocalGet(w) \/ LocalSet(w)
  <2>1. prog' = [prog EXCEPT ![w] = Tail(@)] /\ waiting' = waiting
    BY <1>4 DEF LocalGet, LocalSet
  <2>2. prog'[w] = Tail(prog[w]) /\ \A v \in Workers \ {w} : prog'[v] = prog[v]
    BY <1>0, <2>1
  <2>3. Len(prog'[w]) < Len(prog[w]) /\ Len(prog'[w]) \in Nat
    BY <1>0, <2>2
  <2>4. CASE t[1] = w
    BY <1>1, <1>2, <2>3, <2>4 DEF Begun
  <2>5. CASE t[1] # w
    BY <1>1, <1>2, <2>1, <2>2, <2>5 DEF Begun
  <2>6. QED
    BY <2>4, <2>5
<1>5. QED
  BY <1>3, <1>4 DEF Begin

\* Workers that go on: their turn was begun, and is over.
LEMMA BegunContinued ==
  ASSUME TypeOK, NEW S, \A w \in S : w \in Workers /\ prog[w] # <<>> /\ w \in waiting,
         waiting' = waiting \ S,
         prog' = [w \in Workers |-> IF w \in S THEN Tail(prog[w]) ELSE prog[w]]
  PROVE  \A t \in Turns : Begun(t) => Begun(t)'
<1> SUFFICES ASSUME NEW t \in Turns, Begun(t) PROVE Begun(t)'
  OBVIOUS
<1> DEFINE w == t[1]
<1>1. w \in Workers /\ t[2] \in Nat /\ prog[w] \in Seq({"get", "set"})
  BY TurnIs, TypeIs
<1>2. CASE w \in S
  <2>1. prog'[w] = Tail(prog[w]) /\ prog[w] # <<>> /\ prog[w] \in Seq({"get", "set"})
    BY <1>1, <1>2
  <2> HIDE DEF w
  <2>2. Len(prog'[w]) < Len(prog[w]) /\ Len(prog'[w]) \in Nat /\ Len(prog[w]) \in Nat
    <3>1. Len(Tail(prog[w])) = Len(prog[w]) - 1 /\ Len(prog[w]) > 0 /\ Len(prog[w]) \in Nat
      BY <2>1, Shorter
    <3>2. Len(prog'[w]) = Len(Tail(prog[w]))
      BY <2>1
    <3>3. QED
      BY <3>1, <3>2
  <2>3. Len(prog[w]) <= t[2]
    BY <1>1, <2>2 DEF Begun, w
  <2>4. QED
    BY <1>1, <2>2, <2>3 DEF Begun, w
<1>3. CASE w \notin S
  <2>1. prog'[w] = prog[w] /\ (w \in waiting' <=> w \in waiting)
    BY <1>1, <1>3
  <2>2. QED
    BY <2>1 DEF Begun
<1>4. QED
  BY <1>2, <1>3

\* One more push is stored.
LEMMA PendingStored ==
  ASSUME writes \in Seq(Turns), NEW t \in Turns, writes' = Append(writes, t),
         NEW u \in Turns, Begun(u) => Begun(u)'
  PROVE  Pending(u) => Pending(u)' \/ u = t
<1>1. ASSUME NEW i \in DOMAIN writes' PROVE (i \in DOMAIN writes /\ writes'[i] = writes[i]) \/ writes'[i] = t
  BY <1>1
<1>2. QED
  BY <1>1 DEF Pending

LEMMA StoredMore ==
  ASSUME writes \in Seq(Turns), NEW t \in Turns, writes' = Append(writes, t), Stored, Begun(t)',
         \A i \in DOMAIN writes : writes[i] # t, \A u \in Turns : Begun(u) => Begun(u)'
  PROVE  Stored'
<1> DEFINE W == writes'
<1>1. /\ \A i \in DOMAIN W : (i \in DOMAIN writes /\ W[i] = writes[i]) \/ (i = Len(writes) + 1 /\ W[i] = t)
      /\ W \in Seq(Turns)
  OBVIOUS
<1> HIDE DEF W
<1>2. ASSUME NEW u \in Turns, NEW i \in DOMAIN W, W[i] = u PROVE Begun(u)'
  BY <1>1, <1>2 DEF Stored
<1>3. ASSUME NEW i \in DOMAIN W, NEW j \in DOMAIN W, W[i] = W[j] PROVE i = j
  BY <1>1, <1>3 DEF Stored, PushedOnce
<1>4. QED
  BY <1>2, <1>3 DEF Stored, PushedOnce, W

LEMMA NowhereOther ==
  ASSUME NEW c \in Chans, NEW A, NEW t \in Turns, Nowhere(c, A, t), NEW h, NEW to, NEW m \in Messages,
         ~ Bears(m, t)
  PROVE  Nowhere(SendTo(c, h, to, m), A, t)
<1> DEFINE d == SendTo(c, h, to, m)
<1>1. \A l \in Links : \A i \in DOMAIN d[l] : i \in DOMAIN c[l] \/ d[l][i] = m
  BY SentWhere
<1>2. \A l \in Links : \A i \in DOMAIN c[l] : d[l][i] = c[l][i]
  BY SentWhere
<1> HIDE DEF d
<1>3. Nowhere(d, A, t)
  BY <1>1, <1>2 DEF Nowhere
<1>4. QED
  BY <1>3 DEF d

LEMMA PushBegin ==
  ASSUME Typed, OnePush(chan, act), Stored, NEW w \in Workers, Begin(w)
  PROVE  OnePush(chan, act)' /\ Stored'
<1>0. PICK t \in Turns : t = Turn(w)
  BY TurnNew
<1>1. /\ t \in Turns /\ t \in Agents /\ ~ Begun(t) /\ Nowhere(chan, act, t) /\ chan' = chan
      /\ act \in [Agents -> Works] /\ writes \in Seq(Turns)
  BY <1>0, TurnNew, TypeIs DEF Typed
<1>2. \A u \in Turns : Begun(u) \/ u = t => Begun(u)'
  BY <1>0, BegunBegin
<1>3. CASE BeginGet(w)
  <2>1. act' = [act EXCEPT ![t] = [Rest EXCEPT !.pc = "ask", !.op = "get"]] /\ writes' = writes
    BY <1>0, <1>3 DEF BeginGet
  <2>2. act'[t].op = "get" /\ act'[t].then = "none" /\ \A b \in Agents \ {t} : act'[b] = act[b]
    BY <1>1, <2>1 DEF Rest
  <2>3. \A a \in Agents, u \in Turns : Holds(act', a, u) => Holds(act, a, u)
    BY <2>2 DEF Holds
  <2>4. OnePush(chan, act)'
    BY <1>1, <1>2, <2>1, <2>3, OnePushKept, PendingKept
  <2>5. Stored'
    BY <1>1, <1>2, <2>1 DEF Stored, PushedOnce
  <2>6. QED
    BY <2>4, <2>5
<1>4. CASE BeginSet(w)
  <2>1. /\ act' = [act EXCEPT ![t] = [Rest EXCEPT !.pc = "ask", !.op = "set", !.who = t]]
        /\ writes' = writes
    BY <1>0, <1>4 DEF BeginSet
  <2>2. act'[t].who = t /\ \A b \in Agents \ {t} : act'[b] = act[b]
    BY <1>1, <2>1 DEF Rest
  <2>3. \A b \in Agents, u \in Turns :
           Holds(act', b, u) => Holds(act, b, u) \/ (b = t /\ u = t)
    BY <2>2 DEF Holds
  <2>4. Pending(t)' /\ \A u \in Turns : Pending(u) => Pending(u)'
    BY <1>1, <1>2, <2>1 DEF Pending, Stored
  <2>5. OnePush(chan, act)'
    BY <1>1, <2>3, <2>4, OnePushHeld
  <2>6. Stored'
    BY <1>1, <1>2, <2>1 DEF Stored, PushedOnce
  <2>7. QED
    BY <2>5, <2>6
<1>5. CASE LocalGet(w)
  <2>1. act' = act /\ writes' = writes
    BY <1>5 DEF LocalGet
  <2>2. OnePush(chan, act)'
    BY <1>1, <1>2, <2>1, OnePushKept, PendingKept
  <2>3. Stored'
    BY <1>1, <1>2, <2>1 DEF Stored, PushedOnce
  <2>4. QED
    BY <2>2, <2>3
<1>6. CASE LocalSet(w)
  <2>1. act' = act /\ writes' = Append(writes, t)
    BY <1>0, <1>6 DEF LocalSet
  <2>2. \A u \in Turns : Pending(u) => Pending(u)' \/ u = t
    BY <1>1, <1>2, <2>1, PendingStored
  <2>3. OnePush(chan, act)'
    BY <1>1, <2>1, <2>2, OnePushWaits
  <2>4. Stored'
    <3>1. \A i \in DOMAIN writes : writes[i] # t
      BY <1>1 DEF Stored
    <3>2. QED
      BY <1>1, <1>2, <2>1, <3>1, StoredMore
  <2>5. QED
    BY <2>3, <2>4
<1>7. QED
  BY <1>3, <1>4, <1>5, <1>6 DEF Begin

LEMMA PushAgent ==
  ASSUME Typed, OnePush(chan, act), NEW a \in Agents, AgentStep(a)
  PROVE  OnePush(chan, act)'
<1> DEFINE h == At(a)
<1>1. /\ TypeOK /\ Agency /\ act \in [Agents -> Works] /\ chan \in Chans /\ act[a].pc # "idle"
      /\ act[a] \in Works
  BY TypeIs DEF Typed, AgentStep, AskKnown, AskUnknown, Search, Flood
<1>2. UNCHANGED <<writes, waiting, prog>> /\ \A t \in Turns : Pending(t) => Pending(t)'
  BY PendingKept, BegunSame DEF AgentStep, AskKnown, AskUnknown, Search, Flood, Crash
<1>3. ASSUME Finish(a)
      PROVE  /\ \A b \in Agents, t \in Turns : Holds(act', b, t) => Holds(act, b, t)
             /\ act[a].op = "set" => \A t \in Turns : ~ Holds(act', a, t)
  <2>1. /\ \A b \in Agents \ {a} : act'[b] = act[b]
        /\ act'[a].then = "none"
        /\ act'[a].op = "set" => act[a].then = "set" /\ act'[a].who = act[a].who
    BY <1>1, <1>3, Finished
  <2>2. act[a].op = "set" => act[a].then = "none"
    BY <1>1 DEF Agency
  <2>3. QED
    BY <1>1, <2>1, <2>2 DEF Holds
<1>4. CASE AskKnown(a)
  <2>1. CASE path[h].via \notin Peers(h)
    <3>1. Crash(h) /\ h \in Hives
      BY <1>4, <2>1, Places DEF AskKnown
    <3>2. QED
      BY <3>1, CrashLoses, PushLost DEF Crash
  <2>2. CASE path[h].via \in Peers(h)
    <3> DEFINE m == Request(a)
    <3>1. Finish(a) /\ chan' = SendTo(chan, h, {path[h].via}, m)
      BY <1>4, <2>2 DEF AskKnown
    <3>2. m \in Messages /\ m.type = act[a].op /\ m.type \in {"get", "set"} /\ m.who = act[a].who
      BY RequestIs
    <3> HIDE DEF m
    <3>3. CASE act[a].op = "get"
      <4>1. OnePush(chan', act)
        BY <1>1, <3>1, <3>2, <3>3, OnePushOther DEF Bears
      <4>2. QED
        BY <1>2, <1>3, <3>1, <4>1, OnePushKept
    <3>4. CASE act[a].op = "set"
      <4> DEFINE t == act[a].who
      <4>1. t \in Turns /\ Holds(act, a, t)
        BY <1>1, <3>4 DEF Agency, Holds
      <4>2. OnePush(chan, act')
        BY <1>3, <3>1, OnePushFewer
      <4>3. Nowhere(chan, act', t) /\ Pending(t)
        <5>1. Pending(t) /\ \A l \in Links : \A i \in DOMAIN chan[l] : ~ Bears(chan[l][i], t)
          BY <4>1 DEF OnePush
        <5>2. \A b \in Agents : Holds(act, b, t) => b = a
          BY <4>1 DEF OnePush
        <5>3. \A b \in Agents : ~ Holds(act', b, t)
          BY <1>3, <3>1, <3>4, <4>1, <5>2
        <5>4. QED
          BY <5>1, <5>3 DEF Nowhere
      <4>4. Bears(m, t)
        BY <3>2, <3>4 DEF Bears
      <4> HIDE DEF t
      <4>5. OnePush(chan', act')
        BY <1>1, <3>1, <3>2, <4>1, <4>2, <4>3, <4>4, OnePushSent
      <4>6. QED
        BY <1>2, <4>5, OnePushWaits
    <3>5. QED
      BY <3>2, <3>3, <3>4
  <2>3. QED
    BY <2>1, <2>2
<1>5. CASE AskUnknown(a) \/ Search(a)
  <2>1. PICK label \in Pcs : Goto(a, label) /\ chan' = chan
    BY <1>5 DEF AskUnknown, Search, Pcs
  <2>2. /\ \A b \in Agents \ {a} : act'[b] = act[b]
        /\ act'[a].op = act[a].op /\ act'[a].then = act[a].then /\ act'[a].who = act[a].who
    BY <1>1, <2>1, Gone
  <2>3. \A b \in Agents, t \in Turns : Holds(act', b, t) => Holds(act, b, t)
    BY <1>1, <2>2 DEF Holds
  <2>4. QED
    BY <1>2, <2>1, <2>3, OnePushKept
<1>6. CASE Flood(a)
  <2> DEFINE m == [type |-> "where", dist |-> 0]
  <2>1. Finish(a) /\ chan' = SendTo(chan, h, Peers(h) \ {act[a].skip}, m)
    BY <1>6 DEF Flood
  <2>2. m \in Messages /\ \A t \in Turns : ~ Bears(m, t)
    BY MessageMade DEF Bears
  <2> HIDE DEF m
  <2>3. OnePush(chan', act)
    BY <1>1, <2>1, <2>2, OnePushOther
  <2>4. QED
    BY <1>2, <1>3, <2>1, <2>3, OnePushKept
<1>7. QED
  BY <1>4, <1>5, <1>6 DEF AgentStep

\* An agent that was idle begins work x, after the first message was taken.
LEMMA PushBegun ==
  ASSUME Typed, OnePush(chan, act), NEW l \in Links, NEW x,
         act[l].pc = "idle", act' = [act EXCEPT ![l] = x],
         x.op = "get", x.then = "none", OnePush(chan', act), UNCHANGED <<writes, waiting, prog>>
  PROVE  OnePush(chan, act)'
<1>1. l \in Agents /\ act \in [Agents -> Works]
  BY LinkEnds, TypeIs DEF Typed
<1>2. act'[l] = x /\ \A b \in Agents \ {l} : act'[b] = act[b]
  BY <1>1
<1>3. \A a \in Agents, t \in Turns : Holds(act', a, t) => Holds(act, a, t)
  BY <1>2 DEF Holds
<1>4. QED
  BY <1>3, OnePushKept, PendingKept, BegunSame

LEMMA PushTaken ==
  ASSUME Typed, OnePush(chan, act), NEW l \in Links, NEW type, Gets(l, type)
  PROVE  OnePush(Taken(l), act)
<1>1. chan \in Chans /\ chan[Back(l)] # <<>>
  BY Got
<1>2. QED
  BY <1>1, TakenThin, OnePushThin

LEMMA PushQuery ==
  ASSUME Typed, OnePush(chan, act), NEW l \in Links, Query(l)
  PROVE  OnePush(chan, act)'
<1>1. /\ chan \in Chans /\ Taken(l) \in Chans /\ act[l].pc = "idle" /\ OnePush(Taken(l), act)
      /\ stored \in Nat
  <2>1. writes \in Seq(Turns)
    BY TypeIs DEF Typed
  <2>2. stored \in Nat
    BY <2>1 DEF stored
  <2>3. QED
    BY <2>2, Got, PushTaken DEF Query
<1>2. UNCHANGED <<writes, waiting, prog>>
  BY DEF Query
<1>3. CASE l[1] = Owner
  <2> DEFINE m == [type |-> "data", data |-> stored]
  <2>1. act' = act /\ chan' = SendTo(Taken(l), l[1], {l[2]}, m)
    BY <1>3 DEF Query, Reply
  <2>2. m \in Messages /\ \A t \in Turns : ~ Bears(m, t)
    BY <1>1, MessageMade DEF Bears
  <2> HIDE DEF m
  <2>3. OnePush(chan', act)
    BY <1>1, <2>1, <2>2, OnePushOther
  <2>4. QED
    BY <1>2, <2>1, <2>3, OnePushKept, PendingKept, BegunSame
<1>4. CASE l[1] # Owner
  <2> DEFINE x == [Rest EXCEPT !.pc = "ask", !.op = "get"]
  <2>1. chan' = Taken(l) /\ act' = [act EXCEPT ![l] = x]
    BY <1>4 DEF Query
  <2>2. x.op = "get" /\ x.then = "none"
    BY DEF Rest
  <2> HIDE DEF x
  <2>3. QED
    BY <1>1, <1>2, <2>1, <2>2, PushBegun
<1>5. QED
  BY <1>3, <1>4

LEMMA PushPush ==
  ASSUME Typed, OnePush(chan, act), Stored, NEW l \in Links, Push(l)
  PROVE  OnePush(chan, act)' /\ Stored'
<1>1. /\ chan \in Chans /\ chan[Back(l)] # <<>> /\ Taken(l) \in Chans /\ act[l].pc = "idle"
      /\ Message(l) \in Messages /\ Message(l).type = "set" /\ writes \in Seq(Turns)
  BY Got, TypeIs DEF Push, Typed
<1>2. PICK t \in Turns : t = Message(l).who /\ Bears(Message(l), t)
  BY <1>1, MessageKinds DEF Bears
<1>3. OnePush(Taken(l), act) /\ Nowhere(Taken(l), act, t) /\ Pending(t)
  BY <1>1, <1>2, OnePushTaken
<1>4. UNCHANGED <<waiting, prog>> /\ \A u \in Turns : Begun(u) <=> Begun(u)'
  BY BegunSame DEF Push
<1>5. CASE l[1] = Owner
  <2> DEFINE m == Done("constant", stored + 1)
  <2>1. act' = act /\ chan' = SendTo(Taken(l), l[1], {l[2]}, m) /\ writes' = Append(writes, t)
    BY <1>2, <1>5 DEF Push, Reply
  <2>2. m \in Messages /\ \A u \in Turns : ~ Bears(m, u)
    <3>1. stored \in Nat
      BY <1>1 DEF stored
    <3>2. QED
      BY <3>1, MessageMade DEF Bears, Done
  <2> HIDE DEF m
  <2>3. OnePush(chan', act) /\ Nowhere(chan', act, t)
    <3>1. OnePush(chan', act)
      BY <1>1, <1>3, <2>1, <2>2, OnePushOther
    <3>2. Nowhere(chan', act, t)
      BY <1>1, <1>2, <1>3, <2>1, <2>2, NowhereOther
    <3>3. QED
      BY <3>1, <3>2
  <2>4. \A u \in Turns : Pending(u) => Pending(u)' \/ u = t
    BY <1>1, <1>4, <2>1, PendingStored
  <2>5. OnePush(chan, act)'
    BY <2>1, <2>3, <2>4, OnePushWaits
  <2>6. Stored'
    <3>1. Begun(t)' /\ \A i \in DOMAIN writes : writes[i] # t
      BY <1>3, <1>4 DEF Pending
    <3>2. QED
      BY <1>1, <1>4, <2>1, <3>1, StoredMore
  <2>7. QED
    BY <2>5, <2>6
<1>6. CASE l[1] # Owner
  <2> DEFINE x == [Rest EXCEPT !.pc = "ask", !.op = "get", !.who = t, !.then = "set"]
  <2>1. chan' = Taken(l) /\ act' = [act EXCEPT ![l] = x] /\ writes' = writes
    BY <1>2, <1>6 DEF Push
  <2>2. l \in Agents /\ act \in [Agents -> Works] /\ x.who = t
    BY LinkEnds, TypeIs DEF Typed, Rest
  <2> HIDE DEF x
  <2>3. act'[l] = x /\ \A b \in Agents \ {l} : act'[b] = act[b]
    BY <2>1, <2>2
  <2>4. \A b \in Agents, u \in Turns : Holds(act', b, u) => Holds(act, b, u) \/ (b = l /\ u = t)
    BY <2>2, <2>3 DEF Holds
  <2>5. \A u \in Turns : Pending(u) => Pending(u)'
    BY <1>4, <2>1, PendingKept
  <2>6. OnePush(chan, act)'
    BY <1>3, <2>1, <2>2, <2>4, <2>5, OnePushHeld
  <2>7. Stored'
    BY <1>1, <1>4, <2>1 DEF Stored, PushedOnce
  <2>8. QED
    BY <2>6, <2>7
<1>7. QED
  BY <1>5, <1>6

\* Workers that go on have begun what is pending.
LEMMA PushQueryAnswer ==
  ASSUME Typed, OnePush(chan, act), NEW l \in Links, QueryAnswer(l)
  PROVE  OnePush(chan, act)' /\ writes' = writes /\ \A t \in Turns : Begun(t) => Begun(t)'
<1> DEFINE h == l[1]
           m == Message(l)
           M == {m, Done("address", 0)}
           S == Woken(h)
           d == [k \in Links |-> IF k[1] = h THEN Taken(l)[k] \o Answers(h, k[2], m) ELSE Taken(l)[k]]
<1>1. /\ TypeOK /\ h \in Hives /\ chan \in Chans /\ Taken(l) \in Chans /\ OnePush(Taken(l), act)
      /\ m \in Messages /\ m.type = "data" /\ M \in SUBSET Messages
  BY LinkEnds, Got, PushTaken, MessageMade DEF QueryAnswer, Typed
<1>2. CASE Owed(h) \subseteq Peers(h)
  <2>1. /\ chan' = d /\ act' = act /\ writes' = writes
        /\ waiting' = waiting \ S
        /\ prog' = [w \in Workers |-> IF w \in S THEN Tail(prog[w]) ELSE prog[w]]
    BY <1>2, Zenon DEF QueryAnswer
  <2>2. \A t \in Turns : \A x \in M : ~ Bears(x, t)
    BY <1>1 DEF Bears, Done
  <2>3. \A w \in S : w \in Workers /\ prog[w] # <<>> /\ w \in waiting
    BY <1>1, WokenWait DEF WaitsTo
  <2>4. More(Taken(l), d, h, M)
    BY <1>1, AnsweredMore
  <2> HIDE DEF m, M, S, d
  <2>5. OnePush(chan', act)
    BY <1>1, <2>1, <2>2, <2>4, OnePushMore
  <2>6. \A t \in Turns : Begun(t) => Begun(t)'
    BY <1>1, <2>1, <2>3, BegunContinued
  <2>7. QED
    BY <2>1, <2>5, <2>6, OnePushKept, PendingKept
<1>3. CASE ~ (Owed(h) \subseteq Peers(h))
  <2>1. Crash(h)
    BY <1>3 DEF QueryAnswer
  <2>2. QED
    BY <1>1, <2>1, CrashLoses, PushLost, BegunSame DEF Crash
<1>4. QED
  BY <1>2, <1>3

LEMMA PushPushAnswer ==
  ASSUME Typed, OnePush(chan, act), NEW l \in Links, PushAnswer(l)
  PROVE  OnePush(chan, act)' /\ writes' = writes /\ \A t \in Turns : Begun(t) => Begun(t)'
<1> DEFINE S == Pushers(l[1], Message(l).hash)
<1>1. TypeOK /\ l[1] \in Hives /\ OnePush(Taken(l), act)
  BY LinkEnds, PushTaken DEF PushAnswer, Typed
<1>2. /\ chan' = Taken(l) /\ act' = act /\ waiting' = waiting \ S /\ writes' = writes
      /\ prog' = [w \in Workers |-> IF w \in S THEN Tail(prog[w]) ELSE prog[w]]
  BY Zenon DEF PushAnswer
<1>3. \A w \in S : w \in Workers /\ w \in waiting /\ prog[w] # <<>>
  BY <1>1, PushersWait DEF WaitsTo
<1> HIDE DEF S
<1>4. \A t \in Turns : Begun(t) => Begun(t)'
  BY <1>1, <1>2, <1>3, BegunContinued
<1>5. QED
  BY <1>1, <1>2, <1>4, OnePushKept, PendingKept

LEMMA PushPaths ==
  ASSUME Typed, OnePush(chan, act), NEW l \in Links,
         \/ PathQuestion(l) \/ PathFound(l) \/ StoreVia(l) \/ StoreDist(l) \/ Tell(l)
  PROVE  OnePush(chan, act)'
<1>1. /\ l \in Agents /\ chan \in Chans /\ act \in [Agents -> Works] /\ Agency /\ At(l) = l[1]
      /\ act[l] \in Works
  BY LinkEnds, TypeIs DEF Typed
<1>2. UNCHANGED <<writes, waiting, prog>> /\ \A t \in Turns : Pending(t) => Pending(t)'
  BY PendingKept, BegunSame DEF PathQuestion, PathFound, StoreVia, StoreDist, Tell
<1>3. CASE PathQuestion(l)
  <2>1. Taken(l) \in Chans /\ act[l].pc = "idle" /\ OnePush(Taken(l), act)
    BY <1>3, Got, PushTaken DEF PathQuestion
  <2>2. CASE l[1] = Owner
    <3> DEFINE m == [type |-> "found", dist |-> 1]
    <3>1. act' = act /\ chan' = SendTo(Taken(l), Owner, Peers(Owner), m)
      BY <1>3, <2>2 DEF PathQuestion
    <3>2. m \in Messages /\ \A t \in Turns : ~ Bears(m, t)
      BY MessageMade DEF Bears
    <3> HIDE DEF m
    <3>3. OnePush(chan', act)
      BY <2>1, <3>1, <3>2, OnePushOther
    <3>4. QED
      BY <1>2, <3>1, <3>3, OnePushKept
  <2>3. CASE l[1] # Owner
    <3> DEFINE x == [Rest EXCEPT !.pc = "search", !.skip = l[2]]
    <3>1. chan' = Taken(l) /\ act' = [act EXCEPT ![l] = x]
      BY <1>3, <2>3 DEF PathQuestion
    <3>2. x.op = "get" /\ x.then = "none"
      BY DEF Rest
    <3> HIDE DEF x
    <3>3. QED
      BY <1>2, <2>1, <3>1, <3>2, PushBegun
  <2>4. QED
    BY <2>2, <2>3
<1>4. CASE PathFound(l)
  <2> DEFINE x(label) == [Rest EXCEPT !.pc = label, !.dist = Message(l).dist]
  <2>1. act[l].pc = "idle" /\ OnePush(chan', act)
    BY <1>4, Got, PushTaken DEF PathFound
  <2>2. act' = act \/ \E label \in {"tell", "via"} : act' = [act EXCEPT ![l] = x(label)]
    BY <1>4 DEF PathFound
  <2>3. \A label \in {"tell", "via"} : x(label).op = "get" /\ x(label).then = "none"
    BY DEF Rest
  <2> HIDE DEF x
  <2>4. CASE act' = act
    BY <1>2, <2>1, <2>4, OnePushKept
  <2>5. ASSUME NEW label \in {"tell", "via"}, act' = [act EXCEPT ![l] = x(label)]
        PROVE  OnePush(chan, act)'
    BY <1>2, <2>1, <2>3, <2>5, PushBegun
  <2>6. QED
    BY <2>2, <2>4, <2>5
<1>5. CASE StoreVia(l) \/ StoreDist(l)
  <2>1. PICK label \in Pcs : Goto(l, label) /\ chan' = chan /\ act[l].pc # "idle"
    BY <1>5 DEF StoreVia, StoreDist, Pcs
  <2>2. /\ \A b \in Agents \ {l} : act'[b] = act[b]
        /\ act'[l].op = act[l].op /\ act'[l].then = act[l].then /\ act'[l].who = act[l].who
    BY <1>1, <2>1, Gone
  <2>3. \A b \in Agents, t \in Turns : Holds(act', b, t) => Holds(act, b, t)
    BY <1>1, <2>1, <2>2 DEF Holds
  <2>4. QED
    BY <1>2, <2>1, <2>3, OnePushKept
<1>6. CASE Tell(l)
  <2> DEFINE m == [type |-> "found", dist |-> act[l].dist + 1]
  <2>1. Finish(l) /\ act[l].pc # "idle" /\ chan' = SendTo(chan, l[1], Peers(l[1]), m)
    BY <1>6 DEF Tell
  <2>2. m \in Messages /\ \A t \in Turns : ~ Bears(m, t)
    <3>1. act[l].dist + 1 \in Nat
      BY <1>1 DEF Works
    <3>2. QED
      BY <3>1, MessageMade DEF Bears
  <2> HIDE DEF m
  <2>3. OnePush(chan', act)
    BY <1>1, <2>1, <2>2, OnePushOther
  <2>4. \A b \in Agents, t \in Turns : Holds(act', b, t) => Holds(act, b, t)
    <3>1. /\ \A b \in Agents \ {l} : act'[b] = act[b]
          /\ act'[l].then = "none"
          /\ act'[l].op = "set" => act[l].then = "set" /\ act'[l].who = act[l].who
      BY <1>1, <2>1, Finished
    <3>2. QED
      BY <1>1, <2>1, <3>1 DEF Holds
  <2>5. QED
    BY <1>2, <2>3, <2>4, OnePushKept
<1>7. QED
  BY <1>3, <1>4, <1>5, <1>6

LEMMA OnePushStep ==
  Typed /\ OnePush(chan, act) /\ Stored /\ [Next]_vars => OnePush(chan, act)' /\ Stored'
<1> SUFFICES ASSUME Typed, OnePush(chan, act), Stored, [Next]_vars PROVE OnePush(chan, act)' /\ Stored'
  OBVIOUS
<1>0. ASSUME writes' = writes, \A t \in Turns : Begun(t) => Begun(t)' PROVE Stored'
  BY <1>0 DEF Stored, PushedOnce
<1>1. ASSUME NEW l \in Links, Handle(l) PROVE OnePush(chan, act)' /\ Stored'
  <2>1. CASE Push(l)
    BY <2>1, PushPush
  <2>2. CASE QueryAnswer(l) \/ PushAnswer(l)
    BY <1>0, <2>2, PushQueryAnswer, PushPushAnswer
  <2>3. CASE Query(l) \/ PathQuestion(l) \/ PathFound(l) \/ StoreVia(l) \/ StoreDist(l) \/ Tell(l)
    <3>1. UNCHANGED <<writes, waiting, prog>>
      BY <2>3 DEF Query, PathQuestion, PathFound, StoreVia, StoreDist, Tell
    <3>2. OnePush(chan, act)'
      BY <2>3, PushQuery, PushPaths
    <3>3. QED
      BY <1>0, <3>1, <3>2, BegunSame
  <2>4. QED
    BY <1>1, <2>1, <2>2, <2>3 DEF Handle
<1>2. ASSUME NEW l \in Links, Break(l[1], l[2]) PROVE OnePush(chan, act)' /\ Stored'
  BY <1>0, <1>2, BreakLoses, PushLost, BegunSame DEF Break
<1>3. ASSUME NEW a \in Agents, AgentStep(a) PROVE OnePush(chan, act)' /\ Stored'
  <2>1. UNCHANGED <<writes, waiting, prog>>
    BY <1>3 DEF AgentStep, AskKnown, AskUnknown, Search, Flood, Crash
  <2>2. QED
    BY <1>0, <1>3, <2>1, PushAgent, BegunSame
<1>4. CASE UNCHANGED vars
  <2>1. UNCHANGED <<chan, act, writes, waiting, prog>>
    BY <1>4 DEF vars
  <2>2. OnePush(chan, act)'
    BY <2>1, OnePushKept, PendingKept, BegunSame
  <2>3. QED
    BY <1>0, <2>1, <2>2, BegunSame
<1>5. QED
  BY <1>1, <1>2, <1>3, <1>4, PushBegin DEF Next

\* For every graph, every program of the workers and whatever breaks, a push is
\* stored once at most, although relays keep a push while they ask for the
\* object first and a worker may go on before its push is stored
\* (remote.c:848-930).
THEOREM RemotePushedOnce == Spec => []PushedOnce
<1> DEFINE IInv == Typed /\ OnePush(chan, act) /\ Stored
<1>1. Init => IInv
  <2> SUFFICES ASSUME Init PROVE IInv
    OBVIOUS
  <2>1. Typed
    BY TypedInit
  <2>2. OnePush(chan, act)
    BY DEF Init, Rest, OnePush, Holds
  <2>3. Stored
    BY DEF Init, Stored, PushedOnce
  <2>4. QED
    BY <2>1, <2>2, <2>3
<1>2. IInv /\ [Next]_vars => IInv'
  <2> SUFFICES ASSUME IInv, [Next]_vars PROVE IInv'
    OBVIOUS
  <2>1. Typed'
    BY TypedStep
  <2>2. OnePush(chan, act)' /\ Stored'
    BY OnePushStep
  <2>3. QED
    BY <2>1, <2>2
<1>3. IInv => PushedOnce
  BY DEF Stored
<1>4. QED
  BY <1>1, <1>2, <1>3, PTL DEF Spec

---------------------------------------------------------------------------
(* Reads: what answers tell, and of whom *)

\* The messages that tell of a content.
Answer(m) == m.type = "data" \/ (m.type = "done" /\ m.hash = "constant")
Content(m) == IF m.type = "data" THEN m.data ELSE m.made

\* The newest content that a hive can have told of.
reach == [h \in Hives |-> IF h = Owner THEN stored ELSE told[h]]

\* With the channels c: what hives told is within R; each later answer is as
\* new; and what comes from a source is not older than what it told before (K).
Bound(c, R) ==
    \A l \in Links : \A i \in DOMAIN c[l] : Answer(c[l][i]) => Content(c[l][i]) <= R[l[1]]
Order(c) ==
    \A l \in Links : \A i, j \in DOMAIN c[l] :
        i < j /\ Answer(c[l][i]) /\ Answer(c[l][j]) => Content(c[l][i]) <= Content(c[l][j])
Least(c, K, S) ==
    \A l \in Links : \A i \in DOMAIN c[l] :
        l[2] # Owner /\ l[1] \in S[l[2]] /\ Answer(c[l][i]) => K[l[2]] <= Content(c[l][i])

\* No hive is told of what is not stored, and the owner owes no answer.
Known ==
    /\ getList[Owner] = <<>>
    /\ \A h \in Hives : told[h] <= stored
    /\ \A h \in Hives \ {Owner} : sources[h] = {} => told[h] = 0
    /\ \A w \in Workers : floor[w] <= told[HiveOf[w]]
    /\ Bound(chan, reach)

\* Each hive gets its answers from one neighbour.
Single == \A h \in Hives : \A f, g \in sources[h] : f = g

\* Then a source knows at least what it told.
Fresh ==
    /\ \A h \in Hives \ {Owner} : \A g \in sources[h] : told[h] <= reach[g]
    /\ Order(chan) /\ Least(chan, told, sources)
    /\ \A w \in Workers : got[w] >= floor[w] \/ WaitsTo(w, "get")

LEMMA ContentType ==
  ASSUME NEW m \in Messages, Answer(m)
  PROVE  Content(m) \in Nat
  BY MessageKinds DEF Answer, Content

LEMMA ReachIs ==
  ASSUME TypeOK
  PROVE  /\ stored \in Nat /\ reach \in [Hives -> Nat] /\ told \in [Hives -> Nat]
         /\ sources \in [Hives -> SUBSET Hives]
         /\ reach[Owner] = stored /\ \A h \in Hives \ {Owner} : reach[h] = told[h]
<1>1. writes \in Seq(Turns) /\ told \in [Hives -> Nat] /\ sources \in [Hives -> SUBSET Hives]
  BY TypeIs
<1>2. stored \in Nat
  BY <1>1 DEF stored
<1>3. QED
  BY <1>1, <1>2, RemoteAssumption DEF reach

LEMMA ReachIsNext ==
  ASSUME TypeOK'
  PROVE  /\ stored' \in Nat /\ reach' \in [Hives -> Nat] /\ told' \in [Hives -> Nat]
         /\ sources' \in [Hives -> SUBSET Hives]
         /\ reach'[Owner] = stored' /\ \A h \in Hives \ {Owner} : reach'[h] = told'[h]
<1>1. writes' \in Seq(Turns) /\ told' \in [Hives -> Nat] /\ sources' \in [Hives -> SUBSET Hives]
  BY TypeIsNext
<1>2. stored' \in Nat
  BY <1>1 DEF stored
<1>3. QED
  BY <1>1, <1>2, RemoteAssumption DEF reach

\* Answers of d are those of c, without some of the first ones.
Fewer(d, c) ==
    \A l \in Links : \E k \in Nat : \A i \in DOMAIN d[l] :
        i \in Nat /\ (Answer(d[l][i]) => i + k \in DOMAIN c[l] /\ d[l][i] = c[l][i + k])

LEMMA FewerThin ==
  ASSUME NEW d, NEW c, Thin(d, c)
  PROVE  Fewer(d, c)
  BY DEF Thin, Fewer

LEMMA FewerMore ==
  ASSUME NEW b, NEW c \in Chans, Fewer(c, b), NEW d, NEW h, NEW M \in SUBSET Messages,
         More(c, d, h, M), \A m \in M : ~ Answer(m)
  PROVE  Fewer(d, b)
<1> SUFFICES ASSUME NEW l \in Links
             PROVE  \E k \in Nat : \A i \in DOMAIN d[l] :
                       i \in Nat /\ (Answer(d[l][i]) => i + k \in DOMAIN b[l] /\ d[l][i] = b[l][i + k])
  BY DEF Fewer
<1>1. PICK k \in Nat : \A i \in DOMAIN c[l] :
         i \in Nat /\ (Answer(c[l][i]) => i + k \in DOMAIN b[l] /\ c[l][i] = b[l][i + k])
  BY DEF Fewer
<1>2. ASSUME NEW i \in DOMAIN d[l]
      PROVE  i \in Nat /\ (Answer(d[l][i]) => i \in DOMAIN c[l] /\ d[l][i] = c[l][i])
  BY MoreWhere
<1>3. QED
  BY <1>1, <1>2

LEMMA FewerSent ==
  ASSUME NEW b, NEW c \in Chans, Fewer(c, b), NEW h, NEW to, NEW m \in Messages, ~ Answer(m)
  PROVE  Fewer(SendTo(c, h, to, m), b)
<1> DEFINE d == SendTo(c, h, to, m)
           M == {m}
<1>1. More(c, d, h, M)
  BY SentMore
<1>2. M \in SUBSET Messages /\ \A x \in M : ~ Answer(x)
  OBVIOUS
<1> HIDE DEF d, M
<1>3. Fewer(d, b)
  BY <1>1, <1>2, FewerMore
<1>4. QED
  BY <1>3 DEF d

LEMMA FewerKeeps ==
  ASSUME NEW c, NEW d, Fewer(d, c)
  PROVE  /\ \A R : Bound(c, R) => Bound(d, R)
         /\ Order(c) => Order(d)
         /\ \A K, S : Least(c, K, S) => Least(d, K, S)
<1>1. ASSUME NEW l \in Links, NEW i \in DOMAIN d[l], Answer(d[l][i])
      PROVE  \E j \in DOMAIN c[l] : d[l][i] = c[l][j]
  BY <1>1 DEF Fewer
<1>2. ASSUME NEW l \in Links, NEW i \in DOMAIN d[l], NEW j \in DOMAIN d[l], i < j,
             Answer(d[l][i]), Answer(d[l][j])
      PROVE  \E x, y \in DOMAIN c[l] : x < y /\ d[l][i] = c[l][x] /\ d[l][j] = c[l][y]
  <2>1. PICK k \in Nat : \A x \in DOMAIN d[l] :
            x \in Nat /\ (Answer(d[l][x]) => x + k \in DOMAIN c[l] /\ d[l][x] = c[l][x + k])
    BY DEF Fewer
  <2>2. i \in Nat /\ j \in Nat /\ i + k < j + k
    BY <1>2, <2>1
  <2>3. QED
    BY <1>2, <2>1, <2>2
<1>3. ASSUME NEW R, Bound(c, R) PROVE Bound(d, R)
  BY <1>1, <1>3 DEF Bound
<1>4. ASSUME NEW K, NEW S, Least(c, K, S) PROVE Least(d, K, S)
  BY <1>1, <1>4 DEF Least
<1>5. ASSUME Order(c) PROVE Order(d)
  <2> SUFFICES ASSUME NEW l \in Links, NEW i \in DOMAIN d[l], NEW j \in DOMAIN d[l], i < j,
                      Answer(d[l][i]), Answer(d[l][j])
               PROVE  Content(d[l][i]) <= Content(d[l][j])
    BY DEF Order
  <2>1. PICK x, y \in DOMAIN c[l] : x < y /\ d[l][i] = c[l][x] /\ d[l][j] = c[l][y]
    BY <1>2
  <2>2. QED
    BY <1>5, <2>1 DEF Order
<1>6. QED
  BY <1>3, <1>4, <1>5

\* Answers with the content v are sent by h.
LEMMA Answering ==
  ASSUME NEW c \in Chans, NEW d, NEW h \in Hives, NEW M \in SUBSET Messages, More(c, d, h, M),
         NEW v \in Nat, \A m \in M : Answer(m) => Content(m) = v,
         NEW R \in [Hives -> Nat], Bound(c, R)
  PROVE  /\ \A Q \in [Hives -> Nat] : (\A g \in Hives : R[g] <= Q[g]) /\ v <= Q[h] => Bound(d, Q)
         /\ Order(c) /\ R[h] <= v => Order(d)
         /\ \A K \in [Hives -> Nat] : \A S :
               Least(c, K, S) /\ (\A g \in Hives \ {Owner} : h \in S[g] => K[g] <= v) => Least(d, K, S)
<1>1. ASSUME NEW l \in Links, NEW i \in DOMAIN d[l], Answer(d[l][i])
      PROVE  /\ i \in DOMAIN c[l] => d[l][i] = c[l][i] /\ Content(d[l][i]) <= R[l[1]]
             /\ i \notin DOMAIN c[l] => /\ Content(d[l][i]) = v /\ l[1] = h
                                        /\ \A j \in DOMAIN c[l] : j < i
             /\ Content(d[l][i]) \in Nat /\ i \in Nat
  <2>1. d[l] \in Seq(Messages) /\ i \in Nat
    BY MoreWhere
  <2>2. Content(d[l][i]) \in Nat
    BY <1>1, <2>1, ContentType
  <2>3. i \in DOMAIN c[l] => d[l][i] = c[l][i]
    BY MoreWhere
  <2>4. i \notin DOMAIN c[l] => d[l][i] \in M /\ l[1] = h /\ \A j \in DOMAIN c[l] : j < i
    BY MoreWhere
  <2>5. QED
    BY <1>1, <2>1, <2>2, <2>3, <2>4 DEF Bound
<1>2. \A l \in Links : l[1] \in Hives /\ l[2] \in Hives
  BY LinkEnds
<1>3. ASSUME NEW Q \in [Hives -> Nat], \A g \in Hives : R[g] <= Q[g], v <= Q[h]
      PROVE  Bound(d, Q)
  <2> SUFFICES ASSUME NEW l \in Links, NEW i \in DOMAIN d[l], Answer(d[l][i])
               PROVE  Content(d[l][i]) <= Q[l[1]]
    BY DEF Bound
  <2>1. R[l[1]] <= Q[l[1]] /\ R[l[1]] \in Nat /\ Q[l[1]] \in Nat
    BY <1>2, <1>3
  <2>2. QED
    BY <1>1, <1>3, <2>1
<1>4. ASSUME Order(c), R[h] <= v PROVE Order(d)
  <2> SUFFICES ASSUME NEW l \in Links, NEW i \in DOMAIN d[l], NEW j \in DOMAIN d[l], i < j,
                      Answer(d[l][i]), Answer(d[l][j])
               PROVE  Content(d[l][i]) <= Content(d[l][j])
    BY DEF Order
  <2>1. CASE i \in DOMAIN c[l] /\ j \in DOMAIN c[l]
    BY <1>1, <1>4, <2>1 DEF Order
  <2>2. CASE i \in DOMAIN c[l] /\ j \notin DOMAIN c[l]
    BY <1>1, <1>4, <2>2
  <2>3. CASE i \notin DOMAIN c[l] /\ j \in DOMAIN c[l]
    <3>1. j < i /\ i \in Nat /\ j \in Nat
      BY <1>1, <2>3
    <3>2. QED
      BY <3>1
  <2>4. CASE i \notin DOMAIN c[l] /\ j \notin DOMAIN c[l]
    BY <1>1, <2>4
  <2>5. QED
    BY <2>1, <2>2, <2>3, <2>4
<1>5. ASSUME NEW K \in [Hives -> Nat], NEW S, Least(c, K, S),
             \A g \in Hives \ {Owner} : h \in S[g] => K[g] <= v
      PROVE  Least(d, K, S)
  <2> SUFFICES ASSUME NEW l \in Links, NEW i \in DOMAIN d[l], l[2] # Owner, l[1] \in S[l[2]], Answer(d[l][i])
               PROVE  K[l[2]] <= Content(d[l][i])
    BY DEF Least
  <2>1. CASE i \in DOMAIN c[l]
    BY <1>1, <1>5, <2>1 DEF Least
  <2>2. CASE i \notin DOMAIN c[l]
    BY <1>1, <1>2, <1>5, <2>2
  <2>3. QED
    BY <2>1, <2>2
<1>6. QED
  BY <1>3, <1>4, <1>5

\* The first answer of a link is taken.
LEMMA FirstAnswer ==
  ASSUME Typed, NEW l \in Links, chan[Back(l)] # <<>>, Answer(Message(l)),
         Tells(l, Content(Message(l)))
  PROVE  /\ Content(Message(l)) \in Nat
         /\ Bound(chan, reach) => Content(Message(l)) <= reach[l[2]]
         /\ /\ Single' /\ Order(chan) /\ Least(chan, told, sources)
            /\ \A h \in Hives \ {Owner} : sources[h] = {} => told[h] = 0
            => /\ Least(Taken(l), told', sources')
               /\ l[1] # Owner => told'[l[1]] = Content(Message(l))
<1> DEFINE h == l[1]
           g == l[2]
           b == Back(l)
           m == Message(l)
           n == Content(m)
<1>1. /\ TypeOK /\ chan \in Chans /\ h \in Hives /\ g \in Hives
      /\ b \in Links /\ b[1] = g /\ b[2] = h
  BY LinkEnds, TypeIs DEF Typed
<1>2. /\ m \in Messages /\ 1 \in DOMAIN chan[b] /\ m = chan[b][1] /\ Taken(l) \in Chans
      /\ Taken(l)[b] = Tail(chan[b]) /\ \A k \in Links \ {b} : Taken(l)[k] = chan[k]
  BY <1>1, Taking
<1>3. n \in Nat
  BY <1>2, ContentType
<1>4. Bound(chan, reach) => n <= reach[g]
  BY <1>1, <1>2 DEF Bound
<1>5. /\ told \in [Hives -> Nat] /\ told' \in [Hives -> Nat]
      /\ \A k \in Hives \ {h} : told'[k] = told[k] /\ sources'[k] = sources[k]
      /\ told'[h] \in {told[h], n} /\ told'[h] >= n /\ told'[h] >= told[h]
      /\ sources'[h] = sources[h] \cup {g}
  BY <1>1, <1>3, Telling, ReachIs
<1>6. ASSUME Single', Order(chan), Least(chan, told, sources),
             \A k \in Hives \ {Owner} : sources[k] = {} => told[k] = 0
      PROVE  Least(Taken(l), told', sources') /\ (h # Owner => told'[h] = n)
  <2>1. sources'[h] = {g}
    BY <1>1, <1>5, <1>6 DEF Single
  <2>2. h # Owner => told'[h] = n
    <3>1. CASE g \in sources[h]
      <4>1. h # Owner => told[h] <= n
        BY <1>1, <1>2, <1>6, <3>1 DEF Least
      <4>2. QED
        BY <1>1, <1>3, <1>5, <4>1
    <3>2. CASE g \notin sources[h]
      <4>1. sources[h] = {}
        BY <1>5, <2>1, <3>2
      <4>2. QED
        BY <1>1, <1>3, <1>5, <1>6, <4>1
    <3>3. QED
      BY <3>1, <3>2
  <2>3. ASSUME NEW k \in Links, NEW i \in DOMAIN Taken(l)[k], k[2] # Owner, k[1] \in sources'[k[2]],
               Answer(Taken(l)[k][i])
        PROVE  told'[k[2]] <= Content(Taken(l)[k][i])
    <3>0. k[1] \in Hives /\ k[2] \in Hives /\ k = <<k[1], k[2]>> /\ b = <<b[1], b[2]>>
      BY <1>1, LinkEnds
    <3>1. CASE k[2] # h
      <4>1. /\ told'[k[2]] = told[k[2]] /\ sources'[k[2]] = sources[k[2]]
            /\ Taken(l)[k] = chan[k]
        BY <1>1, <1>2, <1>5, <3>0, <3>1
      <4>2. QED
        BY <1>6, <2>3, <4>1 DEF Least
    <3>2. CASE k[2] = h
      <4>1. k = b
        BY <1>1, <2>1, <2>3, <3>0, <3>2
      <4> DEFINE q == chan[b]
      <4>2. q \in Seq(Messages) /\ q # <<>> /\ Taken(l)[k] = Tail(q) /\ i \in DOMAIN Tail(q)
        BY <1>1, <1>2, <2>3, <4>1 DEF Chans
      <4> HIDE DEF q
      <4>3. 1 \in DOMAIN q /\ i + 1 \in DOMAIN q /\ Tail(q)[i] = q[i + 1] /\ 1 < i + 1
        BY <4>2
      <4>4. Answer(chan[b][1]) /\ Answer(chan[b][i + 1])
        BY <1>2, <2>3, <4>2, <4>3 DEF q
      <4>5. Content(chan[b][1]) <= Content(chan[b][i + 1])
        BY <1>1, <1>6, <4>3, <4>4 DEF Order, q
      <4>6. QED
        BY <1>2, <2>2, <2>3, <3>2, <4>2, <4>3, <4>5 DEF q
    <3>3. QED
      BY <3>1, <3>2
  <2>4. QED
    BY <2>2, <2>3 DEF Least
<1>7. QED
  BY <1>3, <1>4, <1>6

\* Steps that tell nothing and store nothing.
LEMMA ReadPlain ==
  ASSUME Typed, Known, Single => Fresh, Fewer(chan', chan),
         UNCHANGED <<told, sources, writes>>, getList'[Owner] = <<>>,
         \A w \in Workers : floor'[w] <= told[HiveOf[w]],
         \A w \in Workers :
            \/ floor'[w] = floor[w] /\ got'[w] = got[w] /\ (WaitsTo(w, "get") => WaitsTo(w, "get")')
            \/ WaitsTo(w, "get")'
  PROVE  Known' /\ (Single => Fresh)'
<1>1. reach' = reach /\ stored' = stored /\ (Single' <=> Single)
  BY DEF reach, stored, Single
<1>2. Known'
  <2>1. Bound(chan', reach)
    BY FewerKeeps DEF Known
  <2>2. Bound(chan, reach)'
    BY <1>1, <2>1 DEF Bound
  <2>3. QED
    BY <1>1, <2>2 DEF Known
<1>3. ASSUME Single PROVE Fresh'
  <2>1. Order(chan') /\ Least(chan', told, sources)
    BY <1>3, FewerKeeps DEF Fresh
  <2>2. Order(chan)' /\ Least(chan, told, sources)'
    BY <2>1 DEF Order, Least
  <2>3. \A w \in Workers : got'[w] >= floor'[w] \/ WaitsTo(w, "get")'
    BY <1>3 DEF Fresh
  <2>4. QED
    BY <1>1, <1>3, <2>2, <2>3 DEF Fresh
<1>4. QED
  BY <1>1, <1>2, <1>3

LEMMA BoundMore ==
  ASSUME NEW c \in Chans, NEW R \in [Hives -> Nat], NEW Q \in [Hives -> Nat], Bound(c, R),
         \A h \in Hives : R[h] <= Q[h]
  PROVE  Bound(c, Q)
<1> SUFFICES ASSUME NEW l \in Links, NEW i \in DOMAIN c[l], Answer(c[l][i])
             PROVE  Content(c[l][i]) <= Q[l[1]]
  BY DEF Bound
<1>1. l[1] \in Hives /\ c[l] \in Seq(Messages)
  BY LinkEnds DEF Chans
<1>2. Content(c[l][i]) \in Nat
  BY <1>1, ContentType
<1>3. Content(c[l][i]) <= R[l[1]] /\ R[l[1]] <= Q[l[1]] /\ R[l[1]] \in Nat /\ Q[l[1]] \in Nat
  BY <1>1 DEF Bound
<1>4. QED
  BY <1>2, <1>3

LEMMA SameFewer ==
  ASSUME NEW c \in Chans
  PROVE  Fewer(c, c)
<1>1. \A l \in Links : \A i \in DOMAIN c[l] : i \in Nat /\ i + 0 = i
  BY DEF Chans
<1>2. 0 \in Nat
  OBVIOUS
<1>3. QED
  BY <1>1, <1>2 DEF Fewer

LEMMA ReadBegin ==
  ASSUME Typed, Typed', Known, Single => Fresh, NEW w \in Workers, Begin(w)
  PROVE  Known' /\ (Single => Fresh)'
<1>1. /\ chan \in Chans /\ HiveOf[w] \in Hives /\ Owner \in Hives /\ TypeOK /\ TypeOK'
      /\ waiting \subseteq Workers /\ prog \in [Workers -> Seq({"get", "set"})]
      /\ got \in [Workers -> Nat] /\ floor \in [Workers -> Nat]
      /\ getList \in [Hives -> Seq(Entries)]
      /\ \A v \in Workers : HiveOf[v] \in Hives
  BY RemoteAssumption, TypeIs DEF Typed
<1>2. /\ told \in [Hives -> Nat] /\ stored \in Nat /\ reach \in [Hives -> Nat]
      /\ reach[Owner] = stored /\ \A h \in Hives \ {Owner} : reach[h] = told[h]
      /\ told' \in [Hives -> Nat] /\ stored' \in Nat /\ reach' \in [Hives -> Nat]
      /\ reach'[Owner] = stored' /\ \A h \in Hives \ {Owner} : reach'[h] = told'[h]
  BY <1>1, ReachIs, ReachIsNext
<1>3. CASE BeginGet(w)
  <2>1. /\ getList' = [getList EXCEPT ![HiveOf[w]] = <<[kind |-> "worker", id |-> w]>> \o @]
        /\ HiveOf[w] # Owner /\ prog[w] # <<>> /\ Head(prog[w]) = "get"
        /\ floor' = [floor EXCEPT ![w] = told[HiveOf[w]]] /\ waiting' = waiting \cup {w}
        /\ UNCHANGED <<chan, writes, prog, got, told, sources>>
    BY <1>3 DEF BeginGet, Runs
  <2>2. getList'[Owner] = <<>>
    BY <1>1, <2>1 DEF Known
  <2>3. \A v \in Workers : floor'[v] <= told[HiveOf[v]]
    <3>1. floor'[w] = told[HiveOf[w]] /\ told[HiveOf[w]] \in Nat
      BY <1>1, <1>2, <2>1
    <3>2. \A v \in Workers \ {w} : floor'[v] = floor[v]
      BY <1>1, <2>1
    <3>3. QED
      BY <3>1, <3>2 DEF Known
  <2>4. WaitsTo(w, "get")' /\ \A v \in Workers : WaitsTo(v, "get") => WaitsTo(v, "get")'
    BY <2>1 DEF WaitsTo
  <2>5. \A v \in Workers \ {w} : floor'[v] = floor[v]
    BY <1>1, <2>1
  <2>6. Fewer(chan', chan)
    BY <1>1, <2>1, SameFewer
  <2>7. QED
    BY <2>1, <2>2, <2>3, <2>4, <2>5, <2>6, ReadPlain
<1>4. CASE BeginSet(w)
  <2>1. /\ UNCHANGED <<chan, writes, prog, got, getList, floor, told, sources>>
        /\ waiting' = waiting \cup {w}
    BY <1>4 DEF BeginSet, history
  <2>2. Fewer(chan', chan)
    BY <1>1, <2>1, SameFewer
  <2>3. \A v \in Workers : WaitsTo(v, "get") => WaitsTo(v, "get")'
    BY <2>1 DEF WaitsTo
  <2>4. \A v \in Workers : floor'[v] <= told[HiveOf[v]]
    BY <2>1 DEF Known
  <2>5. QED
    BY <2>1, <2>2, <2>3, <2>4, ReadPlain DEF Known
<1>5. CASE LocalGet(w) \/ LocalSet(w)
  <2>1. /\ prog' = [prog EXCEPT ![w] = Tail(@)] /\ w \notin waiting
        /\ UNCHANGED <<chan, getList, waiting, sources>> /\ HiveOf[w] = Owner
    BY <1>5 DEF LocalGet, LocalSet, Runs
  <2>2. \A v \in Workers : WaitsTo(v, "get") => WaitsTo(v, "get")'
    BY <1>1, <2>1 DEF WaitsTo
  <2>3. /\ \A h \in Hives : told[h] <= told'[h] /\ (h # Owner => told'[h] = told[h])
        /\ \A h \in Hives : told'[h] <= stored' /\ reach[h] <= reach'[h]
    <3>1. CASE LocalGet(w)
      <4>1. UNCHANGED <<writes, told>>
        BY <3>1 DEF LocalGet
      <4>2. stored' = stored
        BY <4>1 DEF stored
      <4>3. QED
        BY <1>2, <4>1, <4>2 DEF Known
    <3>2. CASE LocalSet(w)
      <4>1. told' = [told EXCEPT ![Owner] = stored + 1] /\ writes' = Append(writes, Turn(w))
        BY <3>2 DEF LocalSet
      <4>2. stored' = stored + 1
        <5>1. writes \in Seq(Turns)
          BY <1>1, TypeIs
        <5>2. QED
          BY <4>1, <5>1 DEF stored
      <4>3. \A h \in Hives \ {Owner} : told'[h] = told[h] /\ told[h] <= stored /\ told[h] \in Nat
        BY <1>1, <1>2, <4>1 DEF Known
      <4>4. /\ told'[Owner] = stored + 1 /\ told[Owner] <= stored /\ told[Owner] \in Nat
            /\ reach[Owner] <= reach'[Owner]
        BY <1>1, <1>2, <4>1, <4>2 DEF Known
      <4>5. \A h \in Hives \ {Owner} : reach[h] <= reach'[h] /\ told[h] <= stored'
        BY <1>2, <4>2, <4>3
      <4>6. \A h \in Hives : told[h] <= told'[h] /\ told'[h] <= stored' /\ reach[h] <= reach'[h]
        BY <1>2, <4>2, <4>3, <4>4, <4>5
      <4>7. QED
        BY <4>3, <4>6
    <3>3. QED
      BY <1>5, <3>1, <3>2
  <2>4. \A v \in Workers : /\ floor'[v] <= told'[HiveOf[v]]
                           /\ (got'[v] = got[v] /\ floor'[v] = floor[v]) \/ got'[v] >= floor'[v]
    <3>1. CASE LocalGet(w)
      <4>1. /\ got' = [got EXCEPT ![w] = stored] /\ floor' = [floor EXCEPT ![w] = told[Owner]]
            /\ told' = told
        BY <3>1 DEF LocalGet
      <4>2. got'[w] >= floor'[w]
        BY <1>1, <1>2, <4>1 DEF Known
      <4>3. \A v \in Workers \ {w} : floor'[v] = floor[v] /\ got'[v] = got[v]
        BY <1>1, <4>1
      <4>4. \A v \in Workers : floor'[v] <= told'[HiveOf[v]]
        BY <1>1, <1>2, <2>1, <4>1 DEF Known
      <4>5. QED
        BY <4>2, <4>3, <4>4
    <3>2. CASE LocalSet(w)
      <4>1. got' = got /\ floor' = floor
        BY <3>2 DEF LocalSet
      <4>2. \A v \in Workers : /\ floor[v] <= told[HiveOf[v]] /\ told[HiveOf[v]] <= told'[HiveOf[v]]
                               /\ floor[v] \in Nat /\ told[HiveOf[v]] \in Nat /\ told'[HiveOf[v]] \in Nat
        BY <1>1, <1>2, <2>3 DEF Known
      <4>3. QED
        BY <4>1, <4>2
    <3>3. QED
      BY <1>5, <3>1, <3>2
  <2>5. Known'
    <3>1. Bound(chan, reach')
      BY <1>1, <1>2, <2>3, BoundMore DEF Known
    <3>2. Bound(chan, reach)'
      BY <2>1, <3>1 DEF Bound
    <3>3. QED
      BY <2>1, <2>3, <2>4, <3>2 DEF Known
  <2>6. ASSUME Single' PROVE Fresh'
    <3>1. Fresh
      BY <2>1, <2>6 DEF Single
    <3>2. Order(chan)' /\ Least(chan, told, sources)'
      <4>1. Order(chan')
        BY <2>1, <3>1 DEF Fresh
      <4>2. Least(chan', told', sources')
        <5>1. \A l \in Links : l[2] \in Hives
          BY LinkEnds
        <5>2. QED
          BY <2>1, <2>3, <3>1, <5>1 DEF Fresh, Least
      <4>3. QED
        BY <4>1, <4>2 DEF Order, Least
    <3>3. ASSUME NEW h \in Hives \ {Owner}, NEW g \in sources'[h] PROVE told'[h] <= reach'[g]
      <4>1. g \in Hives /\ told'[h] = told[h] /\ told[h] <= reach[g] /\ reach[g] <= reach'[g]
        BY <1>1, <2>1, <2>3, <3>1, <3>3, ReachIs DEF Fresh
      <4>2. told[h] \in Nat /\ reach[g] \in Nat /\ reach'[g] \in Nat
        BY <1>2, <4>1
      <4>3. QED
        BY <4>1, <4>2
    <3>4. \A v \in Workers : got'[v] >= floor'[v] \/ WaitsTo(v, "get")'
      BY <2>2, <2>4, <3>1 DEF Fresh
    <3>5. QED
      BY <3>2, <3>3, <3>4 DEF Fresh
  <2>7. QED
    BY <2>5, <2>6
<1>6. QED
  BY <1>3, <1>4, <1>5 DEF Begin

\* Nothing that is under way is added by a break or a crash.
LEMMA ReadLost ==
  ASSUME Typed, Known, Single => Fresh, \A l \in Links : chan'[l] \in {chan[l], <<>>},
         UNCHANGED <<getList, writes, waiting, prog, got, floor, told, sources>>
  PROVE  Known' /\ (Single => Fresh)'
<1>1. chan \in Chans
  BY TypeIs DEF Typed
<1>2. Fewer(chan', chan)
  BY <1>1, LostThin, FewerThin
<1>3. \A w \in Workers : floor'[w] <= told[HiveOf[w]]
  BY DEF Known
<1>4. QED
  BY <1>2, <1>3, ReadPlain DEF WaitsTo, Known

LEMMA ReadAgent ==
  ASSUME Typed, Known, Single => Fresh, NEW a \in Agents, AgentStep(a)
  PROVE  Known' /\ (Single => Fresh)'
<1> DEFINE h == At(a)
<1>1. chan \in Chans /\ Fewer(chan, chan) /\ h \in Hives
  BY TypeIs, SameFewer, Places DEF Typed
<1>2. CASE AskKnown(a) /\ path[h].via \notin Peers(h)
  <2>1. Crash(h)
    BY <1>2 DEF AskKnown
  <2>2. QED
    BY <1>1, <2>1, CrashLoses, ReadLost DEF Crash, history
<1>3. CASE ~ (AskKnown(a) /\ path[h].via \notin Peers(h))
  <2>1. /\ UNCHANGED <<getList, writes, waiting, prog, got, floor, told, sources>>
        /\ \/ chan' = chan
           \/ chan' = SendTo(chan, h, {path[h].via}, Request(a))
           \/ chan' = SendTo(chan, h, Peers(h) \ {act[a].skip}, [type |-> "where", dist |-> 0])
    BY <1>3 DEF AgentStep, AskKnown, AskUnknown, Search, Flood, history
  <2>2. Request(a) \in Messages /\ ~ Answer(Request(a))
    BY RequestIs DEF Answer
  <2>3. [type |-> "where", dist |-> 0] \in Messages /\ ~ Answer([type |-> "where", dist |-> 0])
    BY MessageMade DEF Answer
  <2>4. Fewer(chan', chan)
    BY <1>1, <2>1, <2>2, <2>3, FewerSent
  <2>5. \A w \in Workers : floor'[w] <= told[HiveOf[w]]
    BY <2>1 DEF Known
  <2>6. QED
    BY <2>1, <2>4, <2>5, ReadPlain DEF WaitsTo, Known
<1>4. QED
  BY <1>2, <1>3

\* Requests that are passed on, and paths.
LEMMA ReadPassed ==
  ASSUME Typed, Known, Single => Fresh, NEW l \in Links,
         \/ (Query(l) \/ Push(l)) /\ l[1] # Owner
         \/ PathQuestion(l) \/ PathFound(l) \/ StoreVia(l) \/ StoreDist(l) \/ Tell(l)
  PROVE  Known' /\ (Single => Fresh)'
<1>1. /\ chan \in Chans /\ Fewer(chan, chan) /\ act \in [Agents -> Works]
      /\ getList \in [Hives -> Seq(Entries)] /\ Owner \in Hives /\ l \in Agents
  BY TypeIs, SameFewer, LinkEnds, RemoteAssumption DEF Typed
<1>2. UNCHANGED <<writes, waiting, prog, got, floor, told, sources>>
  BY DEF Query, Push, PathQuestion, PathFound, StoreVia, StoreDist, Tell, history
<1>3. getList'[Owner] = getList[Owner]
  <2>1. CASE (Query(l) \/ Push(l)) /\ l[1] # Owner
    <3>1. \E e : getList' = [getList EXCEPT ![l[1]] = <<e>> \o @]
      BY <2>1 DEF Query, Push
    <3>2. QED
      BY <1>1, <2>1, <3>1
  <2>2. CASE PathQuestion(l) \/ PathFound(l) \/ StoreVia(l) \/ StoreDist(l) \/ Tell(l)
    BY <2>2 DEF PathQuestion, PathFound, StoreVia, StoreDist, Tell
  <2>3. QED
    BY <2>1, <2>2
<1>4. Fewer(chan', chan)
  <2>1. CASE \E type : Gets(l, type)
    <3>1. chan[Back(l)] # <<>>
      BY <2>1, Got
    <3>2. Fewer(Taken(l), chan) /\ Taken(l) \in Chans
      BY <1>1, <3>1, TakenThin, FewerThin, Taking
    <3> DEFINE m == [type |-> "found", dist |-> 1]
    <3>3. m \in Messages /\ ~ Answer(m)
      BY MessageMade DEF Answer
    <3>4. CASE chan' = Taken(l)
      BY <3>2, <3>4
    <3>5. CASE chan' = SendTo(Taken(l), Owner, Peers(Owner), m)
      <4> HIDE DEF m
      <4> QED BY <3>2, <3>3, <3>5, FewerSent
    <3>6. CASE StoreVia(l) \/ StoreDist(l)
      BY <1>1, <3>6 DEF StoreVia, StoreDist
    <3>7. CASE Tell(l)
      BY <2>1, <3>7 DEF Tell, Gets
    <3>8. QED
      BY <3>4, <3>5, <3>6, <3>7 DEF Query, Push, PathQuestion, PathFound
  <2>2. CASE StoreVia(l) \/ StoreDist(l)
    BY <1>1, <2>2 DEF StoreVia, StoreDist
  <2>3. CASE Tell(l)
    <3> DEFINE m == [type |-> "found", dist |-> act[l].dist + 1]
    <3>1. chan' = SendTo(chan, l[1], Peers(l[1]), m)
      BY <2>3 DEF Tell
    <3>2. act[l].dist \in Nat
      BY <1>1 DEF Works
    <3>3. act[l].dist + 1 \in Nat
      BY <3>2
    <3>4. m \in Messages /\ ~ Answer(m)
      BY <3>3, MessageMade DEF Answer
    <3> HIDE DEF m
    <3>5. QED
      BY <1>1, <3>1, <3>4, FewerSent
  <2>4. QED
    BY <2>1, <2>2, <2>3 DEF Query, Push, PathQuestion, PathFound
<1>5. \A w \in Workers : floor'[w] <= told[HiveOf[w]]
  BY <1>2 DEF Known
<1>6. QED
  BY <1>2, <1>3, <1>4, <1>5, ReadPlain DEF WaitsTo, Known

\* The owner answers with what is stored.
LEMMA ReadOwner ==
  ASSUME Typed, Typed', Known, Single => Fresh, NEW l \in Links, Query(l) \/ Push(l), l[1] = Owner
  PROVE  Known' /\ (Single => Fresh)'
<1> DEFINE c == Taken(l)
           v == stored'
           r == IF Query(l) THEN [type |-> "data", data |-> v] ELSE Done("constant", v)
           M == {r}
<1>1. /\ chan \in Chans /\ c \in Chans /\ Fewer(c, chan) /\ Owner \in Hives
      /\ TypeOK /\ TypeOK' /\ writes \in Seq(Turns)
      /\ chan[Back(l)] # <<>>
  <2>1. chan[Back(l)] # <<>> /\ chan \in Chans /\ c \in Chans
    BY Got DEF Query, Push
  <2>2. QED
    BY <2>1, TakenThin, FewerThin, RemoteAssumption, TypeIs DEF Typed
<1>2. /\ told \in [Hives -> Nat] /\ stored \in Nat /\ reach \in [Hives -> Nat]
      /\ reach[Owner] = stored /\ \A h \in Hives \ {Owner} : reach[h] = told[h]
      /\ sources \in [Hives -> SUBSET Hives]
      /\ stored' \in Nat /\ reach' \in [Hives -> Nat]
      /\ reach'[Owner] = stored' /\ \A h \in Hives \ {Owner} : reach'[h] = told'[h]
  BY <1>1, ReachIs, ReachIsNext
<1>3. /\ UNCHANGED <<getList, waiting, prog, got, floor, told, sources>>
      /\ stored <= stored' /\ chan' = SendTo(c, Owner, {l[2]}, r)
  <2>1. CASE Query(l)
    <3>1. /\ UNCHANGED <<getList, waiting, prog, got, floor, told, sources, writes>>
          /\ chan' = Reply(l, [type |-> "data", data |-> stored])
      BY <2>1 DEF Query, history
    <3>2. stored' = stored
      BY <3>1 DEF stored
    <3>3. QED
      BY <1>2, <2>1, <3>1, <3>2 DEF Reply
  <2>2. CASE Push(l)
    <3>1. /\ UNCHANGED <<getList, waiting, prog, got, floor, told, sources>>
          /\ writes' = Append(writes, Message(l).who) /\ chan' = Reply(l, Done("constant", stored + 1))
      BY <2>2 DEF Push, history
    <3>2. stored' = stored + 1
      BY <1>1, <3>1 DEF stored
    <3>3. ~ Query(l)
      <4>1. Message(l).type = "set"
        BY <2>2, Got DEF Push
      <4>2. Query(l) => Message(l).type = "get"
        BY Got DEF Query
      <4>3. QED
        BY <4>1, <4>2
    <3>4. QED
      BY <1>2, <3>1, <3>2, <3>3 DEF Reply
  <2>3. QED
    BY <2>1, <2>2
<1>4. r \in Messages /\ Content(r) = v
  BY <1>2, MessageMade DEF Content, Done
<1>5. /\ \A h \in Hives : reach[h] <= reach'[h] /\ told[h] <= stored'
      /\ v \in Nat /\ reach[Owner] <= v /\ v <= reach'[Owner]
  <2>1. \A h \in Hives : told[h] <= stored /\ told[h] \in Nat
    BY <1>2 DEF Known
  <2>2. \A h \in Hives \ {Owner} : reach[h] <= reach'[h]
    BY <1>2, <1>3, <2>1
  <2>3. \A h \in Hives : told[h] <= stored'
    BY <1>2, <1>3, <2>1
  <2>4. reach[Owner] <= reach'[Owner] /\ reach[Owner] <= stored' /\ stored' <= reach'[Owner]
    BY <1>2, <1>3
  <2>5. \A h \in Hives : reach[h] <= reach'[h]
    BY <2>2, <2>4
  <2>6. QED
    BY <1>2, <2>3, <2>4, <2>5
<1> HIDE DEF c, r, v
<1>6. /\ More(c, chan', Owner, M) /\ M \in SUBSET Messages
      /\ \A m \in M : Answer(m) => Content(m) = v
  BY <1>1, <1>3, <1>4, SentMore
<1> HIDE DEF M
<1>7. Bound(c, reach)
  BY <1>1, FewerKeeps DEF Known
<1>8. /\ \A Q \in [Hives -> Nat] : (\A g \in Hives : reach[g] <= Q[g]) /\ v <= Q[Owner] => Bound(chan', Q)
      /\ Order(c) /\ reach[Owner] <= v => Order(chan')
      /\ \A K \in [Hives -> Nat] : \A S :
            Least(c, K, S) /\ (\A g \in Hives \ {Owner} : Owner \in S[g] => K[g] <= v) => Least(chan', K, S)
  <2>1. /\ c \in Chans /\ Owner \in Hives /\ M \in SUBSET Messages /\ More(c, chan', Owner, M)
        /\ v \in Nat /\ \A m \in M : Answer(m) => Content(m) = v
        /\ reach \in [Hives -> Nat] /\ Bound(c, reach)
    BY <1>1, <1>2, <1>5, <1>6, <1>7
  <2>2. QED
    BY ONLY <2>1, Answering
<1>9. Bound(chan', reach')
  BY <1>2, <1>5, <1>8
<1>10. Known'
  <2>1. Bound(chan, reach)'
    BY <1>9 DEF Bound
  <2>2. QED
    BY <1>3, <1>5, <2>1 DEF Known
<1>11. ASSUME Single' PROVE Fresh'
  <2>1. Fresh
    BY <1>3, <1>11 DEF Single
  <2>2. Order(c) /\ Least(c, told, sources)
    BY <1>1, <2>1, FewerKeeps DEF Fresh
  <2>3. Order(chan')
    BY <1>5, <1>8, <2>2
  <2>4. Least(chan', told, sources)
    <3>1. \A g \in Hives \ {Owner} : told[g] <= v
      BY <1>5 DEF v
    <3>2. QED
      BY <1>2, <1>8, <2>2, <3>1
  <2>5. Order(chan)' /\ Least(chan, told, sources)'
    BY <1>3, <2>3, <2>4 DEF Order, Least
  <2>6. ASSUME NEW h \in Hives \ {Owner}, NEW g \in sources[h] PROVE told[h] <= reach'[g]
    <3>1. g \in Hives /\ told[h] <= reach[g] /\ reach[g] <= reach'[g]
      BY <1>2, <1>5, <2>1 DEF Fresh
    <3>2. told[h] \in Nat /\ reach[g] \in Nat /\ reach'[g] \in Nat
      BY <1>2, <3>1
    <3>3. QED
      BY <3>1, <3>2
  <2>7. \A w \in Workers : got'[w] >= floor'[w] \/ WaitsTo(w, "get")'
    BY <1>3, <2>1 DEF Fresh, WaitsTo
  <2>8. QED
    BY <1>3, <2>5, <2>6, <2>7 DEF Fresh
<1>12. QED
  BY <1>10, <1>11

\* An answer tells h of a content, and h answers those on its list with it.
LEMMA ReadTold ==
  ASSUME Typed, Typed', Known, Single => Fresh, NEW l \in Links, chan[Back(l)] # <<>>,
         Answer(Message(l)), Tells(l, Content(Message(l))),
         NEW M \in SUBSET Messages, More(Taken(l), chan', l[1], M),
         \A m \in M : Answer(m) => Content(m) = Content(Message(l)),
         l[1] = Owner => chan' = Taken(l),
         UNCHANGED <<writes, floor>>, getList'[Owner] = <<>>,
         \A w \in Workers :
            \/ got'[w] = got[w] /\ (WaitsTo(w, "get") => WaitsTo(w, "get")')
            \/ HiveOf[w] = l[1] /\ l[1] # Owner /\ got'[w] = Content(Message(l))
  PROVE  Known' /\ (Single => Fresh)'
<1> DEFINE h == l[1]
           g == l[2]
           c == Taken(l)
           v == Content(Message(l))
<1>1. /\ TypeOK /\ TypeOK' /\ chan \in Chans /\ c \in Chans /\ Fewer(c, chan)
      /\ h \in Hives /\ g \in Hives /\ g # h /\ Owner \in Hives
      /\ \A w \in Workers : HiveOf[w] \in Hives /\ got[w] \in Nat /\ floor[w] \in Nat
  <2>1. chan \in Chans /\ TypeOK /\ TypeOK' /\ got \in [Workers -> Nat] /\ floor \in [Workers -> Nat]
    BY TypeIs DEF Typed
  <2>2. c \in Chans /\ Fewer(c, chan)
    BY <2>1, Taking, TakenThin, FewerThin
  <2>3. QED
    BY <2>1, <2>2, LinkEnds, RemoteAssumption
<1>2. /\ told \in [Hives -> Nat] /\ stored \in Nat /\ reach \in [Hives -> Nat]
      /\ reach[Owner] = stored /\ \A k \in Hives \ {Owner} : reach[k] = told[k]
      /\ sources \in [Hives -> SUBSET Hives]
      /\ told' \in [Hives -> Nat] /\ reach' \in [Hives -> Nat]
      /\ reach'[Owner] = stored' /\ \A k \in Hives \ {Owner} : reach'[k] = told'[k]
      /\ stored' = stored
  <2>1. stored' = stored
    BY DEF stored
  <2>2. QED
    BY <1>1, <2>1, ReachIs, ReachIsNext
<1>3. v \in Nat /\ v <= reach[g] /\ v <= stored
  <2>1. v \in Nat /\ v <= reach[g]
    BY FirstAnswer DEF Known
  <2>2. reach[g] <= stored
    <3>1. CASE g = Owner
      BY <1>2, <3>1
    <3>2. CASE g # Owner
      <4>1. reach[g] = told[g] /\ told[g] <= stored
        BY <1>1, <1>2, <3>2 DEF Known
      <4>2. QED
        BY <4>1
    <3>3. QED
      BY <3>1, <3>2
  <2>3. reach[g] \in Nat
    BY <1>1, <1>2
  <2>4. QED
    BY <1>2, <2>1, <2>2, <2>3
<1>4. /\ \A k \in Hives \ {h} : told'[k] = told[k] /\ sources'[k] = sources[k]
      /\ told'[h] >= told[h] /\ told'[h] >= v /\ told'[h] \in {told[h], v}
      /\ sources'[h] = sources[h] \cup {g}
  BY <1>1, <1>3, Telling
<1> HIDE DEF c, v, h, g
<1>5. /\ \A k \in Hives : told[k] <= told'[k] /\ told'[k] <= stored /\ reach[k] <= reach'[k]
      /\ v <= reach'[h] /\ reach'[g] = reach[g]
  <2>1. \A k \in Hives \ {h} : told'[k] = told[k] /\ told[k] <= stored /\ told[k] \in Nat /\ reach'[k] = reach[k]
    BY <1>1, <1>2, <1>4 DEF Known
  <2>2. told[h] <= told'[h] /\ told'[h] <= stored /\ told[h] \in Nat /\ told'[h] \in Nat
    BY <1>1, <1>2, <1>3, <1>4 DEF Known
  <2>3. reach[h] <= reach'[h] /\ v <= reach'[h]
    BY <1>1, <1>2, <1>3, <1>4, <2>2
  <2>4. \A k \in Hives \ {h} : told[k] <= told'[k] /\ told'[k] <= stored /\ reach[k] <= reach'[k]
    BY <1>1, <1>2, <2>1
  <2>5. QED
    BY <1>1, <2>1, <2>2, <2>3, <2>4
<1>6. Bound(c, reach)
  BY <1>1, FewerKeeps DEF Known
<1>7. /\ \A Q \in [Hives -> Nat] : (\A k \in Hives : reach[k] <= Q[k]) /\ v <= Q[h] => Bound(chan', Q)
      /\ Order(c) /\ reach[h] <= v => Order(chan')
      /\ \A K \in [Hives -> Nat] : \A S :
            Least(c, K, S) /\ (\A k \in Hives \ {Owner} : h \in S[k] => K[k] <= v) => Least(chan', K, S)
  <2>1. /\ c \in Chans /\ h \in Hives /\ M \in SUBSET Messages /\ More(c, chan', h, M)
        /\ v \in Nat /\ \A m \in M : Answer(m) => Content(m) = v
        /\ reach \in [Hives -> Nat] /\ Bound(c, reach)
    BY <1>1, <1>2, <1>3, <1>6 DEF c, h, v
  <2>2. QED
    BY ONLY <2>1, Answering
<1>8. Known'
  <2>1. Bound(chan', reach')
    BY <1>2, <1>5, <1>7
  <2>2. Bound(chan, reach)'
    BY <2>1 DEF Bound
  <2>3. \A w \in Workers : floor'[w] <= told'[HiveOf[w]]
    <3>1. ASSUME NEW w \in Workers PROVE floor[w] <= told'[HiveOf[w]]
      <4>1. floor[w] <= told[HiveOf[w]] /\ told[HiveOf[w]] <= told'[HiveOf[w]]
        BY <1>1, <1>5 DEF Known
      <4>2. floor[w] \in Nat /\ told[HiveOf[w]] \in Nat /\ told'[HiveOf[w]] \in Nat
        BY <1>1, <1>2
      <4>3. QED
        BY <4>1, <4>2
    <3>2. QED
      BY <3>1
  <2>4. \A k \in Hives \ {Owner} : sources'[k] = {} => told'[k] = 0
    BY <1>4 DEF Known
  <2>5. QED
    BY <1>2, <1>5, <2>2, <2>3, <2>4 DEF Known
<1>9. ASSUME Single' PROVE Fresh'
  <2>1. Single /\ sources'[h] = {g}
    <3>1. \A k \in Hives : sources[k] \subseteq sources'[k]
      BY <1>1, <1>4
    <3>2. Single
      BY <1>9, <3>1 DEF Single
    <3>3. QED
      BY <1>1, <1>4, <1>9, <3>2 DEF Single
  <2>2. Fresh
    BY <2>1
  <2>3. Least(c, told', sources') /\ (h # Owner => told'[h] = v)
    <3>1. Order(chan) /\ Least(chan, told, sources)
      BY <2>2 DEF Fresh
    <3>2. \A k \in Hives \ {Owner} : sources[k] = {} => told[k] = 0
      BY DEF Known
    <3>3. QED
      BY <1>9, <3>1, <3>2, FirstAnswer DEF c, h, v
  <2>4. Order(c)
    BY <1>1, <2>2, FewerKeeps DEF Fresh
  <2>5. Order(chan') /\ Least(chan', told', sources')
    <3>1. CASE h = Owner
      BY <2>3, <2>4, <3>1 DEF c, h
    <3>2. CASE h # Owner
      <4>1. reach[h] <= v
        BY <1>1, <1>2, <1>4, <2>3, <3>2
      <4>2. ASSUME NEW k \in Hives \ {Owner}, h \in sources'[k] PROVE told'[k] <= v
        <5>1. k # h
          BY <1>1, <2>1, <4>2
        <5>2. told'[k] = told[k] /\ h \in sources[k]
          BY <1>4, <4>2, <5>1
        <5>3. told[k] <= reach[h] /\ told[k] \in Nat /\ reach[h] \in Nat
          BY <1>1, <1>2, <2>2, <5>2 DEF Fresh
        <5>4. QED
          BY <1>3, <4>1, <5>2, <5>3
      <4>3. QED
        BY <1>2, <1>7, <2>3, <2>4, <4>1, <4>2
    <3>3. QED
      BY <3>1, <3>2
  <2>6. ASSUME NEW k \in Hives \ {Owner}, NEW f \in sources'[k] PROVE told'[k] <= reach'[f]
    <3>1. CASE k = h
      BY <1>3, <1>5, <2>1, <2>3, <2>6, <3>1
    <3>2. CASE k # h
      <4>1. told'[k] = told[k] /\ f \in sources[k] /\ f \in Hives
        BY <1>2, <1>4, <2>6, <3>2
      <4>2. told[k] <= reach[f] /\ reach[f] <= reach'[f]
        BY <1>5, <2>2, <4>1 DEF Fresh
      <4>3. told[k] \in Nat /\ reach[f] \in Nat /\ reach'[f] \in Nat
        BY <1>2, <4>1
      <4>4. QED
        BY <4>1, <4>2, <4>3
    <3>3. QED
      BY <3>1, <3>2
  <2>7. ASSUME NEW w \in Workers PROVE got'[w] >= floor'[w] \/ WaitsTo(w, "get")'
    <3>1. CASE got'[w] = got[w] /\ (WaitsTo(w, "get") => WaitsTo(w, "get")')
      BY <2>2, <3>1 DEF Fresh
    <3>2. CASE HiveOf[w] = h /\ h # Owner /\ got'[w] = v
      <4>1. floor[w] <= told[h] /\ told[h] <= told'[h] /\ told'[h] = v
        BY <1>1, <1>5, <2>3, <3>2 DEF Known
      <4>2. floor[w] \in Nat /\ told[h] \in Nat
        BY <1>1, <1>2
      <4>3. QED
        BY <1>3, <3>2, <4>1, <4>2
    <3>3. QED
      BY <3>1, <3>2 DEF h, v
  <2>8. Order(chan)' /\ Least(chan, told, sources)'
    BY <2>5 DEF Order, Least
  <2>9. QED
    BY <2>6, <2>7, <2>8 DEF Fresh
<1>10. QED
  BY <1>8, <1>9

LEMMA ReadQueryAnswer ==
  ASSUME Typed, Typed', Known, Single => Fresh, NEW l \in Links, QueryAnswer(l)
  PROVE  Known' /\ (Single => Fresh)'
<1> DEFINE h == l[1]
           m == Message(l)
           M == {m, Done("address", 0)}
           S == Woken(h)
           d == [k \in Links |-> IF k[1] = h THEN Taken(l)[k] \o Answers(h, k[2], m) ELSE Taken(l)[k]]
<1>1. /\ TypeOK /\ h \in Hives /\ chan \in Chans /\ Taken(l) \in Chans /\ chan[Back(l)] # <<>>
      /\ m \in Messages /\ m.type = "data" /\ M \in SUBSET Messages
      /\ getList \in [Hives -> Seq(Entries)] /\ Owner \in Hives
  BY LinkEnds, Got, MessageMade, TypeIs, RemoteAssumption DEF QueryAnswer, Typed
<1>2. CASE Owed(h) \subseteq Peers(h)
  <2>1. /\ chan' = d /\ getList' = [getList EXCEPT ![h] = <<>>]
        /\ waiting' = waiting \ S
        /\ got' = [w \in Workers |-> IF w \in S THEN m.data ELSE got[w]]
        /\ prog' = [w \in Workers |-> IF w \in S THEN Tail(prog[w]) ELSE prog[w]]
        /\ Tells(l, m.data) /\ UNCHANGED <<writes, floor>>
    BY <1>2, Zenon DEF QueryAnswer
  <2>2. Answer(m) /\ Content(m) = m.data /\ \A x \in M : Answer(x) => Content(x) = m.data
    BY <1>1 DEF Answer, Content, Done
  <2>3. \A w \in S : w \in Workers /\ prog[w] # <<>> /\ HiveOf[w] = h /\ h # Owner /\ WaitsTo(w, "get")
    BY <1>1, WokenWait DEF WaitsTo
  <2>4. More(Taken(l), d, h, M) /\ (getList[h] = <<>> => d = Taken(l))
    <3>1. More(Taken(l), d, h, M)
      BY <1>1, AnsweredMore
    <3>2. TypeOK /\ m \in Messages /\ Taken(l) \in Chans
      BY <1>1
    <3> HIDE DEF m
    <3>3. getList[l[1]] = <<>> => d = Taken(l)
      BY ONLY <3>2, l \in Links, AnsweredMore
    <3>4. QED
      BY <3>1, <3>3
  <2> HIDE DEF m, M, S, d
  <2>5. \A w \in Workers \ S, op \in {"get", "set"} : WaitsTo(w, op)' <=> WaitsTo(w, op)
    BY <1>1, <2>1, <2>3, Continued
  <2>6. \A w \in Workers :
            \/ got'[w] = got[w] /\ (WaitsTo(w, "get") => WaitsTo(w, "get")')
            \/ HiveOf[w] = h /\ h # Owner /\ got'[w] = m.data
    BY <2>1, <2>3, <2>5
  <2>7. getList'[Owner] = <<>> /\ (h = Owner => chan' = Taken(l))
    BY <1>1, <2>1, <2>4 DEF Known
  <2>8. QED
    BY <1>1, <2>1, <2>2, <2>4, <2>6, <2>7, ReadTold DEF m
<1>3. CASE ~ (Owed(h) \subseteq Peers(h))
  <2>1. Crash(h)
    BY <1>3 DEF QueryAnswer
  <2>2. QED
    BY <1>1, <2>1, CrashLoses, ReadLost DEF Crash, history
<1>4. QED
  BY <1>2, <1>3

LEMMA ReadPushAnswer ==
  ASSUME Typed, Typed', Known, Single => Fresh, NEW l \in Links, PushAnswer(l)
  PROVE  Known' /\ (Single => Fresh)'
<1> DEFINE h == l[1]
           m == Message(l)
           S == Pushers(h, m.hash)
           M == {m}
<1>1. /\ TypeOK /\ h \in Hives /\ chan \in Chans /\ Taken(l) \in Chans /\ chan[Back(l)] # <<>>
      /\ m \in Messages /\ m.type = "done" /\ M \in SUBSET Messages
  BY LinkEnds, Got DEF PushAnswer, Typed
<1>2. /\ chan' = Taken(l) /\ waiting' = waiting \ S
      /\ prog' = [w \in Workers |-> IF w \in S THEN Tail(prog[w]) ELSE prog[w]]
      /\ IF m.hash = "constant" THEN Tells(l, m.made) ELSE UNCHANGED <<told, sources>>
      /\ UNCHANGED <<getList, writes, got, floor>>
  BY Zenon DEF PushAnswer
<1>3. \A w \in S : w \in Workers /\ prog[w] # <<>> /\ WaitsTo(w, "set")
  BY <1>1, PushersWait
<1> HIDE DEF S
<1>4. \A w \in Workers \ S, op \in {"get", "set"} : WaitsTo(w, op)' <=> WaitsTo(w, op)
  BY <1>1, <1>2, <1>3, Continued
<1>5. \A w \in Workers : WaitsTo(w, "get") => WaitsTo(w, "get")'
  BY <1>3, <1>4 DEF WaitsTo
<1>6. CASE m.hash = "constant"
  <2>1. Answer(m) /\ Content(m) = m.made /\ Tells(l, Content(m))
    BY <1>1, <1>2, <1>6 DEF Answer, Content
  <2>2. More(Taken(l), chan', h, M) /\ \A x \in M : Answer(x) => Content(x) = Content(m)
    <3>1. \A k \in Links : Taken(l)[k] \in Seq(Messages) /\ <<>> \in Seq(M)
      BY <1>1 DEF Chans
    <3>2. \A k \in Links : Taken(l)[k] = Taken(l)[k] \o <<>>
      BY <3>1
    <3>3. Taken(l) = [k \in Links |-> Taken(l)[k]]
      BY <1>1 DEF Chans
    <3>4. More(Taken(l), Taken(l), h, M)
      BY <3>1, <3>2, <3>3 DEF More
    <3>5. QED
      BY <1>2, <3>4
  <2> HIDE DEF M
  <2>3. QED
    BY <1>1, <1>2, <1>5, <2>1, <2>2, ReadTold DEF Known
<1>7. CASE m.hash # "constant"
  <2>1. Fewer(chan', chan)
    BY <1>1, <1>2, TakenThin, FewerThin
  <2>2. QED
    BY <1>2, <1>5, <1>7, <2>1, ReadPlain DEF Known
<1>8. QED
  BY <1>6, <1>7

LEMMA ReadStep ==
  Typed /\ Known /\ (Single => Fresh) /\ [Next]_vars => Known' /\ (Single => Fresh)'
<1> SUFFICES ASSUME Typed, Known, Single => Fresh, [Next]_vars PROVE Known' /\ (Single => Fresh)'
  OBVIOUS
<1>0. Typed'
  BY TypedStep
<1>1. ASSUME NEW l \in Links, Handle(l) PROVE Known' /\ (Single => Fresh)'
  <2>1. CASE Query(l) \/ Push(l)
    BY <1>0, <2>1, ReadOwner, ReadPassed
  <2>2. CASE QueryAnswer(l) \/ PushAnswer(l)
    BY <1>0, <2>2, ReadQueryAnswer, ReadPushAnswer
  <2>3. CASE PathQuestion(l) \/ PathFound(l) \/ StoreVia(l) \/ StoreDist(l) \/ Tell(l)
    BY <2>3, ReadPassed
  <2>4. QED
    BY <1>1, <2>1, <2>2, <2>3 DEF Handle
<1>2. ASSUME NEW l \in Links, Break(l[1], l[2]) PROVE Known' /\ (Single => Fresh)'
  BY <1>2, BreakLoses, ReadLost DEF Break, history
<1>3. CASE UNCHANGED vars
  <2>1. UNCHANGED <<chan, getList, writes, waiting, prog, got, floor, told, sources>>
    BY <1>3 DEF vars, history
  <2>2. QED
    BY <2>1, ReadLost
<1>4. QED
  BY <1>0, <1>1, <1>2, <1>3, ReadBegin, ReadAgent DEF Next

\* A set of one neighbour at most.
LEMMA OneSource ==
  ASSUME TypeOK, \A h \in Hives : Cardinality(sources[h]) <= 1
  PROVE  Single
<1> SUFFICES ASSUME NEW h \in Hives PROVE \A f, g \in sources[h] : f = g
  BY DEF Single
<1> DEFINE S == sources[h]
<1>1. S \in SUBSET Hives /\ IsFiniteSet(Hives) /\ Cardinality(S) <= 1
  BY TypeIs, RemoteAssumption
<1> HIDE DEF S
<1>2. IsFiniteSet(S) /\ Cardinality(S) \in Nat
  BY <1>1, FS_Subset, FS_CardinalityType
<1>3. CASE Cardinality(S) = 0
  BY <1>2, <1>3, FS_EmptySet DEF S
<1>4. CASE Cardinality(S) = 1
  <2>1. \E x : S = {x}
    BY <1>2, <1>4, FS_Singleton
  <2>2. QED
    BY <2>1 DEF S
<1>5. QED
  BY <1>1, <1>2, <1>3, <1>4

\* For every graph, every program of the workers and whatever breaks: as long
\* as each hive has its answers from one neighbour, a worker that reads gets at
\* least what an answer had told its hive of when it began, although one answer
\* continues all who wait, and relays answer whole lists (remote.c:858-929).
THEOREM RemoteReads == Spec => []NoStaleRead
<1> DEFINE IInv == Typed /\ Known /\ (Single => Fresh)
<1>1. Init => IInv
  <2> SUFFICES ASSUME Init PROVE IInv
    OBVIOUS
  <2>1. Typed
    BY TypedInit
  <2>2. stored = 0 /\ Owner \in Hives /\ HiveOf \in [Workers -> Hives]
    BY RemoteAssumption DEF Init, stored
  <2>3. Known
    BY <2>2 DEF Init, Known, Bound
  <2>4. Fresh
    BY <2>2 DEF Init, Fresh, Order, Least
  <2>5. QED
    BY <2>1, <2>3, <2>4
<1>2. IInv /\ [Next]_vars => IInv'
  <2> SUFFICES ASSUME IInv, [Next]_vars PROVE IInv'
    OBVIOUS
  <2>1. Typed'
    BY TypedStep
  <2>2. Known' /\ (Single => Fresh)'
    BY ReadStep
  <2>3. QED
    BY <2>1, <2>2
<1>3. IInv => NoStaleRead
  <2> SUFFICES ASSUME IInv, \A h \in Hives : Cardinality(sources[h]) <= 1, NEW w \in Workers \ waiting
               PROVE  got[w] >= floor[w]
    BY DEF NoStaleRead
  <2>1. Single
    BY OneSource DEF Typed
  <2>2. QED
    BY <2>1 DEF Fresh, WaitsTo
<1>4. QED
  BY <1>1, <1>2, <1>3, PTL DEF Spec

=============================================================================
