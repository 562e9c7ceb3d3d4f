--------------------------- MODULE BroadcastProofs ---------------------------
(***************************************************************************)
(* Proofs about Broadcast for every finite graph of hives and every set of *)
(* broadcasts: types, a hive asks each neighbour at most once and never    *)
(* the one that asked it, and it accepts no number before an answer when   *)
(* it had somebody to ask.                                                 *)
(***************************************************************************)
EXTENDS Broadcast, FiniteSetTheorems, TLAPS

---------------------------------------------------------------------------
(* Types *)

Numbers == {Value[b] : b \in IdBroadcasts} \cup {None}
Page == [id : {Value[b] : b \in PageBroadcasts}, next : 0 .. OBJECTS_PER_PAGE]
Messages == [type : {"ask", "yes"}, b : Broadcasts]

EntryOK ==
    /\ entry \in [Hives -> [Broadcasts -> Entries \cup {None}]]
    /\ \A h \in Hives, b \in Broadcasts :
          entry[h][b] # None => /\ b \in begun
                                /\ entry[h][b].from # Self => {h, entry[h][b].from} \in links

JobOK ==
    /\ job \in [Hives -> [Conns -> Jobs \cup {None}]]
    /\ \A h \in Hives, c \in Conns :
          job[h][c] # None => /\ job[h][c].b \in begun
                              /\ job[h][c].left \subseteq Neighbours(h) \ {c}
                              /\ c # Self => {h, c} \in links

\* Messages are on connections, about broadcasts that have begun.
NetOK(n) ==
    /\ n \in [Hives -> [Hives -> Seq(Messages)]]
    /\ \A h, g \in Hives : n[h][g] # <<>> => {h, g} \in links
    /\ \A h, g \in Hives : \A i \in 1 .. Len(n[h][g]) : n[h][g][i].b \in begun

\* A thread that asks the neighbours does so for the connection that the
\* broadcast came from.
Asking(h, c) == job[h][c] # None /\ job[h][c].step # "insert"
AskersOK ==
    \A h \in Hives, c \in Conns :
        Asking(h, c) => /\ entry[h][job[h][c].b] # None
                        /\ entry[h][job[h][c].b].from = c

Stock ==
    /\ owner \in [Hives -> Numbers]
    /\ pages \in [Hives -> Seq(Page)]
    /\ reused \subseteq Hives

Typed ==
    /\ links \subseteq MayConnect \cup Connected
    /\ begun \subseteq Broadcasts
    /\ Stock /\ EntryOK /\ JobOK /\ AskersOK /\ NetOK(net)

LEMMA TypedInit == Init => Typed
  BY BroadcastAssumption
     DEF Init, Typed, Stock, EntryOK, JobOK, AskersOK, Asking, NetOK, Numbers, Page, Messages

LEMMA LinkIsPair ==
  ASSUME Typed, NEW h \in Hives
  PROVE  Neighbours(h) \subseteq Hives \ {h}
  BY BroadcastAssumption DEF Typed, Neighbours

\* What there is of an entry, and of a job.
LEMMA EntryIs ==
  ASSUME EntryOK, NEW h \in Hives, NEW b \in Broadcasts, entry[h][b] # None
  PROVE  /\ entry[h][b] \in Entries /\ b \in begun
         /\ entry[h][b].from \in Conns /\ entry[h][b].answered \in Nat
         /\ entry[h][b].requested \in Nat /\ entry[h][b].told \in Nat
         /\ entry[h][b].from # Self => {h, entry[h][b].from} \in links
<1>1. entry[h][b] \in Entries
  BY DEF EntryOK
<1>2. b \in begun /\ (entry[h][b].from # Self => {h, entry[h][b].from} \in links)
  BY DEF EntryOK
<1>3. QED
  BY <1>1, <1>2 DEF Entries

LEMMA JobIs ==
  ASSUME JobOK, NEW h \in Hives, NEW c \in Conns, job[h][c] # None
  PROVE  /\ job[h][c] \in Jobs /\ job[h][c].b \in begun
         /\ job[h][c].b \in Broadcasts /\ job[h][c].step \in {"insert", "send", "count"}
         /\ job[h][c].left \subseteq Hives
         /\ job[h][c].left \subseteq Neighbours(h) \ {c}
         /\ c # Self => {h, c} \in links
<1>1. job[h][c] \in Jobs
  BY DEF JobOK
<1>2. job[h][c].b \in begun /\ (c # Self => {h, c} \in links)
  BY DEF JobOK
<1>3. job[h][c].left \subseteq Neighbours(h) \ {c}
  BY DEF JobOK
<1>4. QED
  BY <1>1, <1>2, <1>3 DEF Jobs

LEMMA TypedGives == Typed => TypeOK
<1> SUFFICES ASSUME Typed PROVE TypeOK
  OBVIOUS
<1>1. ASSUME NEW h \in Hives, NEW i \in DOMAIN pages[h]
      PROVE  /\ pages[h][i].id \in {Value[b] : b \in PageBroadcasts}
             /\ pages[h][i].next \in 0 .. OBJECTS_PER_PAGE
  <2>1. pages[h] \in Seq(Page)
    BY DEF Typed, Stock
  <2>2. pages[h][i] \in Page
    BY <2>1
  <2>3. QED
    BY <2>2 DEF Page
<1>2. ASSUME NEW h \in Hives, NEW c \in Conns, job[h][c] # None
      PROVE  /\ job[h][c] \in Jobs /\ job[h][c].b \in begun
             /\ job[h][c].left \subseteq Hives \ {h, c}
  BY <1>2, JobIs, LinkIsPair DEF Typed
<1>3. /\ links \subseteq MayConnect \cup Connected
      /\ owner \in [Hives -> {Value[b] : b \in IdBroadcasts} \cup {None}]
      /\ reused \subseteq Hives /\ begun \subseteq Broadcasts
  BY DEF Typed, Stock, Numbers
<1>4. \A h \in Hives, b \in Broadcasts :
         entry[h][b] # None => entry[h][b] \in Entries /\ b \in begun
  BY EntryIs DEF Typed
<1>5. \A h, g \in Hives : net[h][g] # <<>> => {h, g} \in links
  BY DEF Typed, NetOK
<1>6. QED
  BY <1>1, <1>2, <1>3, <1>4, <1>5 DEF TypeOK

\* A message more, a message less.
LEMMA PutOK ==
  ASSUME NEW n, NetOK(n), NEW h \in Hives, NEW g \in Hives, {h, g} \in links,
         NEW m \in Messages, m.b \in begun
  PROVE  NetOK(Put(n, h, g, m))
<1>1. /\ n \in [Hives -> [Hives -> Seq(Messages)]]
      /\ \A x, y \in Hives : n[x][y] # <<>> => {x, y} \in links
      /\ \A x, y \in Hives : \A i \in 1 .. Len(n[x][y]) : n[x][y][i].b \in begun
  BY DEF NetOK
<1> DEFINE p == Put(n, h, g, m)
<1>2. p \in [Hives -> [Hives -> Seq(Messages)]]
  BY <1>1 DEF Put
<1>3. \A x, y \in Hives : p[x][y] = IF x = h /\ y = g THEN Append(n[h][g], m) ELSE n[x][y]
  BY <1>1 DEF Put
<1> HIDE DEF p
<1>4. \A x, y \in Hives : \A i \in 1 .. Len(p[x][y]) : p[x][y][i].b \in begun
  <2> SUFFICES ASSUME NEW x \in Hives, NEW y \in Hives, NEW i \in 1 .. Len(p[x][y])
               PROVE  p[x][y][i].b \in begun
    OBVIOUS
  <2>1. CASE x = h /\ y = g
    <3>1. n[h][g] \in Seq(Messages) /\ p[x][y] = Append(n[h][g], m)
      BY <1>1, <1>3, <2>1
    <3>2. \/ i \in 1 .. Len(n[h][g]) /\ p[x][y][i] = n[h][g][i]
          \/ p[x][y][i] = m
      BY <3>1
    <3>3. QED
      BY <1>1, <3>2
  <2>2. CASE ~(x = h /\ y = g)
    BY <1>1, <1>3, <2>2
  <2>3. QED
    BY <2>1, <2>2
<1>5. NetOK(p)
  BY <1>1, <1>2, <1>3, <1>4 DEF NetOK
<1>6. QED
  BY <1>5 DEF p

LEMMA TakenOK ==
  ASSUME NetOK(net), NEW h \in Hives, NEW g \in Hives, net[g][h] # <<>>
  PROVE  /\ NetOK(Taken(h, g))
         /\ Head(net[g][h]) \in Messages /\ Head(net[g][h]).b \in begun
         /\ {h, g} \in links
<1>1. /\ net \in [Hives -> [Hives -> Seq(Messages)]]
      /\ \A x, y \in Hives : net[x][y] # <<>> => {x, y} \in links
      /\ \A x, y \in Hives : \A i \in 1 .. Len(net[x][y]) : net[x][y][i].b \in begun
  BY DEF NetOK
<1> DEFINE p == Taken(h, g)
<1>2. p \in [Hives -> [Hives -> Seq(Messages)]]
  BY <1>1 DEF Taken
<1>3. \A x, y \in Hives : p[x][y] = IF x = g /\ y = h THEN Tail(net[g][h]) ELSE net[x][y]
  BY <1>1 DEF Taken
<1> HIDE DEF p
<1>4. \A x, y \in Hives : \A i \in 1 .. Len(p[x][y]) : p[x][y][i].b \in begun
  <2> SUFFICES ASSUME NEW x \in Hives, NEW y \in Hives, NEW i \in 1 .. Len(p[x][y])
               PROVE  p[x][y][i].b \in begun
    OBVIOUS
  <2>1. CASE x = g /\ y = h
    <3>1. net[g][h] \in Seq(Messages) /\ p[x][y] = Tail(net[g][h])
      BY <1>1, <1>3, <2>1
    <3>2. i + 1 \in 1 .. Len(net[g][h]) /\ p[x][y][i] = net[g][h][i + 1]
      BY <3>1
    <3>3. QED
      BY <1>1, <3>2
  <2>2. CASE ~(x = g /\ y = h)
    BY <1>1, <1>3, <2>2
  <2>3. QED
    BY <2>1, <2>2
<1>5. NetOK(p)
  BY <1>1, <1>2, <1>3, <1>4 DEF NetOK
<1>6. 1 \in 1 .. Len(net[g][h]) /\ Head(net[g][h]) = net[g][h][1] /\ {g, h} = {h, g}
  BY <1>1
<1>7. Head(net[g][h]) \in Messages /\ Head(net[g][h]).b \in begun /\ {h, g} \in links
  BY <1>1, <1>6
<1>8. QED
  BY <1>5, <1>7 DEF p

\* Connections come up and broadcasts begin, and neither ends.
Grown == links \subseteq links' /\ begun \subseteq begun'

LEMMA EntrySame ==
  ASSUME EntryOK, Grown, entry' = entry PROVE EntryOK'
  BY DEF EntryOK, Grown

LEMMA EntrySet ==
  ASSUME EntryOK, Grown, NEW h \in Hives, NEW b \in Broadcasts, NEW v \in Entries,
         entry' = [entry EXCEPT ![h][b] = v], b \in begun',
         v.from # Self => {h, v.from} \in links'
  PROVE  EntryOK'
<1>1. entry' \in [Hives -> [Broadcasts -> Entries \cup {None}]]
  BY DEF EntryOK
<1>2. \A x \in Hives, y \in Broadcasts :
         entry'[x][y] = IF x = h /\ y = b THEN v ELSE entry[x][y]
  BY DEF EntryOK
<1>3. QED
  BY <1>1, <1>2 DEF EntryOK, Grown

LEMMA JobSame ==
  ASSUME JobOK, Grown, job' = job PROVE JobOK'
<1>1. \A h \in Hives : Neighbours(h) \subseteq Neighbours(h)'
  BY DEF Grown, Neighbours
<1>2. \A h \in Hives, c \in Conns :
         job'[h][c] # None => /\ job'[h][c].b \in begun'
                              /\ job'[h][c].left \subseteq Neighbours(h)' \ {c}
                              /\ c # Self => {h, c} \in links'
  BY <1>1, JobIs DEF Grown
<1>3. QED
  BY <1>2 DEF JobOK

LEMMA JobSet ==
  ASSUME JobOK, Grown, NEW h \in Hives, NEW c \in Conns, NEW v \in Jobs \cup {None},
         job' = [job EXCEPT ![h][c] = v],
         v # None => /\ v.b \in begun' /\ v.left \subseteq Neighbours(h) \ {c}
                     /\ c # Self => {h, c} \in links'
  PROVE  JobOK'
<1>1. job' \in [Hives -> [Conns -> Jobs \cup {None}]]
  BY DEF JobOK
<1>2. \A x \in Hives, y \in Conns :
         job'[x][y] = IF x = h /\ y = c THEN v ELSE job[x][y]
  BY DEF JobOK
<1>3. \A x \in Hives : Neighbours(x) \subseteq Neighbours(x)'
  BY DEF Grown, Neighbours
<1>4. ASSUME NEW x \in Hives, NEW y \in Conns, job'[x][y] # None
      PROVE  /\ job'[x][y].b \in begun'
             /\ job'[x][y].left \subseteq Neighbours(x)' \ {y}
             /\ y # Self => {x, y} \in links'
  <2>1. CASE x = h /\ y = c
    BY <1>2, <1>3, <1>4, <2>1
  <2>2. CASE ~(x = h /\ y = c)
    BY <1>2, <1>3, <1>4, <2>2, JobIs DEF Grown
  <2>3. QED
    BY <2>1, <2>2
<1>5. QED
  BY <1>1, <1>4 DEF JobOK

\* Entries stay and keep where they came from; the job of one thread changes.
EntriesStay ==
    \A h \in Hives, b \in Broadcasts :
        entry[h][b] # None => entry'[h][b] # None /\ entry'[h][b].from = entry[h][b].from

LEMMA AskersKept ==
  ASSUME JobOK, AskersOK, EntriesStay, NEW h \in Hives, NEW c \in Conns,
         NEW v \in Jobs \cup {None}, job' = [job EXCEPT ![h][c] = v],
         \/ v = None \/ v.step = "insert"
         \/ entry'[h][v.b] # None /\ entry'[h][v.b].from = c
  PROVE  AskersOK'
<1>1. \A x \in Hives, y \in Conns : job'[x][y] = IF x = h /\ y = c THEN v ELSE job[x][y]
  BY DEF JobOK
<1> SUFFICES ASSUME NEW x \in Hives, NEW y \in Conns, job'[x][y] # None,
                    job'[x][y].step # "insert"
             PROVE  /\ entry'[x][job'[x][y].b] # None
                    /\ entry'[x][job'[x][y].b].from = y
  BY DEF AskersOK, Asking
<1>2. CASE x = h /\ y = c
  BY <1>1, <1>2
<1>3. CASE ~(x = h /\ y = c)
  <2>1. job'[x][y] = job[x][y] /\ Asking(x, y)
    BY <1>1, <1>3 DEF Asking
  <2>2. job[x][y].b \in Broadcasts
    BY <2>1, JobIs DEF Asking
  <2>3. QED
    BY <2>1, <2>2 DEF AskersOK, EntriesStay
<1>4. QED
  BY <1>2, <1>3

LEMMA AskersSame ==
  ASSUME JobOK, AskersOK, EntriesStay, job' = job PROVE AskersOK'
<1> SUFFICES ASSUME NEW x \in Hives, NEW y \in Conns, Asking(x, y)
             PROVE  /\ entry'[x][job[x][y].b] # None
                    /\ entry'[x][job[x][y].b].from = y
  BY DEF AskersOK, Asking
<1>1. job[x][y].b \in Broadcasts
  BY JobIs DEF Asking
<1>2. QED
  BY <1>1 DEF AskersOK, EntriesStay

\* One entry is made or changed.
LEMMA EntryStays ==
  ASSUME EntryOK, NEW h \in Hives, NEW b \in Broadcasts, NEW v \in Entries,
         entry' = [entry EXCEPT ![h][b] = v],
         entry[h][b] # None => v.from = entry[h][b].from
  PROVE  EntriesStay /\ entry'[h][b] = v /\ v # None
<1>1. \A x \in Hives, y \in Broadcasts :
         entry'[x][y] = IF x = h /\ y = b THEN v ELSE entry[x][y]
  BY DEF EntryOK
<1>2. v # None
  BY BroadcastAssumption
<1>3. QED
  BY <1>1, <1>2 DEF EntriesStay

LEMMA NetGrown ==
  ASSUME NEW n, NetOK(n), Grown, net' = n PROVE NetOK(net)'
  BY DEF NetOK, Grown

\* A hive that has all the answers.
LEMMA AcceptedTyped ==
  ASSUME Stock, NEW h \in Hives, NEW b \in Broadcasts, b \in begun, NEW from \in Conns,
         from # Self => {h, from} \in links, NEW n, NetOK(n), Accepted(h, b, from, n),
         links' = links, begun' = begun, reused' = reused
  PROVE  Stock' /\ NetOK(net)'
<1>1. Grown
  BY DEF Grown
<1>2. CASE from = Self
  <2>1. Stock'
    <3>1. CASE b \in IdBroadcasts
      BY <1>2, <3>1 DEF Accepted, Confirm, Stock, Numbers
    <3>2. CASE b \notin IdBroadcasts
      <4>1. [id |-> Value[b], next |-> 0] \in Page
        BY <3>2, BroadcastAssumption DEF Page, Broadcasts
      <4>2. /\ pages' = [pages EXCEPT ![h] = Append(pages[h], [id |-> Value[b], next |-> 0])]
            /\ owner' = owner
        BY <1>2, <3>2 DEF Accepted, Confirm
      <4>3. Append(pages[h], [id |-> Value[b], next |-> 0]) \in Seq(Page)
        BY <4>1 DEF Stock
      <4>4. QED
        BY <4>2, <4>3 DEF Stock
    <3>3. QED
      BY <3>1, <3>2
  <2>2. QED
    BY <1>1, <1>2, <2>1, NetGrown DEF Accepted
<1>3. CASE from # Self
  <2>1. Yes(b) \in Messages /\ Yes(b).b = b /\ from \in Hives
    BY <1>3 DEF Yes, Messages, Conns
  <2>2. NetOK(Put(n, h, from, Yes(b)))
    BY <1>3, <2>1, PutOK
  <2>3. QED
    BY <1>1, <1>3, <2>2, NetGrown DEF Accepted, Stock
<1>4. QED
  BY <1>2, <1>3

LEMMA AskAgainTyped ==
  ASSUME EntryOK, NEW h \in Hives, NEW g \in Hives, {h, g} \in links,
         NEW b \in Broadcasts, entry[h][b] # None, NEW n, NetOK(n), AskAgain(h, g, b, n),
         links' = links, begun' = begun
  PROVE  EntryOK' /\ NetOK(net)' /\ EntriesStay
<1>1. Grown
  BY DEF Grown
<1>2. entry[h][b] \in Entries /\ b \in begun /\ entry[h][b].told \in Nat
      /\ (entry[h][b].from # Self => {h, entry[h][b].from} \in links)
  BY EntryIs
<1>3. NetOK(Put(n, h, g, Yes(b)))
  <2>1. Yes(b) \in Messages /\ Yes(b).b = b
    BY DEF Yes, Messages
  <2>2. QED
    BY <1>2, <2>1, PutOK
<1>4. NetOK(net)'
  BY <1>1, <1>3, NetGrown DEF AskAgain
<1>5. CASE entry' = entry
  BY <1>1, <1>4, <1>5, EntrySame DEF EntriesStay
<1>6. CASE entry' # entry
  <2> DEFINE v == [entry[h][b] EXCEPT !.told = @ + 1]
  <2>1. entry' = [entry EXCEPT ![h][b] = v]
    BY <1>6 DEF AskAgain
  <2>2. v \in Entries /\ v.from = entry[h][b].from
    BY <1>2 DEF Entries
  <2> HIDE DEF v
  <2>3. QED
    BY <1>1, <1>2, <1>4, <2>1, <2>2, EntrySet, EntryStays
<1>7. QED
  BY <1>5, <1>6

\* An entry after one more answer, n the new value of told.
Answered(x, n) == [x EXCEPT !.answered = x.answered + 1, !.told = n]

LEMMA AnswerIsEntry ==
  ASSUME NEW x \in Entries, NEW n \in Nat
  PROVE  /\ Answered(x, n) \in Entries /\ Answered(x, n).from = x.from
         /\ Answered(x, n).answered = x.answered + 1 /\ Answered(x, n).told = n
         /\ Answered(x, n).requested = x.requested
<1> DEFINE y == [x EXCEPT !.answered = x.answered + 1]
<1>1. /\ y \in Entries /\ y.from = x.from /\ y.answered = x.answered + 1
      /\ y.requested = x.requested
  BY DEF Entries
<1>2. Answered(x, n) = [y EXCEPT !.told = n]
  BY DEF Entries, Answered
<1> HIDE DEF y
<1>3. QED
  BY <1>1, <1>2 DEF Entries

\* What an answer does, when it is the last one, when it is another and when
\* the broadcast is not found.
IsLast(h, b) == Found(h, b) /\ entry[h][b].answered + 1 = entry[h][b].requested

LEMMA AnswerDoes ==
  ASSUME NEW h \in Hives, NEW g \in Hives, Answer(h, g), NEW b, b = Head(net[g][h]).b
  PROVE  /\ net[g][h] # <<>> /\ UNCHANGED <<links, reused, begun, job>>
         /\ ~Found(h, b) => entry' = entry
         /\ Found(h, b) =>
               entry' = [entry EXCEPT ![h][b] =
                            Answered(entry[h][b], IF IsLast(h, b) THEN entry[h][b].told + 1
                                                                  ELSE entry[h][b].told)]
         /\ IsLast(h, b) => Accepted(h, b, entry[h][b].from, Taken(h, g))
         /\ ~IsLast(h, b) => net' = Taken(h, g) /\ UNCHANGED <<owner, pages>>
<1>1. net[g][h] # <<>> /\ UNCHANGED <<links, reused, begun, job>>
  BY Zenon DEF Answer, Received
<1>2. /\ IsLast(h, b) => Accepted(h, b, entry[h][b].from, Taken(h, g))
      /\ ~IsLast(h, b) => net' = Taken(h, g) /\ UNCHANGED <<owner, pages>>
  BY Zenon DEF Answer, IsLast
<1>3. /\ ~Found(h, b) => entry' = entry
      /\ Found(h, b) =>
            entry' = [entry EXCEPT ![h][b] =
                         Answered(entry[h][b], IF IsLast(h, b) THEN entry[h][b].told + 1
                                                               ELSE entry[h][b].told)]
  BY Zenon DEF Answer, IsLast, Answered
<1>4. QED
  BY <1>1, <1>2, <1>3

LEMMA TypedStep == Typed /\ [Next]_vars => Typed'
<1> SUFFICES ASSUME Typed, [Next]_vars PROVE Typed'
  OBVIOUS
<1>1. Stock /\ EntryOK /\ JobOK /\ AskersOK /\ NetOK(net) /\ begun \subseteq Broadcasts
  BY DEF Typed
<1>2. ASSUME NEW h \in Hives, NEW g \in Hives, Connect(h, g) PROVE Typed'
  <2>1. Grown /\ links' \subseteq MayConnect \cup Connected
    BY <1>2 DEF Connect, Grown, Typed
  <2>2. QED
    BY <1>1, <1>2, <2>1, EntrySame, JobSame, AskersSame, NetGrown
       DEF Connect, Typed, Stock, EntriesStay
<1>3. ASSUME NEW h \in Hives, NEW b \in Broadcasts,
             RequestServerId(h, b) \/ RequestMemoryPage(h, b)
      PROVE  Typed'
  <2> DEFINE e == Entry(Table(b), Self)
             j == Redirect(b, Neighbours(h))
  <2>1. /\ entry' = [entry EXCEPT ![h][b] = e] /\ job' = [job EXCEPT ![h][Self] = j]
        /\ begun' = begun \cup {b} /\ links' = links /\ net' = net
        /\ owner' = owner /\ pages' = pages /\ reused' = reused
    BY <1>3 DEF RequestServerId, RequestMemoryPage
  <2>2. e \in Entries /\ e.from = Self
    BY DEF Entry, Entries, Table, Conns
  <2>3. j \in Jobs /\ j.b = b /\ j.left = Neighbours(h)
    BY DEF Redirect, Jobs, Neighbours
  <2>4. Self \in Conns /\ Self \notin Neighbours(h) /\ Grown
    BY <2>1, BroadcastAssumption DEF Conns, Neighbours, Grown
  <2> HIDE DEF e, j
  <2>5. EntryOK'
    BY <1>1, <2>1, <2>2, <2>4, EntrySet
  <2>6. JobOK'
    BY <1>1, <2>1, <2>3, <2>4, JobSet
  <2>7. AskersOK'
    <3>1. entry[h][b] = None
      BY <1>1, <1>3, EntryIs DEF RequestServerId, RequestMemoryPage
    <3>2. EntriesStay /\ entry'[h][b] # None /\ entry'[h][b].from = Self
      BY <1>1, <2>1, <2>2, <3>1, EntryStays
    <3>3. QED
      BY <1>1, <2>1, <2>3, <2>4, <3>2, AskersKept
  <2>8. QED
    BY <1>1, <2>1, <2>4, <2>5, <2>6, <2>7, NetGrown DEF Typed, Stock
<1>4. ASSUME NEW h \in Hives, NewObject(h) PROVE Typed'
  <2>1. PICK i \in DOMAIN pages[h] :
          /\ pages[h][i].next < OBJECTS_PER_PAGE
          /\ pages' = [pages EXCEPT ![h][i].next = @ + 1]
          /\ reused' \in {reused, reused \cup {h}}
          /\ UNCHANGED <<links, owner, entry, begun, job, net>>
    BY <1>4 DEF NewObject
  <2>2. pages[h] \in Seq(Page) /\ pages[h][i] \in Page
    <3>1. pages[h] \in Seq(Page)
      BY <1>1 DEF Stock
    <3>2. QED
      BY <3>1
  <2> DEFINE p == [pages[h][i] EXCEPT !.next = @ + 1]
  <2>3. p \in Page
    <3> DEFINE x == pages[h][i]
    <3>1. x \in Page /\ x.next < OBJECTS_PER_PAGE /\ OBJECTS_PER_PAGE \in Nat
      BY <2>1, <2>2, BroadcastAssumption
    <3> HIDE DEF x
    <3>2. [x EXCEPT !.next = @ + 1] \in Page
      BY <3>1 DEF Page
    <3>3. QED
      BY <3>2 DEF x
  <2>4. [pages[h] EXCEPT ![i] = p] \in Seq(Page)
    <3> HIDE DEF p
    <3>1. i \in 1 .. Len(pages[h])
      BY <2>2
    <3>2. QED
      BY <2>2, <2>3, <3>1
  <2>5. pages' \in [Hives -> Seq(Page)]
    BY <1>1, <2>1, <2>4 DEF Stock
  <2>6. Grown
    BY <2>1 DEF Grown
  <2>7. QED
    BY <1>1, <2>1, <2>5, <2>6, EntrySame, JobSame, AskersSame, NetGrown
       DEF Typed, Stock, EntriesStay
<1>5. ASSUME NEW h \in Hives, NEW c \in Conns, SendAsk(h, c) PROVE Typed'
  <2>1. PICK g \in job[h][c].left :
          /\ net' = Put(net, h, g, Ask(job[h][c].b))
          /\ job' = [job EXCEPT ![h][c].step = "count", ![h][c].left = @ \ {g}]
    BY <1>5 DEF SendAsk
  <2>2. /\ job[h][c] # None /\ Grown /\ links' = links
        /\ UNCHANGED <<links, owner, pages, objects, reused, entry, begun>>
    BY <1>5 DEF SendAsk, Grown
  <2>3. /\ job[h][c] \in Jobs /\ job[h][c].b \in begun /\ job[h][c].b \in Broadcasts
        /\ job[h][c].left \subseteq Neighbours(h) \ {c} /\ (c # Self => {h, c} \in links)
    BY <1>1, <2>2, JobIs
  <2>4. g \in Hives /\ {h, g} \in links
    BY <2>3 DEF Neighbours
  <2>5. NetOK(net)'
    <3>1. Ask(job[h][c].b) \in Messages /\ Ask(job[h][c].b).b \in begun
      BY <2>3 DEF Ask, Messages
    <3>2. QED
      BY <1>1, <2>1, <2>2, <2>4, <3>1, PutOK, NetGrown
  <2>6. JobOK' /\ AskersOK'
    <3> DEFINE v == [job[h][c] EXCEPT !.step = "count", !.left = @ \ {g}]
    <3>1. job' = [job EXCEPT ![h][c] = v]
      BY <2>1
    <3>2. v \in Jobs /\ v.b = job[h][c].b /\ v.left = job[h][c].left \ {g}
      BY <2>3 DEF Jobs
    <3>3. Asking(h, c) /\ EntriesStay
      BY <1>5, <2>2 DEF SendAsk, Asking, EntriesStay
    <3> HIDE DEF v
    <3>4. JobOK'
      BY <1>1, <2>2, <2>3, <3>1, <3>2, JobSet
    <3>5. entry'[h][v.b] # None /\ entry'[h][v.b].from = c
      BY <1>1, <2>2, <3>2, <3>3 DEF AskersOK
    <3>6. QED
      BY <1>1, <3>1, <3>2, <3>3, <3>4, <3>5, AskersKept
  <2>7. QED
    BY <1>1, <2>2, <2>5, <2>6, EntrySame DEF Typed, Stock
<1>6. ASSUME NEW h \in Hives, NEW c \in Conns, Count(h, c) PROVE Typed'
  <2> DEFINE b == job[h][c].b
  <2>1. /\ job[h][c] # None /\ Grown
        /\ entry' = [entry EXCEPT ![h][b].requested = @ + 1]
        /\ job' = [job EXCEPT ![h][c].step = "send"]
        /\ UNCHANGED <<links, owner, pages, objects, reused, begun, net>>
    BY <1>6 DEF Count, Grown
  <2>2. /\ job[h][c] \in Jobs /\ b \in begun /\ b \in Broadcasts
        /\ job[h][c].left \subseteq Neighbours(h) \ {c} /\ (c # Self => {h, c} \in links)
    BY <1>1, <2>1, JobIs
  <2>3. entry[h][b] # None /\ entry[h][b].from = c /\ entry[h][b] \in Entries
        /\ entry[h][b].requested \in Nat
    <3>1. entry[h][b] # None /\ entry[h][b].from = c
      BY <1>1, <1>6, <2>1, <2>2 DEF Count, AskersOK, Asking
    <3>2. QED
      BY <1>1, <2>2, <3>1, EntryIs
  <2>4. EntryOK' /\ EntriesStay
    <3> DEFINE e == [entry[h][b] EXCEPT !.requested = @ + 1]
    <3>1. entry' = [entry EXCEPT ![h][b] = e]
      BY <2>1
    <3>2. e \in Entries /\ e.from = c
      BY <2>3 DEF Entries
    <3> HIDE DEF b, e
    <3>3. EntriesStay
      BY <1>1, <2>2, <2>3, <3>1, <3>2, EntryStays
    <3>4. b \in begun' /\ (e.from # Self => {h, e.from} \in links')
      BY <2>1, <2>2, <3>2
    <3>5. QED
      BY <1>1, <2>1, <2>2, <3>1, <3>2, <3>3, <3>4, EntrySet
  <2>5. JobOK' /\ AskersOK'
    <3> DEFINE v == [job[h][c] EXCEPT !.step = "send"]
    <3>1. job' = [job EXCEPT ![h][c] = v]
      BY <2>1
    <3>2. v \in Jobs /\ v.b = job[h][c].b /\ v.left = job[h][c].left
      BY <2>2 DEF Jobs
    <3> HIDE DEF v
    <3>3. JobOK'
      BY <1>1, <2>1, <2>2, <3>1, <3>2, JobSet
    <3>4. entry'[h][v.b] # None /\ entry'[h][v.b].from = c
      BY <2>2, <2>3, <2>4, <3>2 DEF EntriesStay
    <3>5. QED
      BY <1>1, <2>4, <3>1, <3>2, <3>3, <3>4, AskersKept
  <2>6. QED
    BY <1>1, <2>1, <2>4, <2>5, NetGrown DEF Typed, Stock
<1>7. CASE UNCHANGED vars
  <2>1. Grown
    BY <1>7 DEF vars, Grown
  <2>2. QED
    BY <1>1, <1>7, <2>1, EntrySame, JobSame, AskersSame, NetGrown
       DEF vars, Typed, Stock, EntriesStay
<1>8. ASSUME NEW h \in Hives, NEW c \in Conns, EndRedirect(h, c) PROVE Typed'
  <2> DEFINE b == job[h][c].b
  <2>1. /\ Asking(h, c) /\ Grown /\ job' = [job EXCEPT ![h][c] = None]
        /\ links' = links /\ begun' = begun /\ reused' = reused
    BY <1>8 DEF EndRedirect, Asking, Grown
  <2>2. b \in begun /\ b \in Broadcasts /\ (c # Self => {h, c} \in links)
    BY <1>1, <2>1, JobIs DEF Asking
  <2>3. /\ entry[h][b] # None /\ entry[h][b] \in Entries /\ entry[h][b].told \in Nat
        /\ entry[h][b].from = c
    BY <1>1, <2>1, <2>2, EntryIs DEF AskersOK
  <2>4. Stock' /\ NetOK(net)' /\ EntryOK' /\ EntriesStay
    <3>1. CASE entry[h][b].requested = 0
      <4> DEFINE e == [entry[h][b] EXCEPT !.told = @ + 1]
      <4>1. Accepted(h, b, c, net) /\ entry' = [entry EXCEPT ![h][b] = e]
        BY <1>8, <3>1 DEF EndRedirect
      <4>2. e \in Entries /\ e.from = c
        BY <2>3 DEF Entries
      <4> HIDE DEF e
      <4>3. EntryOK'
        BY <1>1, <2>1, <2>2, <4>1, <4>2, EntrySet
      <4>4. EntriesStay
        BY <1>1, <2>2, <2>3, <4>1, <4>2, EntryStays
      <4>5. Stock' /\ NetOK(net)'
        BY <1>1, <2>1, <2>2, <4>1, AcceptedTyped
      <4>6. QED
        BY <4>3, <4>4, <4>5
    <3>2. CASE entry[h][b].requested # 0
      <4>1. UNCHANGED <<owner, pages, entry, net>>
        BY <1>8, <3>2 DEF EndRedirect
      <4>2. QED
        BY <1>1, <2>1, <4>1, EntrySame, NetGrown DEF Stock, EntriesStay
    <3>3. QED
      BY <3>1, <3>2
  <2>5. JobOK' /\ AskersOK'
    BY <1>1, <2>1, <2>4, JobSet, AskersKept
  <2>6. QED
    BY <2>1, <2>4, <2>5 DEF Typed
<1>9. ASSUME NEW h \in Hives, NEW g \in Hives, Refuse(h, g) PROVE Typed'
  <2>1. /\ Grown /\ net' = Taken(h, g) /\ net[g][h] # <<>>
        /\ UNCHANGED <<links, owner, pages, objects, reused, entry, begun, job>>
    BY <1>9 DEF Refuse, Received, Grown
  <2>2. NetOK(net)'
    BY <1>1, <2>1, TakenOK, NetGrown
  <2>3. QED
    BY <1>1, <2>1, <2>2, EntrySame, JobSame, AskersSame DEF Typed, Stock, EntriesStay
<1>10. ASSUME NEW h \in Hives, NEW g \in Hives, LookUp(h, g) PROVE Typed'
  <2> DEFINE b == Head(net[g][h]).b
  <2>1. /\ Grown /\ net[g][h] # <<>> /\ g \in Conns
        /\ UNCHANGED <<links, owner, pages, objects, reused, begun>>
    BY <1>10 DEF LookUp, Received, Grown, Conns
  <2>2. /\ NetOK(Taken(h, g)) /\ b \in Broadcasts /\ b \in begun /\ {h, g} \in links
    BY <1>1, <2>1, TakenOK DEF Messages
  <2>3. CASE Found(h, b)
    <3>1. AskAgain(h, g, b, Taken(h, g)) /\ job' = job /\ entry[h][b] # None
      BY <1>10, <2>3 DEF LookUp, Found
    <3>2. EntryOK' /\ NetOK(net)' /\ EntriesStay
      BY <1>1, <2>1, <2>2, <3>1, AskAgainTyped
    <3>3. QED
      BY <1>1, <2>1, <3>1, <3>2, JobSame, AskersSame DEF Typed, Stock
  <2>4. CASE ~Found(h, b)
    <3> DEFINE v == [b |-> b, step |-> "insert", left |-> {}]
    <3>1. job' = [job EXCEPT ![h][g] = v] /\ net' = Taken(h, g) /\ entry' = entry
      BY <1>10, <2>4 DEF LookUp
    <3>2. v \in Jobs /\ v.b = b /\ v.left = {} /\ v.step = "insert"
      BY <2>2 DEF Jobs
    <3> HIDE DEF v
    <3>3. JobOK'
      BY <1>1, <2>1, <2>2, <3>1, <3>2, JobSet
    <3>4. AskersOK'
      BY <1>1, <2>1, <3>1, <3>2, AskersKept DEF EntriesStay
    <3>5. QED
      BY <1>1, <2>1, <2>2, <3>1, <3>3, <3>4, EntrySame, NetGrown DEF Typed, Stock
  <2>5. QED
    BY <2>3, <2>4
<1>11. ASSUME NEW h \in Hives, NEW g \in Hives, Insert(h, g) PROVE Typed'
  <2> DEFINE b == job[h][g].b
  <2>1. /\ Grown /\ g \in Conns /\ g # Self /\ job[h][g] # None
        /\ UNCHANGED <<links, owner, pages, objects, reused, begun>>
    BY <1>11, BroadcastAssumption DEF Insert, Grown, Conns
  <2>2. b \in Broadcasts /\ b \in begun /\ {h, g} \in links
    BY <1>1, <2>1, JobIs
  <2>3. CASE entry[h][b] = None
    <3> DEFINE e == Entry("get_id_broadcasts", g)
               v == Redirect(b, Neighbours(h) \ {g})
    <3>1. entry' = [entry EXCEPT ![h][b] = e] /\ job' = [job EXCEPT ![h][g] = v] /\ net' = net
      BY <1>11, <2>3 DEF Insert
    <3>2. e \in Entries /\ e.from = g
      BY <2>1 DEF Entry, Entries
    <3>3. v \in Jobs /\ v.b = b /\ v.left = Neighbours(h) \ {g}
      BY <2>2 DEF Redirect, Jobs, Neighbours
    <3> HIDE DEF e, v
    <3>4. EntryOK'
      BY <1>1, <2>1, <2>2, <3>1, <3>2, EntrySet
    <3>5. EntriesStay /\ entry'[h][b] # None /\ entry'[h][b].from = g
      <4> HIDE DEF b
      <4>1. EntriesStay /\ entry'[h][b] = e /\ e # None
        BY <1>1, <2>2, <2>3, <3>1, <3>2, EntryStays
      <4>2. QED
        BY <3>2, <4>1
    <3>6. JobOK'
      BY <1>1, <2>1, <2>2, <3>1, <3>3, JobSet
    <3>7. AskersOK'
      BY <1>1, <2>1, <3>1, <3>3, <3>5, AskersKept
    <3>8. QED
      BY <1>1, <2>1, <3>1, <3>4, <3>6, <3>7, NetGrown DEF Typed, Stock
  <2>4. CASE entry[h][b] # None
    <3>1. AskAgain(h, g, b, net) /\ job' = [job EXCEPT ![h][g] = None]
      BY <1>11, <2>4 DEF Insert
    <3>2. EntryOK' /\ NetOK(net)' /\ EntriesStay
      BY <1>1, <2>1, <2>2, <2>4, <3>1, AskAgainTyped
    <3>3. JobOK' /\ AskersOK'
      BY <1>1, <2>1, <3>1, <3>2, JobSet, AskersKept
    <3>4. QED
      BY <1>1, <2>1, <3>2, <3>3 DEF Typed, Stock
  <2>5. QED
    BY <2>3, <2>4
<1>12. ASSUME NEW h \in Hives, NEW g \in Hives, Answer(h, g) PROVE Typed'
  <2>1. net[g][h] # <<>>
    BY <1>12, AnswerDoes
  <2>2. PICK b \in Broadcasts : b = Head(net[g][h]).b /\ b \in begun
    BY <1>1, <2>1, TakenOK DEF Messages
  <2>3. Grown /\ job' = job /\ links' = links /\ begun' = begun /\ reused' = reused
    BY <1>12, AnswerDoes DEF Grown
  <2>4. NetOK(Taken(h, g))
    BY <1>1, <2>1, TakenOK
  <2>5. EntryOK' /\ EntriesStay
    <3>1. CASE Found(h, b)
      <4>1. /\ entry[h][b] \in Entries /\ entry[h][b].told \in Nat
            /\ entry[h][b].from # Self => {h, entry[h][b].from} \in links
        BY <1>1, <3>1, EntryIs DEF Found
      <4> DEFINE x == entry[h][b]
                 n == IF IsLast(h, b) THEN entry[h][b].told + 1 ELSE entry[h][b].told
                 e == Answered(x, n)
      <4>2. entry' = [entry EXCEPT ![h][b] = e]
        BY <1>12, <2>2, <3>1, AnswerDoes
      <4>3. n \in Nat /\ x \in Entries /\ x # None
        BY <3>1, <4>1 DEF Found
      <4>4. x.from # Self => {h, x.from} \in links
        BY <4>1
      <4>5. x = entry[h][b]
        OBVIOUS
      <4> HIDE DEF n, x
      <4>6. e \in Entries /\ e.from = x.from
        BY <4>3, AnswerIsEntry
      <4> HIDE DEF e
      <4>7. e.from # Self => {h, e.from} \in links'
        BY <2>3, <4>4, <4>6
      <4>8. EntryOK'
        BY <1>1, <2>2, <2>3, <4>2, <4>6, <4>7, EntrySet
      <4>9. e.from = entry[h][b].from
        BY <4>5, <4>6
      <4>10. EntriesStay
        BY <1>1, <4>2, <4>3, <4>6, <4>9, EntryStays
      <4>11. QED
        BY <4>8, <4>10
    <3>2. CASE ~Found(h, b)
      <4>1. entry' = entry
        BY <1>12, <2>2, <3>2, AnswerDoes
      <4>2. QED
        BY <1>1, <2>3, <4>1, EntrySame DEF EntriesStay
    <3>3. QED
      BY <3>1, <3>2
  <2>6. Stock' /\ NetOK(net)'
    <3>1. CASE IsLast(h, b)
      <4>1. Accepted(h, b, entry[h][b].from, Taken(h, g))
        BY <1>12, <2>2, <3>1, AnswerDoes
      <4>2. entry[h][b].from \in Conns
            /\ (entry[h][b].from # Self => {h, entry[h][b].from} \in links)
        BY <1>1, <3>1, EntryIs DEF IsLast, Found
      <4>3. QED
        BY <1>1, <2>2, <2>3, <2>4, <4>1, <4>2, AcceptedTyped
    <3>2. CASE ~IsLast(h, b)
      <4>1. net' = Taken(h, g) /\ UNCHANGED <<owner, pages>>
        BY <1>12, <2>2, <3>2, AnswerDoes
      <4>2. QED
        BY <1>1, <2>3, <2>4, <4>1, NetGrown DEF Stock
    <3>3. QED
      BY <3>1, <3>2
  <2>7. QED
    BY <1>1, <2>3, <2>5, <2>6, JobSame, AskersSame DEF Typed
<1>13. QED
  BY <1>2, <1>3, <1>4, <1>5, <1>6, <1>7, <1>8, <1>9, <1>10, <1>11, <1>12, BroadcastAssumption
     DEF Next, Redirection, Serve

LEMMA AlwaysTyped == Spec => []Typed
<1>1. QED
  BY TypedInit, TypedStep, PTL DEF Spec

\* The hives keep the types of their tables, and messages travel on
\* connections only (remote.c:607-790, 1266-1284).
THEOREM BroadcastTyping == Spec => []TypeOK
<1>1. QED
  BY AlwaysTyped, TypedGives, PTL

---------------------------------------------------------------------------
(* Counting.  What a hive has asked and still has to ask in a broadcast    *)
(* are at most the neighbours other than the one that asked it; and it has *)
(* told that one only after an answer, or with nobody left to ask.         *)

Pending(j) == IF j.step = "count" THEN 1 ELSE 0
Others(h, b) == Cardinality(Neighbours(h) \ {entry[h][b].from})
AsksFor(h, c, b) == Asking(h, c) /\ job[h][c].b = b

AskAt(h, b) ==
    /\ entry[h][b].requested <= Others(h, b)
    /\ \A c \in Conns : AsksFor(h, c, b) =>
          entry[h][b].requested + Cardinality(job[h][c].left) + Pending(job[h][c])
             <= Others(h, b)

EarnAt(h, b) ==
    entry[h][b].told > 0 =>
        \/ entry[h][b].answered > 0
        \/ entry[h][b].requested = 0 /\ \A c \in Conns : ~AsksFor(h, c, b)

Good(h, b) == entry[h][b] # None => AskAt(h, b) /\ EarnAt(h, b)
CountInv == \A h \in Hives, b \in Broadcasts : Good(h, b)

LEMMA CountInit == Init => CountInv
  BY DEF Init, CountInv, Good

\* Sets of hives have a size.
LEMMA Sizes ==
  ASSUME NEW S \in SUBSET Hives
  PROVE  /\ IsFiniteSet(S) /\ Cardinality(S) \in Nat
         /\ \A g \in S : Cardinality(S \ {g}) = Cardinality(S) - 1
         /\ \A T \in SUBSET S : Cardinality(T) <= Cardinality(S)
  BY BroadcastAssumption, FS_Subset, FS_CardinalityType, FS_RemoveElement

LEMMA OthersIsNat ==
  ASSUME NEW h \in Hives, NEW b \in Broadcasts
  PROVE  Others(h, b) \in Nat
<1>1. Neighbours(h) \ {entry[h][b].from} \in SUBSET Hives
  BY DEF Neighbours
<1>2. QED
  BY <1>1, Sizes DEF Others

\* A broadcast in which a hive does nothing, while its neighbours may grow.
LEMMA Untouched ==
  ASSUME NEW h \in Hives, NEW b \in Broadcasts, Good(h, b), Typed,
         entry'[h][b] = entry[h][b], links \subseteq links',
         \A c \in Conns : AsksFor(h, c, b)' => job'[h][c] = job[h][c]
  PROVE  Good(h, b)'
<1> SUFFICES ASSUME entry[h][b] # None PROVE AskAt(h, b)' /\ EarnAt(h, b)'
  BY DEF Good
<1>1. AskAt(h, b) /\ EarnAt(h, b)
  BY DEF Good
<1>2. Others(h, b) <= Others(h, b)' /\ Others(h, b) \in Nat /\ Others(h, b)' \in Nat
  <2> DEFINE S == Neighbours(h) \ {entry[h][b].from}
             T == Neighbours(h)' \ {entry[h][b].from}
  <2>1. S \in SUBSET T /\ T \in SUBSET Hives /\ S \in SUBSET Hives
    BY DEF Neighbours
  <2>2. Cardinality(S) <= Cardinality(T) /\ Cardinality(S) \in Nat /\ Cardinality(T) \in Nat
    BY <2>1, Sizes
  <2>3. QED
    BY <2>2 DEF Others
<1>3. \A c \in Conns : AsksFor(h, c, b)' => AsksFor(h, c, b) /\ job'[h][c] = job[h][c]
  BY DEF AsksFor, Asking
<1>4. entry[h][b].requested \in Nat
  BY EntryIs DEF Typed
<1>5. ASSUME NEW c \in Conns, AsksFor(h, c, b)'
      PROVE  entry'[h][b].requested + Cardinality(job'[h][c].left) + Pending(job'[h][c])
                <= Others(h, b)'
  <2>1. job[h][c].left \in SUBSET Hives
    BY <1>3, <1>5, JobIs DEF AsksFor, Asking, Typed
  <2>2. Cardinality(job[h][c].left) \in Nat /\ Pending(job[h][c]) \in Nat
    BY <2>1, Sizes DEF Pending
  <2>3. entry[h][b].requested + Cardinality(job[h][c].left) + Pending(job[h][c]) <= Others(h, b)
    BY <1>1, <1>3, <1>5 DEF AskAt
  <2>4. QED
    BY <1>2, <1>3, <1>4, <1>5, <2>2, <2>3
<1>6. AskAt(h, b)'
  <2>1. entry[h][b].requested <= Others(h, b)
    BY <1>1 DEF AskAt
  <2>2. entry'[h][b].requested <= Others(h, b)'
    BY <1>2, <1>4, <2>1
  <2>3. QED
    BY <1>5, <2>2 DEF AskAt
<1>7. EarnAt(h, b)'
  BY <1>1, <1>3 DEF EarnAt
<1>8. QED
  BY <1>6, <1>7

\* One hive works on one broadcast: the others are untouched.
LEMMA OneTouched ==
  ASSUME CountInv, Typed, NEW h \in Hives, NEW b \in Broadcasts, links' = links,
         \A x \in Hives, y \in Broadcasts : x # h \/ y # b => entry'[x][y] = entry[x][y],
         \A x \in Hives, c \in Conns :
            job'[x][c] = job[x][c] \/ (x = h /\ (Asking(x, c)' => job'[x][c].b = b)),
         Good(h, b)'
  PROVE  CountInv'
<1> SUFFICES ASSUME NEW x \in Hives, NEW y \in Broadcasts PROVE Good(x, y)'
  BY DEF CountInv
<1>1. CASE x = h /\ y = b
  BY <1>1
<1>2. CASE x # h \/ y # b
  <2>1. \A c \in Conns : AsksFor(x, c, y)' => job'[x][c] = job[x][c]
    BY <1>2 DEF AsksFor
  <2>2. Good(x, y) /\ entry'[x][y] = entry[x][y]
    BY <1>2 DEF CountInv
  <2>3. QED
    BY <2>1, <2>2, Untouched
<1>3. QED
  BY <1>1, <1>2

\* Nothing of what is counted changes.
LEMMA NoneTouched ==
  ASSUME CountInv, Typed, links \subseteq links', entry' = entry,
         \A h \in Hives, c \in Conns : job'[h][c] = job[h][c] \/ ~Asking(h, c)'
  PROVE  CountInv'
  BY Untouched DEF CountInv, AsksFor

\* The one that asks in a broadcast is the one of the connection it came from.
LEMMA OneAsks ==
  ASSUME Typed, NEW h \in Hives, NEW b \in Broadcasts, NEW c \in Conns, AsksFor(h, c, b)
  PROVE  entry[h][b] # None /\ entry[h][b].from = c
  BY DEF Typed, AskersOK, AsksFor

LEMMA OneAsksNext ==
  ASSUME Typed', NEW h \in Hives, NEW b \in Broadcasts, NEW c \in Conns, AsksFor(h, c, b)'
  PROVE  entry'[h][b] # None /\ entry'[h][b].from = c
  BY DEF Typed, AskersOK, AsksFor

\* A hive takes part in a broadcast: all its neighbours but the one that asked
\* are still to be asked.
LEMMA Opens ==
  ASSUME CountInv, Typed, Typed', NEW h \in Hives, NEW c \in Conns, NEW b \in Broadcasts,
         NEW t, links' = links, entry[h][b] = None,
         entry' = [entry EXCEPT ![h][b] = Entry(t, c)],
         job' = [job EXCEPT ![h][c] = Redirect(b, Neighbours(h) \ {c})]
  PROVE  CountInv'
<1> DEFINE e == Entry(t, c)
           j == Redirect(b, Neighbours(h) \ {c})
<1>1. /\ e.from = c /\ e.requested = 0 /\ e.told = 0
      /\ j.b = b /\ j.left = Neighbours(h) \ {c} /\ Pending(j) = 0
  BY DEF Entry, Redirect, Pending
<1> HIDE DEF e, j
<1>2. /\ entry'[h][b] = e
      /\ \A x \in Hives, y \in Broadcasts : x # h \/ y # b => entry'[x][y] = entry[x][y]
  BY DEF Typed, EntryOK, e
<1>3. /\ job'[h][c] = j
      /\ \A x \in Hives, z \in Conns : x # h \/ z # c => job'[x][z] = job[x][z]
  BY DEF Typed, JobOK, j
<1>4. \A z \in Conns : AsksFor(h, z, b)' => z = c
  BY <1>1, <1>2, OneAsksNext
<1>5. Neighbours(h)' = Neighbours(h)
  BY DEF Neighbours
<1>6. Others(h, b)' = Cardinality(Neighbours(h) \ {c})
  BY <1>1, <1>2, <1>5 DEF Others
<1>7. Cardinality(Neighbours(h) \ {c}) \in Nat
  <2>1. Neighbours(h) \ {c} \in SUBSET Hives
    BY DEF Neighbours
  <2>2. QED
    BY <2>1, Sizes
<1>8. Good(h, b)'
  <2>1. AskAt(h, b)'
    <3>1. entry'[h][b].requested = 0 /\ 0 <= Others(h, b)'
      BY <1>1, <1>2, <1>6, <1>7
    <3>2. 0 + Cardinality(job'[h][c].left) + Pending(job'[h][c]) <= Others(h, b)'
      <4>1. Cardinality(job'[h][c].left) = Cardinality(Neighbours(h) \ {c})
        BY <1>1, <1>3
      <4>2. Pending(job'[h][c]) = 0
        BY <1>1, <1>3
      <4> HIDE DEF Pending, Others, Neighbours
      <4>3. QED
        BY <4>1, <4>2, <1>6, <1>7
    <3>3. QED
      BY <1>4, <3>1, <3>2 DEF AskAt
  <2>2. EarnAt(h, b)'
    BY <1>1, <1>2 DEF EarnAt
  <2>3. QED
    BY <2>1, <2>2 DEF Good
<1>9. \A x \in Hives, z \in Conns :
         job'[x][z] = job[x][z] \/ (x = h /\ (Asking(x, z)' => job'[x][z].b = b))
  BY <1>1, <1>3
<1>10. QED
  BY <1>2, <1>8, <1>9, OneTouched

\* A neighbour that refused or gave its yes earlier does not come here: the
\* answer that the hive owes to g is given, or nothing is.
LEMMA AskAgainCounts ==
  ASSUME CountInv, Typed, Typed', NEW h \in Hives, NEW g \in Hives, NEW b \in Broadcasts,
         NEW n, links' = links, entry[h][b] # None, AskAgain(h, g, b, n),
         \A x \in Hives, z \in Conns : job'[x][z] = job[x][z] \/ (x = h /\ ~Asking(x, z)'),
         ~Asking(h, g)'
  PROVE  CountInv'
<1>1. CASE entry' = entry
  BY <1>1, NoneTouched
<1>2. CASE entry' # entry
  <2> DEFINE e == [entry[h][b] EXCEPT !.told = @ + 1]
  <2>1. /\ entry' = [entry EXCEPT ![h][b] = e] /\ entry[h][b].from = g
        /\ entry[h][b].answered = entry[h][b].requested
    BY <1>2 DEF AskAgain
  <2>2. entry[h][b] \in Entries /\ entry[h][b].answered \in Nat
    BY EntryIs DEF Typed
  <2>3. e.from = g /\ e.requested = entry[h][b].requested /\ e.answered = e.requested
    BY <2>1, <2>2 DEF Entries
  <2> HIDE DEF e
  <2>4. /\ entry'[h][b] = e
        /\ \A x \in Hives, y \in Broadcasts : x # h \/ y # b => entry'[x][y] = entry[x][y]
    BY <2>1 DEF Typed, EntryOK
  <2>5. \A z \in Conns : ~AsksFor(h, z, b)'
    <3> SUFFICES ASSUME NEW z \in Conns, AsksFor(h, z, b)' PROVE FALSE
      OBVIOUS
    <3>1. z = g
      BY <2>3, <2>4, OneAsksNext
    <3>2. QED
      BY <3>1 DEF AsksFor
  <2>6. entry[h][b].requested <= Others(h, b)
    BY DEF CountInv, Good, AskAt
  <2>7. Others(h, b)' = Others(h, b)
    BY <2>1, <2>3, <2>4 DEF Others, Neighbours
  <2>8. AskAt(h, b)'
    BY <2>3, <2>4, <2>5, <2>6, <2>7 DEF AskAt
  <2>9. EarnAt(h, b)'
    BY <2>1, <2>2, <2>3, <2>4, <2>5 DEF EarnAt
  <2>10. \A x \in Hives, z \in Conns :
            job'[x][z] = job[x][z] \/ (x = h /\ (Asking(x, z)' => job'[x][z].b = b))
    OBVIOUS
  <2>11. QED
    BY <2>4, <2>8, <2>9, <2>10, OneTouched DEF Good
<1>3. QED
  BY <1>1, <1>2

LEMMA SendAskCounts ==
  ASSUME CountInv, Typed, Typed', NEW h \in Hives, NEW c \in Conns, SendAsk(h, c)
  PROVE  CountInv'
<1>0. PICK b \in Broadcasts : b = job[h][c].b
  BY JobIs DEF Typed, SendAsk
<1>1. PICK g \in job[h][c].left :
         job' = [job EXCEPT ![h][c].step = "count", ![h][c].left = @ \ {g}]
  BY DEF SendAsk
<1>2. /\ job[h][c] # None /\ job[h][c].step = "send" /\ AsksFor(h, c, b)
      /\ links' = links /\ entry' = entry
  BY <1>0 DEF SendAsk, AsksFor, Asking
<1>3. job[h][c] \in Jobs /\ job[h][c].left \in SUBSET Hives
  BY <1>2, JobIs DEF Typed
<1>4. /\ job'[h][c].b = b /\ job'[h][c].step = "count" /\ job'[h][c].left = job[h][c].left \ {g}
      /\ \A x \in Hives, z \in Conns : x # h \/ z # c => job'[x][z] = job[x][z]
  BY <1>0, <1>1, <1>3 DEF Typed, JobOK, Jobs
<1>5. entry[h][b] # None /\ entry[h][b].from = c
  BY <1>2, OneAsks
<1>6. \A z \in Conns : AsksFor(h, z, b)' => z = c
  BY <1>2, <1>5, OneAsksNext
<1>7. Others(h, b)' = Others(h, b)
  BY <1>2 DEF Others, Neighbours
<1>8. AskAt(h, b) /\ EarnAt(h, b)
  BY <1>3, <1>5 DEF CountInv, Good
<1>9. AskAt(h, b)'
  <2>1. Cardinality(job'[h][c].left) = Cardinality(job[h][c].left) - 1
    BY <1>1, <1>3, <1>4, Sizes
  <2>2. Pending(job[h][c]) = 0 /\ Pending(job'[h][c]) = 1
    BY <1>2, <1>4 DEF Pending
  <2>3. Cardinality(job[h][c].left) \in Nat /\ entry[h][b].requested \in Nat
    BY <1>3, <1>5, Sizes, EntryIs DEF Typed
  <2>4. entry[h][b].requested + Cardinality(job'[h][c].left) + Pending(job'[h][c]) <= Others(h, b)
    <3>1. entry[h][b].requested + Cardinality(job[h][c].left) + Pending(job[h][c]) <= Others(h, b)
      BY <1>2, <1>8 DEF AskAt
    <3>2. QED
      BY <2>1, <2>2, <2>3, <3>1
  <2>5. QED
    BY <1>2, <1>6, <1>7, <1>8, <2>4 DEF AskAt
<1>10. EarnAt(h, b)'
  BY <1>2, <1>8 DEF EarnAt
<1>11. QED
  BY <1>2, <1>3, <1>4, <1>9, <1>10, OneTouched DEF Good

LEMMA CountCounts ==
  ASSUME CountInv, Typed, Typed', NEW h \in Hives, NEW c \in Conns, Count(h, c)
  PROVE  CountInv'
<1>0. PICK b \in Broadcasts : b = job[h][c].b
  BY JobIs DEF Typed, Count
<1>1. /\ job[h][c] # None /\ job[h][c].step = "count" /\ AsksFor(h, c, b)
      /\ links' = links
      /\ entry' = [entry EXCEPT ![h][b].requested = @ + 1]
      /\ job' = [job EXCEPT ![h][c].step = "send"]
  BY <1>0 DEF Count, AsksFor, Asking
<1>2. job[h][c] \in Jobs /\ job[h][c].left \in SUBSET Hives
  BY <1>1, JobIs DEF Typed
<1>3. /\ entry[h][b] # None /\ entry[h][b].from = c
      /\ entry[h][b] \in Entries /\ entry[h][b].requested \in Nat
  BY <1>1, OneAsks, EntryIs DEF Typed
<1>4. /\ entry'[h][b].requested = entry[h][b].requested + 1
      /\ entry'[h][b].told = entry[h][b].told /\ entry'[h][b].answered = entry[h][b].answered
      /\ entry'[h][b].from = c
      /\ \A x \in Hives, y \in Broadcasts : x # h \/ y # b => entry'[x][y] = entry[x][y]
  BY <1>1, <1>3 DEF Typed, EntryOK, Entries
<1>5. /\ job'[h][c].b = b /\ job'[h][c].step = "send" /\ job'[h][c].left = job[h][c].left
      /\ \A x \in Hives, z \in Conns : x # h \/ z # c => job'[x][z] = job[x][z]
  BY <1>0, <1>1, <1>2 DEF Typed, JobOK, Jobs
<1>6. \A z \in Conns : AsksFor(h, z, b)' => z = c
  BY <1>4, OneAsksNext
<1>7. Others(h, b)' = Others(h, b)
  BY <1>1, <1>3, <1>4 DEF Others, Neighbours
<1>8. AskAt(h, b) /\ EarnAt(h, b)
  BY <1>3 DEF CountInv, Good
<1>9. AskAt(h, b)'
  <2>1. Pending(job[h][c]) = 1 /\ Pending(job'[h][c]) = 0
    BY <1>1, <1>5 DEF Pending
  <2>2. Cardinality(job[h][c].left) \in Nat /\ Others(h, b) \in Nat
    BY <1>2, Sizes, OthersIsNat
  <2>3. entry[h][b].requested + Cardinality(job[h][c].left) + Pending(job[h][c]) <= Others(h, b)
    BY <1>1, <1>8 DEF AskAt
  <2>4. /\ entry'[h][b].requested <= Others(h, b)'
        /\ entry'[h][b].requested + Cardinality(job'[h][c].left) + Pending(job'[h][c])
              <= Others(h, b)'
    BY <1>3, <1>4, <1>5, <1>7, <2>1, <2>2, <2>3
  <2>5. QED
    BY <1>6, <2>4 DEF AskAt
<1>10. EarnAt(h, b)'
  BY <1>1, <1>4, <1>8 DEF EarnAt
<1>11. QED
  BY <1>1, <1>4, <1>5, <1>9, <1>10, OneTouched DEF Good

LEMMA EndCounts ==
  ASSUME CountInv, Typed, Typed', NEW h \in Hives, NEW c \in Conns, EndRedirect(h, c)
  PROVE  CountInv'
<1>0. PICK b \in Broadcasts : b = job[h][c].b
  BY JobIs DEF Typed, EndRedirect
<1>1. AsksFor(h, c, b) /\ links' = links /\ job' = [job EXCEPT ![h][c] = None]
  BY <1>0 DEF EndRedirect, AsksFor, Asking
<1>2. /\ entry[h][b] # None /\ entry[h][b].from = c
      /\ entry[h][b] \in Entries /\ entry[h][b].requested \in Nat
  BY <1>1, OneAsks, EntryIs DEF Typed
<1>3. /\ ~Asking(h, c)'
      /\ \A x \in Hives, z \in Conns : x # h \/ z # c => job'[x][z] = job[x][z]
  BY <1>1 DEF Typed, JobOK, Asking
<1>4. \A x \in Hives, z \in Conns : job'[x][z] = job[x][z] \/ (x = h /\ ~Asking(x, z)')
  BY <1>3
<1>5. CASE entry[h][b].requested = 0
  <2> DEFINE e == [entry[h][b] EXCEPT !.told = @ + 1]
  <2>1. entry' = [entry EXCEPT ![h][b] = e]
    BY <1>0, <1>5 DEF EndRedirect
  <2>2. e.from = c /\ e.requested = 0
    BY <1>2, <1>5 DEF Entries
  <2> HIDE DEF e
  <2>3. /\ entry'[h][b] = e
        /\ \A x \in Hives, y \in Broadcasts : x # h \/ y # b => entry'[x][y] = entry[x][y]
    BY <2>1 DEF Typed, EntryOK
  <2>4. \A z \in Conns : ~AsksFor(h, z, b)'
    <3> SUFFICES ASSUME NEW z \in Conns, AsksFor(h, z, b)' PROVE FALSE
      OBVIOUS
    <3>1. z = c
      BY <2>2, <2>3, OneAsksNext
    <3>2. QED
      BY <1>3, <3>1 DEF AsksFor
  <2>5. Others(h, b)' = Others(h, b) /\ Others(h, b) \in Nat
    BY <1>1, <1>2, <2>2, <2>3, OthersIsNat DEF Others, Neighbours
  <2>6. AskAt(h, b)' /\ EarnAt(h, b)'
    BY <2>2, <2>3, <2>4, <2>5 DEF AskAt, EarnAt
  <2>7. QED
    BY <1>1, <1>4, <2>3, <2>6, OneTouched DEF Good
<1>6. CASE entry[h][b].requested # 0
  BY <1>0, <1>1, <1>4, <1>6, NoneTouched DEF EndRedirect
<1>7. QED
  BY <1>5, <1>6

LEMMA AnswerCounts ==
  ASSUME CountInv, Typed, Typed', NEW h \in Hives, NEW g \in Hives, Answer(h, g)
  PROVE  CountInv'
<1>1. net[g][h] # <<>>
  BY AnswerDoes
<1>2. PICK b \in Broadcasts : b = Head(net[g][h]).b
  BY <1>1, TakenOK DEF Typed, Messages
<1>3. links' = links /\ job' = job
  BY AnswerDoes
<1>4. CASE Found(h, b)
  <2> DEFINE x == entry[h][b]
             n == IF IsLast(h, b) THEN entry[h][b].told + 1 ELSE entry[h][b].told
             e == Answered(x, n)
  <2>1. entry' = [entry EXCEPT ![h][b] = e]
    BY <1>2, <1>4, AnswerDoes
  <2>2. /\ x \in Entries /\ x # None /\ x.answered \in Nat /\ entry[h][b].told \in Nat
    BY <1>4, EntryIs DEF Typed, Found
  <2>3. n \in Nat
    BY <2>2
  <2> HIDE DEF n, x
  <2>4. e.from = x.from /\ e.answered = x.answered + 1 /\ e.requested = x.requested
    BY <2>2, <2>3, AnswerIsEntry
  <2> HIDE DEF e
  <2>5. e.answered > 0
    BY <2>2, <2>4
  <2>6. /\ entry'[h][b] = e
        /\ \A z \in Hives, y \in Broadcasts : z # h \/ y # b => entry'[z][y] = entry[z][y]
    BY <2>1 DEF Typed, EntryOK
  <2>7. AskAt(h, b)
    BY <2>2 DEF CountInv, Good, x
  <2>8. AskAt(h, b)'
    BY <1>3, <2>4, <2>6, <2>7 DEF AskAt, AsksFor, Asking, Others, Neighbours, x
  <2>9. EarnAt(h, b)'
    BY <2>5, <2>6 DEF EarnAt
  <2>10. QED
    BY <1>3, <2>6, <2>8, <2>9, OneTouched DEF Good
<1>5. CASE ~Found(h, b)
  BY <1>2, <1>3, <1>5, AnswerDoes, NoneTouched
<1>6. QED
  BY <1>4, <1>5

LEMMA CountStep == Typed /\ CountInv /\ [Next]_vars => CountInv'
<1> SUFFICES ASSUME Typed, CountInv, [Next]_vars PROVE CountInv'
  OBVIOUS
<1>1. Typed'
  BY TypedStep
<1>2. ASSUME links \subseteq links', entry' = entry, job' = job
      PROVE  CountInv'
  BY <1>2, NoneTouched
<1>3. ASSUME NEW h \in Hives, NEW b \in Broadcasts,
             RequestServerId(h, b) \/ RequestMemoryPage(h, b)
      PROVE  CountInv'
  <2>1. /\ links' = links /\ b \notin begun /\ Self \in Conns
        /\ entry' = [entry EXCEPT ![h][b] = Entry(Table(b), Self)]
        /\ job' = [job EXCEPT ![h][Self] = Redirect(b, Neighbours(h))]
    BY <1>3 DEF RequestServerId, RequestMemoryPage, Conns
  <2>2. entry[h][b] = None
    BY <2>1, EntryIs DEF Typed
  <2>3. Neighbours(h) \ {Self} = Neighbours(h)
    BY BroadcastAssumption DEF Neighbours
  <2>4. job' = [job EXCEPT ![h][Self] = Redirect(b, Neighbours(h) \ {Self})]
    BY <2>1, <2>3
  <2>5. QED
    BY <1>1, <2>1, <2>2, <2>4, Opens
<1>4. ASSUME NEW h \in Hives, NEW g \in Hives, LookUp(h, g) PROVE CountInv'
  <2>1. /\ links' = links /\ job[h][g] = None /\ g \in Conns /\ net[g][h] # <<>>
    BY <1>4 DEF LookUp, Received, Conns
  <2>2. PICK b \in Broadcasts : b = Head(net[g][h]).b
    BY <2>1, TakenOK DEF Typed, Messages
  <2>3. CASE Found(h, b)
    <3>1. AskAgain(h, g, b, Taken(h, g)) /\ job' = job /\ entry[h][b] # None
      BY <1>4, <2>2, <2>3 DEF LookUp, Found
    <3>2. ~Asking(h, g)'
      BY <2>1, <3>1 DEF Asking
    <3>3. QED
      BY <1>1, <2>1, <3>1, <3>2, AskAgainCounts
  <2>4. CASE ~Found(h, b)
    <3> DEFINE v == [b |-> b, step |-> "insert", left |-> {}]
    <3>1. job' = [job EXCEPT ![h][g] = v] /\ entry' = entry
      BY <1>4, <2>2, <2>4 DEF LookUp
    <3>2. v.step = "insert"
      OBVIOUS
    <3> HIDE DEF v
    <3>3. \A x \in Hives, z \in Conns : job'[x][z] = job[x][z] \/ job'[x][z] = v
      BY <3>1 DEF Typed, JobOK
    <3>4. QED
      BY <2>1, <3>1, <3>2, <3>3, NoneTouched DEF Asking
  <2>5. QED
    BY <2>3, <2>4
<1>5. ASSUME NEW h \in Hives, NEW g \in Hives, Insert(h, g) PROVE CountInv'
  <2>1. links' = links /\ job[h][g] # None /\ g \in Conns
    BY <1>5 DEF Insert, Conns
  <2>2. PICK b \in Broadcasts : b = job[h][g].b
    BY <2>1, JobIs DEF Typed
  <2>3. CASE entry[h][b] = None
    <3>1. /\ entry' = [entry EXCEPT ![h][b] = Entry("get_id_broadcasts", g)]
          /\ job' = [job EXCEPT ![h][g] = Redirect(b, Neighbours(h) \ {g})]
      BY <1>5, <2>2, <2>3 DEF Insert
    <3>2. QED
      BY <1>1, <2>1, <2>3, <3>1, Opens
  <2>4. CASE entry[h][b] # None
    <3>1. AskAgain(h, g, b, net) /\ job' = [job EXCEPT ![h][g] = None]
      BY <1>5, <2>2, <2>4 DEF Insert
    <3>2. /\ ~Asking(h, g)'
          /\ \A x \in Hives, z \in Conns : x # h \/ z # g => job'[x][z] = job[x][z]
      BY <2>1, <3>1 DEF Typed, JobOK, Asking
    <3>3. \A x \in Hives, z \in Conns : job'[x][z] = job[x][z] \/ (x = h /\ ~Asking(x, z)')
      BY <3>2
    <3>4. QED
      BY <1>1, <2>1, <2>4, <3>1, <3>2, <3>3, AskAgainCounts
  <2>5. QED
    BY <2>3, <2>4
<1>6. ASSUME NEW h \in Hives, NEW c \in Conns, Redirection(h, c) PROVE CountInv'
  BY <1>1, <1>6, SendAskCounts, CountCounts, EndCounts DEF Redirection
<1>7. ASSUME NEW h \in Hives, NEW g \in Hives, Connect(h, g) PROVE CountInv'
  BY <1>2, <1>7 DEF Connect
<1>8. ASSUME NEW h \in Hives, NEW g \in Hives, Refuse(h, g) PROVE CountInv'
  BY <1>2, <1>8 DEF Refuse
<1>9. ASSUME NEW h \in Hives, NewObject(h) PROVE CountInv'
  BY <1>2, <1>9 DEF NewObject
<1>10. CASE UNCHANGED vars
  BY <1>2, <1>10 DEF vars
<1>11. QED
  BY <1>1, <1>3, <1>4, <1>5, <1>6, <1>7, <1>8, <1>9, <1>10, AnswerCounts, BroadcastAssumption
     DEF Next, Serve

LEMMA AlwaysCounted == Spec => [](Typed /\ CountInv)
<1>1. QED
  BY TypedInit, TypedStep, CountInit, CountStep, PTL DEF Spec

\* In every graph of hives, a hive asks no neighbour twice in one broadcast and
\* never the one that asked it, and only one of its threads asks, however the
\* question comes back to it (remote.c:627-650, 754-770).
THEOREM NeighboursAskedOnce == Spec => []AskedOnce
<1>1. Typed /\ CountInv => AskedOnce
  <2> SUFFICES ASSUME Typed, CountInv, NEW h \in Hives, NEW b \in Broadcasts,
                      entry[h][b] # None
               PROVE  LET asking == {c \in Conns : AsksFor(h, c, b)}
                      IN /\ entry[h][b].requested <= Others(h, b)
                         /\ \A c \in asking :
                               /\ asking = {c}
                               /\ entry[h][b].requested + Cardinality(job[h][c].left)
                                     <= Others(h, b)
    BY DEF AskedOnce, AsksFor, Asking, Others
  <2>1. AskAt(h, b)
    BY DEF CountInv, Good
  <2>2. \A c \in Conns : AsksFor(h, c, b) => c = entry[h][b].from
    BY OneAsks
  <2>3. ASSUME NEW c \in Conns, AsksFor(h, c, b)
        PROVE  entry[h][b].requested + Cardinality(job[h][c].left) <= Others(h, b)
    <3>1. job[h][c].left \in SUBSET Hives
      BY <2>3, JobIs DEF AsksFor, Asking, Typed
    <3>2. /\ Cardinality(job[h][c].left) \in Nat /\ Others(h, b) \in Nat
          /\ entry[h][b].requested \in Nat /\ Pending(job[h][c]) \in {0, 1}
      BY <3>1, Sizes, OthersIsNat, EntryIs DEF Typed, Pending
    <3>3. entry[h][b].requested + Cardinality(job[h][c].left) + Pending(job[h][c]) <= Others(h, b)
      BY <2>1, <2>3 DEF AskAt
    <3>4. QED
      BY <3>2, <3>3
  <2>4. entry[h][b].requested <= Others(h, b)
    BY <2>1 DEF AskAt
  <2>5. QED
    BY <2>2, <2>3, <2>4
<1>2. QED
  BY <1>1, AlwaysCounted, PTL

\* In every graph of hives, a hive that had somebody to ask says yes only after
\* an answer (remote.c:631, 661, 686).
THEOREM YesIsEarned == Spec => []AcceptanceIsEarned
<1>1. Typed /\ CountInv => AcceptanceIsEarned
  BY DEF CountInv, Good, EarnAt, AsksFor, Asking, AcceptanceIsEarned
<1>2. QED
  BY <1>1, AlwaysCounted, PTL
=============================================================================
