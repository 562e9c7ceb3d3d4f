----------------------------- MODULE Broadcast -----------------------------
(***************************************************************************)
(* How hives agree on server ids and on pages of object ids                *)
(* (src/runtimes/0.3/common/remote.c).  A hive draws a number, asks every  *)
(* neighbour, and takes the number when all of them have answered.  A hive *)
(* that is asked passes the question on to its other neighbours and        *)
(* answers when all of those have; one that uses the number is silent.     *)
(*                                                                         *)
(* The two network workers of a hive and the thread that asks run          *)
(* concurrently: a question is sent in one step and counted in another.    *)
(* A connection is served by one worker at a time, and carries messages in *)
(* order.  Connections come up while questions travel; none breaks.        *)
(***************************************************************************)
EXTENDS Integers, Sequences, FiniteSets
LOCAL INSTANCE SequencesExt

CONSTANTS Hives,
          IdBroadcasts,    \* broadcast ids of questions for a server id
          PageBroadcasts,  \* broadcast ids of questions for a page
          Value,           \* the number asked for in each broadcast
          Connected,       \* pairs of hives that are connected
          MayConnect,      \* pairs of hives that may connect
          Askers,          \* hives whose threads ask for ids and pages
          WORKERS,         \* network workers of a hive (2 in the code)
          OBJECTS_PER_PAGE,
          Self,            \* local_redirect_id -1
          None

Broadcasts == IdBroadcasts \cup PageBroadcasts
Conns == Hives \cup {Self}

\* What a hive keeps of a broadcast, and a redirection for a connection.
Entries == [table : {"get_id_broadcasts", "get_page_broadcasts"}, from : Conns,
            answered : Nat, requested : Nat, told : Nat]
Jobs == [b : Broadcasts, step : {"insert", "send", "count"}, left : SUBSET Hives]

ASSUME BroadcastAssumption ==
    /\ IdBroadcasts \cap PageBroadcasts = {}
    /\ IsFiniteSet(Hives)
    /\ MayConnect \cup Connected \subseteq {{h, g} : h, g \in Hives} \ {{h} : h \in Hives}
    /\ Askers \subseteq Hives
    /\ WORKERS \in Nat \ {0}
    /\ OBJECTS_PER_PAGE \in Nat \ {0}
    /\ Self \notin Hives /\ None \notin Conns
    /\ None \notin Entries \cup Jobs /\ \A b \in Broadcasts : None # Value[b]

VARIABLES links,    \* connected pairs
          owner,    \* thisServerId of each hive
          pages,    \* pages of each hive: [id, next], next_allocated_id
          objects,  \* ids of each hive's local_objects
          reused,   \* hives that registered an id they already had
          entry,    \* what each hive keeps of each broadcast
          begun,    \* broadcast ids drawn
          job,      \* what each hive is doing for each connection
          net       \* net[h][g]: messages on the way from h to g

vars == <<links, owner, pages, objects, reused, entry, begun, job, net>>

Neighbours(h) == {g \in Hives : {h, g} \in links}

Init ==
    /\ links = Connected
    /\ owner = [h \in Hives |-> None]
    /\ pages = [h \in Hives |-> <<>>]
    /\ objects = [h \in Hives |-> {}]
    /\ reused = {}
    /\ entry = [h \in Hives |-> [b \in Broadcasts |-> None]]
    /\ begun = {}
    /\ job = [h \in Hives |-> [c \in Conns |-> None]]
    /\ net = [h \in Hives |-> [g \in Hives |-> <<>>]]

\* The table in which questions and answers of a broadcast are looked up.
Table(b) == IF b \in IdBroadcasts THEN "get_id_broadcasts" ELSE "get_page_broadcasts"

Found(h, b) == entry[h][b] # None /\ entry[h][b].table = Table(b)

\* A new entry; told is how often the hive that asked has been told.
Entry(table, from) ==
    [table |-> table, from |-> from, answered |-> 0, requested |-> 0, told |-> 0]

Ask(b) == [type |-> "ask", b |-> b]
Yes(b) == [type |-> "yes", b |-> b]
Put(n, h, g, m) == [n EXCEPT ![h][g] = Append(@, m)]
Taken(h, g) == [net EXCEPT ![g][h] = Tail(@)]

\* The step of a redirection: the neighbours that remain to be asked.
Redirect(b, left) == [b |-> b, step |-> "send", left |-> left]

\* ConfirmID, ConfirmPage
Confirm(h, b) ==
    IF b \in IdBroadcasts
    THEN /\ owner' = [owner EXCEPT ![h] = IF @ = None THEN Value[b] ELSE @]
         /\ UNCHANGED pages
    ELSE /\ pages' = [pages EXCEPT ![h] = Append(@, [id |-> Value[b], next |-> 0])]
         /\ UNCHANGED owner

\* The hive asked by from in broadcast b has all the answers it waits for; n is
\* the state of the channels.
Accepted(h, b, from, n) ==
    IF from = Self
    THEN Confirm(h, b) /\ net' = n
    ELSE net' = Put(n, h, from, Yes(b)) /\ UNCHANGED <<owner, pages>>

---------------------------------------------------------------------------
(* Questions of this hive *)

\* The main thread: until there is an id, draw one and ask.
RequestServerId(h, b) ==
    /\ b \in IdBroadcasts \ begun
    /\ owner[h] = None
    /\ job[h][Self] = None
    /\ begun' = begun \cup {b}
    /\ entry' = [entry EXCEPT ![h][b] = Entry(Table(b), Self)]
    /\ job' = [job EXCEPT ![h][Self] = Redirect(b, Neighbours(h))]
    /\ UNCHANGED <<links, owner, pages, objects, reused, net>>

FreeObjects(h) ==
    FoldSeq(LAMBDA p, n : n + OBJECTS_PER_PAGE - p.next, 0, pages[h])

\* PagesAllocator: with an id, keep two pages of object ids in stock.
RequestMemoryPage(h, b) ==
    /\ b \in PageBroadcasts \ begun
    /\ owner[h] # None
    /\ job[h][Self] = None
    /\ FreeObjects(h) < 2 * OBJECTS_PER_PAGE
    /\ begun' = begun \cup {b}
    /\ entry' = [entry EXCEPT ![h][b] = Entry(Table(b), Self)]
    /\ job' = [job EXCEPT ![h][Self] = Redirect(b, Neighbours(h))]
    /\ UNCHANGED <<links, owner, pages, objects, reused, net>>

\* GetNewObjectId and RegisterObjectWithId: the next id of the first page that
\* is not used up.
NewObject(h) ==
    \E i \in DOMAIN pages[h] :
        LET id == <<pages[h][i].id, pages[h][i].next>> IN
        /\ pages[h][i].next < OBJECTS_PER_PAGE
        /\ \A j \in 1 .. (i - 1) : pages[h][j].next = OBJECTS_PER_PAGE
        /\ pages' = [pages EXCEPT ![h][i].next = @ + 1]
        /\ objects' = [objects EXCEPT ![h] = @ \cup {id}]
        /\ reused' = IF id \in objects[h] THEN reused \cup {h} ELSE reused
        /\ UNCHANGED <<links, owner, entry, begun, job, net>>

---------------------------------------------------------------------------
(* RedirectBroadcastIDQuery and RedirectBroadcastQuery, for connection c *)

SendAsk(h, c) ==
    /\ job[h][c] # None /\ job[h][c].step = "send"
    /\ \E g \in job[h][c].left :
          /\ net' = Put(net, h, g, Ask(job[h][c].b))
          /\ job' = [job EXCEPT ![h][c].step = "count", ![h][c].left = @ \ {g}]
    /\ UNCHANGED <<links, owner, pages, objects, reused, entry, begun>>

\* (*send_counter)++
Count(h, c) ==
    /\ job[h][c] # None /\ job[h][c].step = "count"
    /\ entry' = [entry EXCEPT ![h][job[h][c].b].requested = @ + 1]
    /\ job' = [job EXCEPT ![h][c].step = "send"]
    /\ UNCHANGED <<links, owner, pages, objects, reused, begun, net>>

\* Broken: nobody has answered yet is taken for nobody was asked.
EndRedirectEager(h, c) ==
    /\ job[h][c] # None /\ job[h][c].step = "send" /\ job[h][c].left = {}
    /\ job' = [job EXCEPT ![h][c] = None]
    /\ LET b == job[h][c].b IN
       IF entry[h][b].answered = 0
       THEN /\ Accepted(h, b, c, net)
            /\ entry' = [entry EXCEPT ![h][b].told = @ + 1]
       ELSE UNCHANGED <<owner, pages, entry, net>>
    /\ UNCHANGED <<links, objects, reused, begun>>

\* Broken: the worker waits for the answers itself.
EndRedirectWaiting(h, c) ==
    /\ job[h][c] # None /\ job[h][c].step = "send" /\ job[h][c].left = {}
    /\ entry[h][job[h][c].b].answered = entry[h][job[h][c].b].requested
    /\ job' = [job EXCEPT ![h][c] = None]
    /\ LET b == job[h][c].b IN
       IF entry[h][b].requested = 0
       THEN /\ Accepted(h, b, c, net)
            /\ entry' = [entry EXCEPT ![h][b].told = @ + 1]
       ELSE UNCHANGED <<owner, pages, entry, net>>
    /\ UNCHANGED <<links, objects, reused, begun>>

\* Everybody is asked.  With nobody to ask the number is accepted.
EndRedirect(h, c) ==
    /\ job[h][c] # None /\ job[h][c].step = "send" /\ job[h][c].left = {}
    /\ job' = [job EXCEPT ![h][c] = None]
    /\ LET b == job[h][c].b IN
       IF entry[h][b].requested = 0
       THEN /\ Accepted(h, b, c, net)
            /\ entry' = [entry EXCEPT ![h][b].told = @ + 1]
       ELSE UNCHANGED <<owner, pages, entry, net>>
    /\ UNCHANGED <<links, objects, reused, begun>>

---------------------------------------------------------------------------
(* HandleApiCall, on a message from neighbour g *)

\* A worker is free and takes the next message of the connection.
Received(h, g, type) ==
    /\ net[g][h] # <<>> /\ Head(net[g][h]).type = type
    /\ job[h][g] = None
    /\ Cardinality({c \in Hives : job[h][c] # None}) < WORKERS

\* A question about a broadcast the hive has already.
AskAgain(h, g, b, n) ==
    IF entry[h][b].from # g
    THEN /\ net' = Put(n, h, g, Yes(b))  \* no circular waiting
         /\ UNCHANGED entry
    ELSE IF entry[h][b].answered = entry[h][b].requested
    THEN /\ net' = Put(n, h, g, Yes(b))
         /\ entry' = [entry EXCEPT ![h][b].told = @ + 1]
    ELSE net' = n /\ UNCHANGED entry

\* The number is in use: no answer.  A page number is compared with bytes that
\* were never written, so a hive may fail to see that the page is its own.
Refuse(h, g) ==
    /\ Received(h, g, "ask")
    /\ LET b == Head(net[g][h]).b IN
       IF b \in IdBroadcasts
       THEN owner[h] = Value[b]
       ELSE \E i \in DOMAIN pages[h] : pages[h][i].id = Value[b]
    /\ net' = Taken(h, g)
    /\ UNCHANGED <<links, owner, pages, objects, reused, entry, begun, job>>

\* Look the broadcast up; if it is new, go on to insert it.
LookUp(h, g) ==
    /\ Received(h, g, "ask")
    /\ LET b == Head(net[g][h]).b IN
       /\ b \in IdBroadcasts => owner[h] # Value[b]
       /\ IF Found(h, b)
          THEN AskAgain(h, g, b, Taken(h, g)) /\ UNCHANGED job
          ELSE /\ job' = [job EXCEPT ![h][g] = [b |-> b, step |-> "insert", left |-> {}]]
               /\ net' = Taken(h, g)
               /\ UNCHANGED entry
    /\ UNCHANGED <<links, owner, pages, objects, reused, begun>>

\* Broken: the one that asked is asked back.
InsertAskingAll(h, g) ==
    /\ job[h][g] # None /\ job[h][g].step = "insert"
    /\ LET b == job[h][g].b IN
       IF entry[h][b] = None
       THEN /\ entry' = [entry EXCEPT ![h][b] = Entry("get_id_broadcasts", g)]
            /\ job' = [job EXCEPT ![h][g] = Redirect(b, Neighbours(h))]
            /\ UNCHANGED net
       ELSE /\ AskAgain(h, g, b, net)
            /\ job' = [job EXCEPT ![h][g] = None]
    /\ UNCHANGED <<links, owner, pages, objects, reused, begun>>

\* Broken: a worker whose insertion failed asks the neighbours all the same.
InsertIgnoringResult(h, g) ==
    /\ job[h][g] # None /\ job[h][g].step = "insert"
    /\ LET b == job[h][g].b IN
       /\ entry' = IF entry[h][b] = None
                   THEN [entry EXCEPT ![h][b] = Entry("get_id_broadcasts", g)]
                   ELSE entry
       /\ job' = [job EXCEPT ![h][g] = Redirect(b, Neighbours(h) \ {g})]
    /\ UNCHANGED <<links, owner, pages, objects, reused, begun, net>>

\* SetHashtable, always in the table of ids: the thread that inserts the entry
\* asks the other neighbours.
Insert(h, g) ==
    /\ job[h][g] # None /\ job[h][g].step = "insert"
    /\ LET b == job[h][g].b IN
       IF entry[h][b] = None
       THEN /\ entry' = [entry EXCEPT ![h][b] = Entry("get_id_broadcasts", g)]
            /\ job' = [job EXCEPT ![h][g] = Redirect(b, Neighbours(h) \ {g})]
            /\ UNCHANGED net
       ELSE /\ AskAgain(h, g, b, net)
            /\ job' = [job EXCEPT ![h][g] = None]
    /\ UNCHANGED <<links, owner, pages, objects, reused, begun>>

\* An answer: the last one that was asked for is passed on.
Answer(h, g) ==
    /\ Received(h, g, "yes")
    /\ LET b == Head(net[g][h]).b
           answered == entry[h][b].answered + 1
           last == Found(h, b) /\ answered = entry[h][b].requested
       IN /\ entry' = IF Found(h, b)
                      THEN [entry EXCEPT ![h][b].answered = answered,
                                         ![h][b].told = IF last THEN @ + 1 ELSE @]
                      ELSE entry
          /\ IF last
             THEN Accepted(h, b, entry[h][b].from, Taken(h, g))
             ELSE net' = Taken(h, g) /\ UNCHANGED <<owner, pages>>
    /\ UNCHANGED <<links, objects, reused, begun, job>>

---------------------------------------------------------------------------

\* A connection comes up; connections_lock keeps redirections out.
Connect(h, g) ==
    /\ {h, g} \in MayConnect \ links
    /\ h # g
    /\ \A x \in {h, g}, c \in Conns : job[x][c] # None => job[x][c].step = "insert"
    /\ links' = links \cup {{h, g}}
    /\ UNCHANGED <<owner, pages, objects, reused, entry, begun, job, net>>

Redirection(h, c) == SendAsk(h, c) \/ Count(h, c) \/ EndRedirect(h, c)

Serve(h, g) == Refuse(h, g) \/ LookUp(h, g) \/ Insert(h, g) \/ Answer(h, g)

Next ==
    \/ \E h, g \in Hives : Connect(h, g) \/ Serve(h, g)
    \/ \E h \in Hives, c \in Conns : Redirection(h, c)
    \/ \E h \in Askers, b \in Broadcasts : RequestServerId(h, b) \/ RequestMemoryPage(h, b)
    \/ \E h \in Hives : NewObject(h)

Spec == Init /\ [][Next]_vars

\* Messages arrive and are handled, and a redirection goes on; no hive has to
\* connect or to ask.
FairSpec ==
    /\ Spec
    /\ \A h, g \in Hives : WF_vars(Serve(h, g))
    /\ \A h \in Hives, c \in Conns : WF_vars(Redirection(h, c))

---------------------------------------------------------------------------
(* Properties *)

TypeOK ==
    /\ links \subseteq MayConnect \cup Connected
    /\ owner \in [Hives -> {Value[b] : b \in IdBroadcasts} \cup {None}]
    /\ \A h \in Hives : \A i \in DOMAIN pages[h] :
          /\ pages[h][i].id \in {Value[b] : b \in PageBroadcasts}
          /\ pages[h][i].next \in 0 .. OBJECTS_PER_PAGE
    /\ reused \subseteq Hives
    /\ begun \subseteq Broadcasts
    /\ \A h \in Hives, b \in Broadcasts :
          entry[h][b] # None => entry[h][b] \in Entries /\ b \in begun
    /\ \A h \in Hives, c \in Conns :
          job[h][c] # None => /\ job[h][c] \in Jobs /\ job[h][c].b \in begun
                              /\ job[h][c].left \subseteq Hives \ {h, c}
    /\ \A h, g \in Hives : net[h][g] # <<>> => {h, g} \in links

\* A hive asks no neighbour twice in one broadcast, and never the one that
\* asked it, although the same question reaches it over several connections
\* that different workers serve (remote.c:627-650, 754-770).
AskedOnce ==
    \A h \in Hives, b \in Broadcasts :
        entry[h][b] # None =>
            LET asking == {c \in Conns : /\ job[h][c] # None /\ job[h][c].b = b
                                         /\ job[h][c].step # "insert"}
                others == Cardinality(Neighbours(h) \ {entry[h][b].from})
            IN /\ entry[h][b].requested <= others
               /\ \A c \in asking :
                     /\ asking = {c}
                     /\ entry[h][b].requested + Cardinality(job[h][c].left) <= others

\* Nobody accepts a number unheard: a hive that had somebody to ask tells the
\* one that asked it only after an answer (remote.c:631, 661, 686).
AcceptanceIsEarned ==
    \A h \in Hives, b \in Broadcasts :
        entry[h][b] # None /\ entry[h][b].told > 0 =>
            \/ entry[h][b].answered > 0
            \/ /\ entry[h][b].requested = 0
               /\ \A c \in Conns : job[h][c] # None => \/ job[h][c].b # b
                                                      \/ job[h][c].step = "insert"

\* In every graph of hives, with cycles too, a question stops travelling:
\* every hive passes it on once (remote.c:649-655, 775-782).
Quiet ==
    /\ \A h, g \in Hives : net[h][g] = <<>>
    /\ \A h \in Hives, c \in Conns : job[h][c] = None
FloodEnds == <>[]Quiet

\* The assertion of RegisterObjectWithId (runtime.c:65): the id of a new object
\* is new to the table.
ObjectIdsAreNew == reused = {}
=============================================================================
