----------------------------- MODULE Connection -----------------------------
(***************************************************************************)
(* Two hives get connected and exchange messages                           *)
(* (src/runtimes/0.3/common/remote.c, the branches of _WIN32):             *)
(* InitiateConnection and its answer, after which each hive has one socket *)
(* to write and one to read; the messages as a stream of bytes that the    *)
(* network cuts anywhere, and Worker, which puts them together; and the    *)
(* end of a connection.                                                    *)
(*                                                                         *)
(* A byte is a number below Byte.  A header is one byte of type and        *)
(* LengthBytes (seven) bytes of length; the number of a connection takes   *)
(* as many bytes as a header.  A send under con->lock is one step.         *)
(***************************************************************************)
EXTENDS Integers, Sequences, FiniteSets

CONSTANTS Hives,
          Byte,          \* number of values of a byte
          LengthBytes,
          BufferSize,    \* bytes that one recv returns at most
          FloodSize,     \* bytes in the body of a flooded message
          MaxSockets, MaxConns,  \* bounds
          Budgets,       \* bounds: how many connections are initiated, floods
                         \* sent, links broken, and pieces cut short
          None

\* The types of messages (three) and the numbers of connections are bytes, and
\* a body is shorter than Byte: the header keeps only the low byte of its
\* length, and every body that is sent here is a fixed record of a few bytes.
ASSUME ConnectionAssumption ==
    /\ \E h, g \in Hives : h # g /\ Hives = {h, g}
    /\ Byte \in Nat /\ LengthBytes \in Nat \ {0} /\ BufferSize \in Nat \ {0}
    /\ LengthBytes + 1 < Byte /\ FloodSize \in 1 .. Byte - 1
    /\ MaxSockets \in Nat /\ MaxConns \in 0 .. Byte
    /\ Budgets \subseteq [initiates : Nat, floods : Nat, breaks : Nat, cuts : Nat]
    /\ None \notin Nat
    /\ None \notin [from : Hives, to : Hives, flight : Seq(Nat), here : Seq(Nat),
                    posted : BOOLEAN, accepted : BOOLEAN, up : BOOLEAN, failed : BOOLEAN]
    /\ None \notin [ctx : Nat \cup {None}, out : Nat \cup {None}, listed : BOOLEAN]

API_REQUEST_CONNECTION == 0
API_ANSWER_REQUEST_CONNECTION == 1
API_ANSWER_REQUEST_PATH == 2

\* Network threads that a hive starts with.
NetworkThreads == 2

\* STATE_WAITING_MESSAGE, then -2 - (bytes of the length that have come), then
\* the length itself.
WAITING_MESSAGE == -1
WAITING_BODY_SIZE_1 == -2

Sockets == 1 .. MaxSockets
Ids == 0 .. MaxConns - 1
Other(h) == CHOOSE g \in Hives : g # h

VARIABLES net,      \* net[s]: a socket, its ends and its bytes, or None
          conns,    \* conns[h][id]: hive_connection of h, or None
          rx,       \* rx[s]: connection_context of the reading end
          task,     \* task[s]: the answer that the handler of s still owes
          left,     \* what is left of the budget
          threads,  \* threads[h]: network threads of h that still run
          stopped,  \* hives whose process has ended
          freed,    \* hives that have used memory after they freed it
          torn,     \* torn[s]: which message of s others came into the
                    \* middle of, or 0
          broken,   \* something has failed
          sent, handled                 \* for Channel

ends == <<threads, stopped, freed>>
vars == <<net, conns, rx, task, left, ends, torn, broken, sent, handled>>

Quiet == [pc |-> "none", id |-> <<>>]
Fresh == [len |-> WAITING_MESSAGE, call |-> 0, buf |-> <<>>, chunk |-> <<>>]

Init ==
    /\ net = [s \in Sockets |-> None]
    /\ conns = [h \in Hives |-> [i \in Ids |-> None]]
    /\ rx = [s \in Sockets |-> Fresh]
    /\ task = [s \in Sockets |-> Quiet]
    /\ left \in Budgets
    /\ threads = [h \in Hives |-> NetworkThreads]
    /\ stopped = {} /\ freed = {}
    /\ torn = [s \in Sockets |-> 0]
    /\ broken = FALSE
    /\ sent = [s \in Sockets |-> <<>>]
    /\ handled = [s \in Sockets |-> <<>>]

---------------------------------------------------------------------------
(* Sockets and messages *)

\* The header is written with the length in its first byte and zeros in the
\* others, whatever the length is.
Header(m) == <<m.call, Len(m.body) % Byte>> \o [i \in 1 .. LengthBytes - 1 |-> 0]
Encode(m) == Header(m) \o m.body

\* The number of a connection in a message.
Word(i) == <<i>> \o [k \in 1 .. LengthBytes |-> 0]

\* What the reader takes for the length: little endian; value[i] is what the
\* last i bytes say.
LittleEndian(b) ==
    LET value[i \in 0 .. Len(b)] ==
            IF i = 0 THEN 0 ELSE b[Len(b) + 1 - i] + Byte * value[i - 1]
    IN value[Len(b)]

\* from writes and to reads; flight: bytes under way; here: bytes that wait to
\* be received; posted: to has posted a receive; up: what is written arrives;
\* failed: the next receive fails.
Opened(h, bytes) == [from |-> h, to |-> Other(h), flight |-> bytes, here |-> <<>>,
                     posted |-> FALSE, accepted |-> FALSE, up |-> TRUE, failed |-> FALSE]

Written(n, s, bytes) == IF n[s].up THEN [n EXCEPT ![s].flight = @ \o bytes] ELSE n

\* closesocket at either end: what is under way still arrives.
Closed(n, S) == [s \in Sockets |-> IF s \in S /\ n[s] # None THEN [n[s] EXCEPT !.up = FALSE]
                                   ELSE n[s]]

FreeSocket == CHOOSE s \in Sockets : net[s] = None /\ \A t \in Sockets : t < s => net[t] # None
HasSocket == \E s \in Sockets : net[s] = None
NewId(h) == CHOOSE i \in Ids : conns[h][i] = None /\ \A j \in Ids : j < i => conns[h][j] # None

\* A connection that was removed keeps its number from being used again.
Gone == [ctx |-> None, out |-> None, listed |-> FALSE]
HasId(h) == \E i \in Ids : conns[h][i] = None
Listed(h) == {i \in Ids : conns[h][i] # None /\ conns[h][i].listed}
OfSocket(s) == CHOOSE i \in Listed(net[s].to) : conns[net[s].to][i].ctx = s
Serves(s) ==
    /\ net[s] # None /\ net[s].accepted /\ net[s].to \notin stopped
    /\ \E i \in Listed(net[s].to) : conns[net[s].to][i].ctx = s

---------------------------------------------------------------------------
(* Connecting *)

\* InitiateConnection: a connection under a temporary number, with a socket to
\* write and none to read, and the request.
InitiateConnection(h) ==
    /\ left.initiates > 0 /\ HasSocket /\ HasId(h) /\ stopped = {}
    /\ LET s == FreeSocket
           i == NewId(h)
           m == [call |-> API_REQUEST_CONNECTION, body |-> Word(i)]
       IN /\ net' = [net EXCEPT ![s] = Opened(h, Encode(m))]
          /\ conns' = [conns EXCEPT ![h][i] = [ctx |-> None, out |-> s, listed |-> TRUE]]
          /\ sent' = [sent EXCEPT ![s] = <<m>>]
    /\ left' = [left EXCEPT !.initiates = @ - 1]
    /\ UNCHANGED <<rx, task, ends, torn, broken, handled>>

\* Broken: no receive is posted.
HandleNewConnectionUnread(s) ==
    /\ net[s] # None /\ ~net[s].accepted /\ net[s].to \notin stopped
    /\ HasId(net[s].to)
    /\ conns' = [conns EXCEPT ![net[s].to][NewId(net[s].to)] = [ctx |-> s, out |-> None, listed |-> TRUE]]
    /\ net' = [net EXCEPT ![s].accepted = TRUE]
    /\ UNCHANGED <<rx, task, left, ends, torn, broken, sent, handled>>

\* ConnectionListnerWorker, HandleNewConnection: a connection with a socket to
\* read and none to write.
HandleNewConnection(s) ==
    /\ net[s] # None /\ ~net[s].accepted /\ net[s].to \notin stopped
    /\ HasId(net[s].to)
    /\ conns' = [conns EXCEPT ![net[s].to][NewId(net[s].to)] = [ctx |-> s, out |-> None, listed |-> TRUE]]
    /\ net' = [net EXCEPT ![s].accepted = TRUE, ![s].posted = TRUE]
    /\ UNCHANGED <<rx, task, left, ends, torn, broken, sent, handled>>

\* ConfirmConnection connects back, or fails: then the connection never gets a
\* socket to write.
ConnectBack(s) ==
    /\ Serves(s) /\ task[s].pc = "connect" /\ HasSocket /\ net[s].from \notin stopped
    /\ LET h == net[s].to
           t == FreeSocket
       IN /\ net' = [net EXCEPT ![t] = Opened(h, <<>>)]
          /\ conns' = [conns EXCEPT ![h][OfSocket(s)].out = t]
    /\ task' = [task EXCEPT ![s].pc = "header"]
    /\ UNCHANGED <<rx, left, ends, torn, broken, sent, handled>>

ConnectFails(s) ==
    /\ Serves(s) /\ task[s].pc = "connect" /\ left.breaks > 0
    /\ task' = [task EXCEPT ![s] = Quiet]
    /\ left' = [left EXCEPT !.breaks = @ - 1] /\ broken' = TRUE
    /\ UNCHANGED <<net, conns, rx, ends, torn, sent, handled>>

ConnectRefused(s) ==
    /\ Serves(s) /\ task[s].pc = "connect" /\ net[s].from \in stopped
    /\ task' = [task EXCEPT ![s] = Quiet]
    /\ UNCHANGED <<net, conns, rx, left, ends, torn, broken, sent, handled>>

\* It answers in two sends, without the connection's lock.
Answer(s) == [call |-> API_ANSWER_REQUEST_CONNECTION, body |-> task[s].id]
OutOf(s) == conns[net[s].to][OfSocket(s)].out

SendAnswerHeader(s) ==
    /\ Serves(s) /\ task[s].pc = "header"
    /\ net' = Written(net, OutOf(s), Header(Answer(s)))
    /\ sent' = [sent EXCEPT ![OutOf(s)] = Append(@, Answer(s))]
    /\ task' = [task EXCEPT ![s].pc = "body"]
    /\ UNCHANGED <<conns, rx, left, ends, torn, broken, handled>>

SendAnswerBody(s) ==
    /\ Serves(s) /\ task[s].pc = "body"
    /\ net' = Written(net, OutOf(s), Answer(s).body)
    /\ task' = [task EXCEPT ![s] = Quiet]
    /\ UNCHANGED <<conns, rx, left, ends, torn, broken, sent, handled>>

---------------------------------------------------------------------------
(* Floods: AnswerRequestObjectPath and the other senders that write to      *)
(* every connection with a reading end.  Where there is none to write, the  *)
(* message is lost.                                                         *)

\* The answer of r that goes to s is half written.
Owes(r, s) ==
    task[r].pc = "body" /\ \E i \in Ids : /\ conns[net[r].to][i] # None
                                          /\ conns[net[r].to][i].ctx = r
                                          /\ conns[net[r].to][i].out = s

Flood(h) ==
    /\ left.floods > 0 /\ h \notin stopped
    /\ LET m == [call |-> API_ANSWER_REQUEST_PATH,
                 body |-> [i \in 1 .. FloodSize |-> left.floods % Byte]]
           outs == {conns[h][i].out : i \in {j \in Listed(h) : conns[h][j].ctx # None}} \ {None}
           tears == {s \in outs : net[s].up /\ torn[s] = 0 /\ \E r \in Sockets : Owes(r, s)}
       IN /\ outs # {}
          /\ net' = [s \in Sockets |-> IF s \in outs THEN Written(net, s, Encode(m))[s] ELSE net[s]]
          /\ sent' = [s \in Sockets |-> IF s \in outs THEN Append(sent[s], m) ELSE sent[s]]
          /\ torn' = [s \in Sockets |-> IF s \in tears THEN Len(sent[s]) ELSE torn[s]]
    /\ left' = [left EXCEPT !.floods = @ - 1]
    /\ UNCHANGED <<conns, rx, task, ends, broken, handled>>

---------------------------------------------------------------------------
(* The network and the processes *)

\* Any number of bytes arrive.
Deliver(s) ==
    /\ net[s] # None /\ net[s].to \notin stopped
    /\ \E n \in 1 .. Len(net[s].flight) :
          /\ net' = [net EXCEPT ![s].here = @ \o SubSeq(net[s].flight, 1, n),
                                ![s].flight = SubSeq(@, n + 1, Len(@))]
          /\ \/ n = Len(net[s].flight) /\ UNCHANGED left
             \/ n < Len(net[s].flight) /\ left.cuts > 0 /\ left' = [left EXCEPT !.cuts = @ - 1]
    /\ UNCHANGED <<conns, rx, task, ends, torn, broken, sent, handled>>

\* Sockets that are reset: bytes under way are lost.
Reset(n, S) == [s \in Sockets |->
                   IF s \in S /\ n[s] # None
                   THEN [n[s] EXCEPT !.up = FALSE, !.failed = TRUE, !.flight = <<>>] ELSE n[s]]

Break(s) ==
    /\ net[s] # None /\ net[s].up /\ left.breaks > 0
    /\ net' = Reset(net, {s})
    /\ left' = [left EXCEPT !.breaks = @ - 1] /\ broken' = TRUE
    /\ UNCHANGED <<conns, rx, task, ends, torn, sent, handled>>

\* A process ends, also by what it does with memory that it has freed.  Its
\* sockets are closed; those that it wrote may be reset.
Exit(h) ==
    /\ h \notin stopped
    /\ h \in freed \/ left.breaks > 0
    /\ stopped' = stopped \cup {h}
    /\ \E S \in SUBSET {s \in Sockets : net[s] # None /\ net[s].from = h /\ net[s].up} :
          net' = Closed(Reset(net, S), Sockets)
    /\ left' = IF h \in freed THEN left ELSE [left EXCEPT !.breaks = @ - 1]
    /\ broken' = TRUE
    /\ UNCHANGED <<conns, rx, task, threads, freed, torn, sent, handled>>

---------------------------------------------------------------------------
(* Worker: one completion, then the loop over what was received *)

Idle(s) == Serves(s) /\ rx[s].chunk = <<>> /\ task[s] = Quiet

\* A thread waits in GetQueuedCompletionStatus.
HasThread(h) ==
    Cardinality({s \in Sockets : Serves(s) /\ net[s].to = h /\ ~Idle(s)}) < threads[h]
Completed(s) == Idle(s) /\ net[s].posted /\ HasThread(net[s].to)

\* Broken: a receive may return more than the buffer holds.
RecvAll(s) ==
    /\ Completed(s) /\ net[s].here # <<>>
    /\ rx' = [rx EXCEPT ![s].chunk = net[s].here]
    /\ net' = [net EXCEPT ![s].here = <<>>]
    /\ UNCHANGED <<conns, task, left, ends, torn, broken, sent, handled>>

Recv(s) ==
    /\ Completed(s) /\ net[s].here # <<>>
    /\ LET n == IF Len(net[s].here) < BufferSize THEN Len(net[s].here) ELSE BufferSize
       IN /\ rx' = [rx EXCEPT ![s].chunk = SubSeq(net[s].here, 1, n)]
          /\ net' = [net EXCEPT ![s].here = SubSeq(@, n + 1, Len(@))]
    /\ UNCHANGED <<conns, task, left, ends, torn, broken, sent, handled>>

\* The receive fails: the thread that is told ends, or nobody is told when it
\* failed at once.  The connection stays.
RecvFails(s) ==
    /\ Completed(s) /\ net[s].here = <<>> /\ net[s].failed
    /\ net' = [net EXCEPT ![s].posted = FALSE]
    /\ \E n \in {0, 1} : threads' = [threads EXCEPT ![net[s].to] = @ - n]
    /\ UNCHANGED <<conns, rx, task, left, stopped, freed, torn, broken, sent, handled>>

\* Broken: a connection without a socket to write stays in the table.
PeerDisconnectedComplete(s) ==
    /\ Completed(s) /\ net[s].here = <<>> /\ net[s].flight = <<>>
    /\ ~net[s].up /\ ~net[s].failed /\ OutOf(s) # None
    /\ LET h == net[s].to IN
       /\ net' = Closed(net, {OutOf(s)} \ {None})
       /\ conns' = [conns EXCEPT ![h][OfSocket(s)] = Gone]
       /\ freed' = freed \cup {h}
    /\ UNCHANGED <<rx, task, left, threads, stopped, torn, broken, sent, handled>>

\* The socket was closed at the other end, and nothing more comes: the
\* connection is taken out of the table and both its sockets are closed, with
\* the help of what is freed already.
PeerDisconnected(s) ==
    /\ Completed(s) /\ net[s].here = <<>> /\ net[s].flight = <<>>
    /\ ~net[s].up /\ ~net[s].failed
    /\ LET h == net[s].to IN
       /\ net' = Closed(net, {OutOf(s)} \ {None})
       /\ conns' = [conns EXCEPT ![h][OfSocket(s)] = Gone]
       /\ freed' = freed \cup {h}
    /\ UNCHANGED <<rx, task, left, threads, stopped, torn, broken, sent, handled>>

InLoop(s) == Serves(s) /\ rx[s].chunk # <<>> /\ task[s] = Quiet

ReadType(s) ==
    /\ InLoop(s) /\ rx[s].len = WAITING_MESSAGE
    /\ rx' = [rx EXCEPT ![s] = [len |-> WAITING_BODY_SIZE_1, call |-> Head(rx[s].chunk),
                                buf |-> <<>>, chunk |-> Tail(rx[s].chunk)]]
    /\ UNCHANGED <<net, conns, task, left, ends, torn, broken, sent, handled>>

\* Bytes of the chunk that complete the buffer, and what is left.
Filled(s, missing) == rx[s].buf \o SubSeq(rx[s].chunk, 1, missing)
Left(s, missing) == SubSeq(rx[s].chunk, missing + 1, Len(rx[s].chunk))

ReadLength(s) ==
    /\ InLoop(s) /\ rx[s].len <= WAITING_BODY_SIZE_1
    /\ LET current == -2 - rx[s].len
           missing == LengthBytes - current
       IN rx' = [rx EXCEPT ![s] =
                    IF Len(rx[s].chunk) >= missing
                    THEN [@ EXCEPT !.len = LittleEndian(Filled(s, missing)), !.buf = <<>>,
                                   !.chunk = Left(s, missing)]
                    ELSE [@ EXCEPT !.len = -2 - (current + Len(rx[s].chunk)),
                                   !.buf = rx[s].buf \o rx[s].chunk, !.chunk = <<>>]]
    /\ UNCHANGED <<net, conns, task, left, ends, torn, broken, sent, handled>>

ReadBodyPart(s) ==
    /\ InLoop(s) /\ rx[s].len >= 0
    /\ Len(rx[s].chunk) < rx[s].len - Len(rx[s].buf)
    /\ rx' = [rx EXCEPT ![s].buf = @ \o rx[s].chunk, ![s].chunk = <<>>]
    /\ UNCHANGED <<net, conns, task, left, ends, torn, broken, sent, handled>>

\* The body is complete: HandleApiCall.
Completes(s) ==
    /\ InLoop(s) /\ rx[s].len >= 0
    /\ Len(rx[s].chunk) >= rx[s].len - Len(rx[s].buf)
Body(s) == Filled(s, rx[s].len - Len(rx[s].buf))

\* Broken: the state does not go back to WAITING_MESSAGE.
HandledAgain(s) ==
    /\ rx' = [rx EXCEPT ![s].buf = <<>>, ![s].chunk = Left(s, rx[s].len - Len(rx[s].buf))]
    /\ handled' = [handled EXCEPT ![s] = Append(@, [call |-> rx[s].call, body |-> Body(s)])]

Handled(s) ==
    /\ rx' = [rx EXCEPT ![s] = [Fresh EXCEPT !.chunk = Left(s, rx[s].len - Len(rx[s].buf))]]
    /\ handled' = [handled EXCEPT ![s] = Append(@, [call |-> rx[s].call, body |-> Body(s)])]

\* The call fails: both sockets are closed and the connection is freed.  It
\* stays in the table.
CallFails(s) ==
    LET h == net[s].to IN
    /\ net' = Closed(net, {s, OutOf(s)} \ {None})
    /\ conns' = [conns EXCEPT ![h][OfSocket(s)] = [ctx |-> None, out |-> None, listed |-> TRUE]]
    /\ freed' = freed \cup {h} /\ broken' = TRUE
    /\ UNCHANGED <<rx, handled>>

RequestConnection(s) ==
    /\ Completes(s) /\ rx[s].call = API_REQUEST_CONNECTION
    /\ Handled(s)
    /\ task' = [task EXCEPT ![s] = [pc |-> "connect", id |-> Body(s)]]
    /\ UNCHANGED <<net, conns, left, ends, torn, broken, sent>>

\* The connections with the number that the answer repeats.
Askers(s) == {i \in Listed(net[s].to) : Body(s) = Word(i)}

\* Broken: the temporary connection stays.
AnswerKeepingTemporary(s) ==
    /\ Completes(s) /\ rx[s].call = API_ANSWER_REQUEST_CONNECTION
    /\ Handled(s)
    /\ LET h == net[s].to IN
       \E old \in Askers(s) : conns' = [conns EXCEPT ![h][OfSocket(s)].out = conns[h][old].out]
    /\ UNCHANGED <<net, task, left, ends, torn, broken, sent>>

\* The connection that the answer came on takes over the writing socket of the
\* temporary one, which is removed.  When there is none, the call fails.
AnswerRequestConnection(s) ==
    /\ Completes(s) /\ rx[s].call = API_ANSWER_REQUEST_CONNECTION
    /\ \/ /\ \E old \in Askers(s) :
                LET h == net[s].to IN
                conns' = [conns EXCEPT ![h] = [@ EXCEPT ![OfSocket(s)].out = conns[h][old].out,
                                                        ![old] = Gone]]
          /\ Handled(s)
          /\ UNCHANGED <<net, freed, broken>>
       \/ Askers(s) = {} /\ CallFails(s)
    /\ UNCHANGED <<task, left, threads, stopped, torn, sent>>

\* API_ANSWER_REQUEST_PATH, see RemoteObject.  A type that no case knows makes
\* the call fail.
AnswerRequestPath(s) ==
    /\ Completes(s)
    /\ rx[s].call \notin {API_REQUEST_CONNECTION, API_ANSWER_REQUEST_CONNECTION}
    /\ IF rx[s].call = API_ANSWER_REQUEST_PATH
       THEN Handled(s) /\ UNCHANGED <<net, conns, freed, broken>>
       ELSE CallFails(s)
    /\ UNCHANGED <<task, left, threads, stopped, torn, sent>>

---------------------------------------------------------------------------
Confirm(s) == ConnectBack(s) \/ ConnectRefused(s) \/ SendAnswerHeader(s) \/ SendAnswerBody(s)
Loop(s) ==
    \/ ReadType(s) \/ ReadLength(s) \/ ReadBodyPart(s) \/ RequestConnection(s)
    \/ AnswerRequestConnection(s) \/ AnswerRequestPath(s)
Serve(s) == Recv(s) \/ RecvFails(s) \/ PeerDisconnected(s) \/ Loop(s) \/ Confirm(s)

Next ==
    \/ \E h \in Hives : InitiateConnection(h) \/ Flood(h) \/ Exit(h)
    \/ \E s \in Sockets :
          HandleNewConnection(s) \/ ConnectFails(s) \/ Deliver(s) \/ Break(s) \/ Serve(s)

Spec ==
    /\ Init /\ [][Next]_vars
    /\ \A s \in Sockets : /\ WF_vars(HandleNewConnection(s)) /\ WF_vars(Deliver(s))
                          /\ WF_vars(Serve(s))

---------------------------------------------------------------------------
Pcs == {"none", "connect", "header", "body"}
Bytes == 0 .. Byte - 1
Ends == Sockets \cup {None}
Msgs ==
    {[call |-> API_REQUEST_CONNECTION, body |-> Word(i)] : i \in Ids}
    \cup {[call |-> API_ANSWER_REQUEST_CONNECTION, body |-> Word(i)] : i \in Ids}
    \cup {[call |-> API_ANSWER_REQUEST_PATH, body |-> [k \in 1 .. FloodSize |-> n]] : n \in Bytes}

\* Types of the variables.
TypeOK ==
    /\ net \in [Sockets -> {None} \cup
                   [from : Hives, to : Hives, flight : Seq(Bytes), here : Seq(Bytes),
                    posted : BOOLEAN, accepted : BOOLEAN, up : BOOLEAN, failed : BOOLEAN]]
    /\ conns \in [Hives -> [Ids -> {None} \cup [ctx : Ends, out : Ends, listed : BOOLEAN]]]
    /\ rx \in [Sockets -> [len : -2 - LengthBytes .. Byte - 1, call : Bytes,
                           buf : Seq(Bytes), chunk : Seq(Bytes)]]
    /\ \A s \in Sockets :
          /\ Len(rx[s].buf) <= IF rx[s].len < 0 THEN LengthBytes ELSE rx[s].len
          /\ Len(rx[s].chunk) <= BufferSize
    /\ task \in [Sockets -> [pc : Pcs, id : Seq(Bytes)]]
    /\ left \in [initiates : Nat, floods : Nat, breaks : Nat, cuts : Nat] /\ broken \in BOOLEAN
    /\ threads \in [Hives -> 0 .. NetworkThreads]
    /\ stopped \subseteq Hives /\ freed \subseteq Hives
    /\ torn \in [Sockets -> Nat]

\* Whatever way the bytes are cut, the messages handled are those sent, once
\* and in order: Worker puts the stream together again.  An answer that another
\* message came into the middle of is not taken for one: its call fails, and
\* nothing that follows it is handled.
Promise == INSTANCE Channel
ImplementsChannel == Promise!Spec

Complete(h, i) == conns[h][i].ctx # None /\ conns[h][i].out # None

\* Two connections of a hive never write to one socket, and a connection that
\* both ends have completed joins the same two sockets at either end, also when
\* both hives start to connect at once: an answer reaches who asked.
EndsMatch ==
    \A h \in Hives : \A i \in Listed(h) :
        /\ \A k \in Listed(h) \ {i} : conns[h][i].out # None => conns[h][i].out # conns[h][k].out
        /\ Complete(h, i) =>
             \A j \in Listed(Other(h)) :
                conns[Other(h)][j].ctx = conns[h][i].out =>
                    conns[Other(h)][j].out \in {None, conns[h][i].ctx}

\* When nothing breaks and no answer is torn, the exchange that
\* InitiateConnection starts ends with complete connections and no temporary
\* one.
HandshakeEnds ==
    left.initiates = 0 ~>
        broken \/ \A h \in Hives : \A i \in Listed(h) : Complete(h, i)

\* A hive that is told in order that its peer has ended removes the connection
\* that it read from it, whatever was under way, unless it has no network
\* thread left or ends itself.
PeerIsForgotten ==
    \A s \in Sockets :
        (net[s] # None /\ net[s].accepted /\ ~net[s].failed /\ net[s].from \in stopped)
        ~> /\ net[s] # None
           /\ LET h == net[s].to IN
              h \in stopped \/ threads[h] = 0 \/ \A i \in Listed(h) : conns[h][i].ctx # s

=============================================================================
