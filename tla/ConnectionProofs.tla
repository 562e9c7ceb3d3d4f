-------------------------- MODULE ConnectionProofs --------------------------
(***************************************************************************)
(* Proofs about Connection for every size of the messages, of the buffer   *)
(* and of the tables, and any cuts, breaks, exits and floods: types, the   *)
(* messages of a socket are handled once and in order, and ends match.     *)
(***************************************************************************)
EXTENDS Connection, FiniteSetTheorems, SequenceTheorems, TLAPS

---------------------------------------------------------------------------
(* Numbers *)

LEMMA LeastNumber ==
  ASSUME NEW T, T \subseteq Nat, T # {}
  PROVE  \E x \in T : \A y \in T : x <= y
<1> DEFINE R == StrictSubsetOrdering(Nat)
           S == FiniteSubsetsOf(Nat)
           D == {0 .. n : n \in T}
<1>1. IsWellFoundedOn(R, S)
  BY FS_StrictSubsetOrderingWellFounded
<1>2. D \subseteq S /\ D # {}
  <2>1. ASSUME NEW n \in T PROVE 0 .. n \in S
    <3>1. IsFiniteSet(0 .. n) /\ 0 .. n \subseteq Nat
      BY FS_Interval
    <3>2. QED
      BY <3>1 DEF FiniteSubsetsOf
  <2>2. QED
    BY <2>1
<1>3. PICK d \in D : \A e \in D : <<e, d>> \notin R
  <2> HIDE DEF R, S, D
  <2> QED BY <1>1, <1>2, WFMin
<1>4. PICK x \in T : d = 0 .. x
  OBVIOUS
<1>5. ASSUME NEW y \in T, y < x PROVE FALSE
  <2>1. 0 .. y \in D /\ 0 .. y \subseteq 0 .. x /\ 0 .. y # 0 .. x
    <3>1. x \in 0 .. x /\ x \notin 0 .. y
      BY <1>5
    <3>2. 0 .. y \subseteq 0 .. x
      BY <1>5
    <3> QED BY <3>1, <3>2
  <2>2. <<0 .. y, d>> \in R
    BY <2>1, <1>2, <1>3, <1>4 DEF StrictSubsetOrdering, FiniteSubsetsOf
  <2>3. QED
    BY <2>1, <2>2, <1>3
<1>6. QED
  BY <1>5

LEMMA SmallRemainder ==
  ASSUME NEW n \in Nat, NEW b \in Nat, n < b
  PROVE  n % b = n
  OBVIOUS

LEMMA Widths ==
  /\ Byte \in Nat /\ Byte > 2 /\ LengthBytes \in Nat /\ LengthBytes >= 1
  /\ BufferSize \in Nat /\ BufferSize >= 1
  /\ FloodSize \in Nat /\ FloodSize < Byte /\ FloodSize >= 1 /\ LengthBytes + 1 < Byte
  /\ MaxSockets \in Nat /\ MaxConns \in Nat /\ MaxConns <= Byte
  BY ConnectionAssumption

LEMMA NoneApart ==
  /\ None \notin Sockets /\ None \notin Ids
  /\ \A h, g \in Hives, f, b \in Seq(Bytes), e, a, u, w \in BOOLEAN :
        [from |-> h, to |-> g, flight |-> f, here |-> b, posted |-> e, accepted |-> a, up |-> u,
         failed |-> w] # None
  /\ \A c, o \in Ends, l \in BOOLEAN : [ctx |-> c, out |-> o, listed |-> l] # None
<1>1. None \notin Nat /\ Sockets \subseteq Nat /\ Ids \subseteq Nat /\ Bytes \subseteq Nat
  BY ConnectionAssumption DEF Sockets, Ids, Bytes
<1>2. Seq(Bytes) \subseteq Seq(Nat) /\ Ends \subseteq Nat \cup {None}
  <2>1. Seq(Bytes) \subseteq Seq(Nat)
    BY <1>1, SeqMonotonic
  <2>2. QED
    BY <1>1, <2>1 DEF Ends
<1>3. \A h, g \in Hives, f, b \in Seq(Bytes), e, a, u, w \in BOOLEAN :
        [from |-> h, to |-> g, flight |-> f, here |-> b, posted |-> e, accepted |-> a, up |-> u,
         failed |-> w] # None
  BY <1>2, ConnectionAssumption
<1>4. \A c, o \in Ends, l \in BOOLEAN : [ctx |-> c, out |-> o, listed |-> l] # None
  BY <1>2, ConnectionAssumption
<1>5. QED
  BY <1>1, <1>3, <1>4

\* Each hive has the other.
LEMMA OtherIs ==
  ASSUME NEW h \in Hives
  PROVE  /\ Other(h) \in Hives /\ Other(h) # h /\ Other(Other(h)) = h
         /\ \A g \in Hives : g # h => g = Other(h)
<1>1. PICK a, b \in Hives : a # b /\ Hives = {a, b}
  BY ConnectionAssumption
<1>2. \A k \in Hives : Other(k) \in Hives /\ Other(k) # k
  BY <1>1 DEF Other
<1>3. QED
  BY <1>1, <1>2

\* CHOOSE of the first free socket and number.
LEMMA FreeSocketIs ==
  ASSUME HasSocket
  PROVE  FreeSocket \in Sockets /\ net[FreeSocket] = None
<1> DEFINE T == {s \in Sockets : net[s] = None}
<1>1. T \subseteq Nat /\ T # {}
  BY DEF HasSocket, Sockets
<1>2. PICK s \in T : \A y \in T : s <= y
  BY <1>1, LeastNumber
<1>3. s \in Sockets /\ net[s] = None /\ \A t \in Sockets : t < s => net[t] # None
  BY <1>2 DEF Sockets
<1>4. QED
  BY <1>3 DEF FreeSocket

LEMMA NewIdIs ==
  ASSUME NEW h, HasId(h)
  PROVE  NewId(h) \in Ids /\ conns[h][NewId(h)] = None
<1> DEFINE T == {i \in Ids : conns[h][i] = None}
<1>1. T \subseteq Nat /\ T # {}
  BY DEF HasId, Ids
<1>2. PICK s \in T : \A y \in T : s <= y
  BY <1>1, LeastNumber
<1>3. s \in Ids /\ conns[h][s] = None /\ \A t \in Ids : t < s => conns[h][t] # None
  BY <1>2 DEF Ids
<1>4. QED
  BY <1>3 DEF NewId

---------------------------------------------------------------------------
(* Sequences: concatenations and pieces by their elements *)

\* c is a followed by b; c is a from the k-th element, excluded, to the n-th.
Joins(c, a, b) ==
    /\ Len(c) = Len(a) + Len(b)
    /\ \A i \in 1 .. Len(a) : c[i] = a[i]
    /\ \A i \in 1 .. Len(b) : c[Len(a) + i] = b[i]
Cuts(c, a, k, n) ==
    /\ Len(c) = n - k
    /\ \A i \in 1 .. n - k : c[i] = a[k + i]

LEMMA Joint ==
  ASSUME NEW S, NEW a \in Seq(S), NEW b \in Seq(S)
  PROVE  a \o b \in Seq(S) /\ Joins(a \o b, a, b)
<1>1. a \o b \in Seq(S) /\ Len(a \o b) = Len(a) + Len(b)
  OBVIOUS
<1>2. \A i \in 1 .. Len(a) : (a \o b)[i] = a[i]
  OBVIOUS
<1>3. \A i \in 1 .. Len(b) : (a \o b)[Len(a) + i] = b[i]
  OBVIOUS
<1>4. QED
  BY <1>1, <1>2, <1>3 DEF Joins

LEMMA Piece ==
  ASSUME NEW S, NEW a \in Seq(S), NEW k \in Nat, NEW n \in Nat, k <= n, n <= Len(a)
  PROVE  SubSeq(a, k + 1, n) \in Seq(S) /\ Cuts(SubSeq(a, k + 1, n), a, k, n)
<1>1. SubSeq(a, k + 1, n) \in Seq(S)
  OBVIOUS
<1>2. Len(SubSeq(a, k + 1, n)) = n - k
  OBVIOUS
<1>3. \A i \in 1 .. n - k : SubSeq(a, k + 1, n)[i] = a[k + i]
  OBVIOUS
<1>4. QED
  BY <1>1, <1>2, <1>3 DEF Cuts

---------------------------------------------------------------------------
(* Messages and their bytes *)

\* What has the form of a message.
Frames == [call : 0 .. 2, body : {b \in Seq(Bytes) : Len(b) < Byte}]

LEMMA FrameIs ==
  ASSUME NEW m \in Frames
  PROVE  /\ m.call \in 0 .. 2 /\ m.call \in Bytes
         /\ m.body \in Seq(Bytes) /\ Len(m.body) \in 0 .. Byte - 1
         /\ m = [call |-> m.call, body |-> m.body]
<1>1. m.call \in 0 .. 2 /\ m.body \in Seq(Bytes) /\ Len(m.body) < Byte
      /\ m = [call |-> m.call, body |-> m.body]
  BY DEF Frames
<1>2. Len(m.body) \in Nat
  BY <1>1
<1>3. QED
  BY <1>1, <1>2, Widths DEF Bytes

\* The number of a connection, as it is sent.
LEMMA WordIs ==
  ASSUME NEW i \in Ids
  PROVE  /\ Word(i) \in Seq(Bytes) /\ Len(Word(i)) = 1 + LengthBytes
         /\ Word(i)[1] = i /\ Word(i)[2] = 0
<1> DEFINE z == [k \in 1 .. LengthBytes |-> 0]
           a == <<i>>
<1>1. i \in Bytes /\ 0 \in Bytes
  BY Widths DEF Ids, Bytes
<1>2. z \in Seq(Bytes) /\ Len(z) = LengthBytes /\ z[1] = 0
  BY <1>1, Widths
<1>3. a \in Seq(Bytes) /\ Len(a) = 1 /\ a[1] = i
  BY <1>1
<1>4. Word(i) = a \o z
  BY DEF Word
<1> HIDE DEF a, z
<1>5. Word(i) \in Seq(Bytes) /\ Joins(Word(i), a, z)
  BY <1>2, <1>3, <1>4, Joint
<1>6. 1 \in 1 .. Len(a) /\ 1 \in 1 .. Len(z)
  BY <1>2, <1>3, Widths
<1>7. Len(Word(i)) = 1 + LengthBytes /\ Word(i)[1] = a[1] /\ Word(i)[1 + 1] = z[1]
  BY <1>2, <1>3, <1>5, <1>6 DEF Joins
<1>8. QED
  BY <1>2, <1>3, <1>5, <1>7

LEMMA MessageIs ==
  ASSUME NEW m \in Msgs
  PROVE  /\ m \in Frames /\ Len(m.body) >= 1
         /\ m.call \in {API_REQUEST_CONNECTION, API_ANSWER_REQUEST_CONNECTION} =>
               m.body[1] \in Ids /\ m = [call |-> m.call, body |-> Word(m.body[1])]
<1> USE DEF API_REQUEST_CONNECTION, API_ANSWER_REQUEST_CONNECTION, API_ANSWER_REQUEST_PATH
<1>1. {0, 1, 2} = 0 .. 2
  OBVIOUS
<1>2. CASE \E i \in Ids, c \in {0, 1} : m = [call |-> c, body |-> Word(i)]
  <2>1. PICK i \in Ids, c \in {0, 1} : m = [call |-> c, body |-> Word(i)]
    BY <1>2
  <2>2. Word(i) \in {b \in Seq(Bytes) : Len(b) < Byte} /\ Word(i)[1] = i /\ Len(Word(i)) >= 1
    BY WordIs, Widths
  <2>3. m.call = c /\ m.body = Word(i)
    BY <2>1
  <2>4. m \in Frames
    BY <1>1, <2>1, <2>2 DEF Frames
  <2>5. QED
    BY <2>1, <2>2, <2>3, <2>4
<1>3. CASE \E n \in Bytes : m = [call |-> API_ANSWER_REQUEST_PATH, body |-> [k \in 1 .. FloodSize |-> n]]
  <2>1. PICK n \in Bytes : m = [call |-> API_ANSWER_REQUEST_PATH, body |-> [k \in 1 .. FloodSize |-> n]]
    BY <1>3
  <2>2. m.body \in Seq(Bytes) /\ Len(m.body) = FloodSize /\ m.call = 2
    BY <2>1, Widths
  <2>3. m \in Frames
    BY <1>1, <2>1, <2>2, Widths DEF Frames
  <2>4. QED
    BY <2>2, <2>3, Widths
<1>4. QED
  BY <1>2, <1>3 DEF Msgs

\* e is the message m as bytes.
Codes(e, m) ==
    /\ Len(e) = 1 + LengthBytes + Len(m.body)
    /\ e[1] = m.call /\ e[2] = Len(m.body)
    /\ \A j \in 3 .. LengthBytes + 1 : e[j] = 0
    /\ \A j \in 1 .. Len(m.body) : e[1 + LengthBytes + j] = m.body[j]

LEMMA HeaderIs ==
  ASSUME NEW m \in Frames
  PROVE  /\ Header(m) \in Seq(Bytes) /\ Len(Header(m)) = 1 + LengthBytes
         /\ Header(m)[1] = m.call /\ Header(m)[2] = Len(m.body)
         /\ \A j \in 3 .. LengthBytes + 1 : Header(m)[j] = 0
<1> DEFINE z == [i \in 1 .. LengthBytes - 1 |-> 0]
           a == <<m.call, Len(m.body) % Byte>>
<1>1. /\ m.call \in Bytes /\ m.body \in Seq(Bytes) /\ Len(m.body) \in 0 .. Byte - 1
      /\ 0 \in Bytes
  BY FrameIs, Widths DEF Bytes
<1>2. Len(m.body) % Byte = Len(m.body) /\ Len(m.body) \in Bytes
  <2>1. Len(m.body) \in Nat /\ Len(m.body) < Byte
    BY <1>1, Widths
  <2>2. QED
    BY <1>1, <2>1, Widths, SmallRemainder DEF Bytes
<1>3. z \in Seq(Bytes) /\ Len(z) = LengthBytes - 1 /\ \A i \in 1 .. Len(z) : z[i] = 0
  BY <1>1, Widths
<1>4. a \in Seq(Bytes) /\ Len(a) = 2 /\ a[1] = m.call /\ a[2] = Len(m.body)
  BY <1>1, <1>2
<1>5. Header(m) = a \o z
  BY DEF Header
<1> HIDE DEF a, z
<1>6. Header(m) \in Seq(Bytes) /\ Joins(Header(m), a, z)
  BY <1>3, <1>4, <1>5, Joint
<1>7. \A j \in 3 .. LengthBytes + 1 : Header(m)[j] = 0
  <2>1. ASSUME NEW j \in 3 .. LengthBytes + 1
        PROVE  Header(m)[j] = 0
    <3>1. j - 2 \in 1 .. Len(z) /\ j = Len(a) + (j - 2)
      BY <1>3, <1>4, Widths
    <3>2. QED
      BY <1>3, <1>6, <3>1 DEF Joins
  <2>2. QED
    BY <2>1
<1>8. QED
  BY <1>3, <1>4, <1>6, <1>7, Widths DEF Joins

LEMMA EncodeIs ==
  ASSUME NEW m \in Frames
  PROVE  /\ Encode(m) \in Seq(Bytes) /\ Encode(m) = Header(m) \o m.body /\ Codes(Encode(m), m)
<1> DEFINE y == Header(m)
           e == Encode(m)
<1>1. /\ y \in Seq(Bytes) /\ Len(y) = 1 + LengthBytes
      /\ y[1] = m.call /\ y[2] = Len(m.body)
      /\ \A j \in 3 .. LengthBytes + 1 : y[j] = 0
  BY HeaderIs
<1>2. m.body \in Seq(Bytes)
  BY FrameIs
<1>3. e = y \o m.body
  BY DEF Encode
<1> HIDE DEF y, e
<1>4. e \in Seq(Bytes) /\ Joins(e, y, m.body)
  BY <1>1, <1>2, <1>3, Joint
<1> DEFINE lh == 1 + LengthBytes
<1>5. /\ Len(y) = lh /\ 2 \in 1 .. lh /\ 1 \in 1 .. lh
      /\ \A j \in 3 .. LengthBytes + 1 : j \in 1 .. lh
  BY <1>1, Widths
<1>6. Len(e) = lh + Len(m.body)
  BY <1>4, <1>5 DEF Joins
<1> HIDE DEF lh
<1>7. (\A i \in 1 .. lh : e[i] = y[i]) /\ \A j \in 1 .. Len(m.body) : e[lh + j] = m.body[j]
  BY <1>4, <1>5 DEF Joins
<1>8. e[1] = m.call /\ e[2] = Len(m.body)
  BY <1>1, <1>5, <1>7
<1>9. \A j \in 3 .. LengthBytes + 1 : e[j] = 0
  BY <1>1, <1>5, <1>7
<1>10. Codes(e, m)
  BY <1>6, <1>7, <1>8, <1>9 DEF Codes, lh
<1>11. QED
  BY <1>3, <1>4, <1>10 DEF y, e

---------------------------------------------------------------------------
(* What a socket carries: w is all that was written for the messages ms,   *)
(* the k-th of which ends at off[k].  The reader has handled hd, is at the *)
(* state x within the next message, and rest comes after that; the bytes o *)
(* of the last message are still to be written.  A socket that is not up   *)
(* loses what is not in rest.  What is written ends with the messages, ti, *)
(* or goes on after the last of them, which has not been handled then.     *)

Contexts == [len : Int, call : Bytes, buf : Seq(Bytes), chunk : Seq(Bytes)]

\* Bytes of a message that the reader has put in its context.
Taken(x) == IF x.len = WAITING_MESSAGE THEN 0
            ELSE IF x.len < 0 THEN 1 + Len(x.buf) ELSE 1 + LengthBytes + Len(x.buf)

\* r is what w has after its first c elements.
Lies(r, w, c) == c + Len(r) <= Len(w) /\ \A i \in 1 .. Len(r) : r[i] = w[c + i]

InLength(x, m) ==
    /\ x.len = -2 - Len(x.buf) /\ Len(x.buf) < LengthBytes
    /\ Lies(x.buf, Encode(m), 1)
InBody(x, m) == x.len = Len(m.body) /\ Lies(x.buf, Encode(m), 1 + LengthBytes)

Reader(ms, hd, x) ==
    /\ Len(hd) <= Len(ms) /\ \A k \in 1 .. Len(hd) : hd[k] = ms[k]
    /\ \/ x.len = WAITING_MESSAGE /\ x.buf = <<>>
       \/ /\ Len(hd) < Len(ms) /\ x.call = ms[Len(hd) + 1].call
          /\ InLength(x, ms[Len(hd) + 1]) \/ InBody(x, ms[Len(hd) + 1])

Wire(ms, w, off, ti) ==
    /\ off[0] = 0
    /\ ti => Len(w) = off[Len(ms)]
    /\ \A k \in 0 .. Len(ms) : off[k] <= Len(w)
    /\ \A k \in 1 .. Len(ms) :
          /\ off[k] = off[k - 1] + Len(Encode(ms[k]))
          /\ \A j \in 1 .. Len(Encode(ms[k])) : w[off[k - 1] + j] = Encode(ms[k])[j]

Spans(ms, w, off, c, rest, o, up, ti) ==
    /\ Wire(ms, w, off, ti)
    /\ Lies(rest, w, c)
    /\ up => c + Len(rest) + Len(o) = Len(w) /\ Lies(o, w, c + Len(rest))

Carried(ms, hd, x, rest, o, up, ti) ==
    /\ Reader(ms, hd, x)
    /\ ti \/ Len(hd) < Len(ms)
    /\ \E w \in Seq(Bytes), off \in [0 .. Len(ms) -> Nat] :
          Spans(ms, w, off, off[Len(hd)] + Taken(x), rest, o, up, ti)

LEMMA TakenIs ==
  ASSUME NEW x \in Contexts
  PROVE  Taken(x) \in Nat
  BY Widths DEF Taken, Contexts

LEMMA WireGrows ==
  ASSUME NEW ms \in Seq(Frames), NEW m \in Frames,
         NEW w \in Seq(Bytes), NEW off \in [0 .. Len(ms) -> Nat], Wire(ms, w, off, TRUE)
  PROVE  \E v \in Seq(Bytes), to \in [0 .. Len(Append(ms, m)) -> Nat] :
            /\ Wire(Append(ms, m), v, to, TRUE) /\ Joins(v, w, Encode(m))
            /\ \A k \in 0 .. Len(ms) : to[k] = off[k]
<1> DEFINE n == Len(ms)
           e == Encode(m)
           v == w \o e
           to == [k \in 0 .. n + 1 |-> IF k <= n THEN off[k] ELSE off[n] + Len(e)]
<1> DEFINE ns == Append(ms, m)
<1>1. /\ e \in Seq(Bytes) /\ n \in Nat /\ off \in [0 .. n -> Nat] /\ Len(e) \in Nat
      /\ \A k \in 1 .. n : Encode(ms[k]) \in Seq(Bytes)
  BY EncodeIs
<1>2. v \in Seq(Bytes) /\ Joins(v, w, e) /\ Len(v) = Len(w) + Len(e) /\ Len(w) \in Nat
  <2>1. v \in Seq(Bytes) /\ Joins(v, w, e)
    <3> HIDE DEF e
    <3> QED BY <1>1, Joint
  <2>2. QED
    BY <2>1 DEF Joins
<1>3. ns \in Seq(Frames) /\ Len(ns) = n + 1 /\ ns[n + 1] = m /\ \A k \in 1 .. n : ns[k] = ms[k]
  BY AppendProperties
<1>4. /\ off[0] = 0 /\ Len(w) = off[n] /\ n = Len(ms)
      /\ \A k \in 0 .. n : off[k] <= Len(w)
      /\ \A k \in 1 .. n :
          /\ off[k] = off[k - 1] + Len(Encode(ms[k]))
          /\ \A j \in 1 .. Len(Encode(ms[k])) : w[off[k - 1] + j] = Encode(ms[k])[j]
  BY DEF Wire
<1> HIDE DEF ns, v, e, n
<1>5. /\ to \in [0 .. n + 1 -> Nat] /\ to[n + 1] = off[n] + Len(e)
      /\ \A k \in 0 .. n : to[k] = off[k]
  BY <1>1
<1> HIDE DEF to
<1>6. to[0] = 0 /\ Len(v) = to[n + 1] /\ \A k \in 0 .. n + 1 : to[k] <= Len(v)
  <2>1. to[0] = 0 /\ Len(v) = to[n + 1]
    BY <1>1, <1>2, <1>4, <1>5
  <2>2. ASSUME NEW k \in 0 .. n + 1 PROVE to[k] <= Len(v)
    <3>1. CASE k \in 0 .. n
      <4>1. off[k] \in Nat /\ off[k] <= Len(w)
        BY <1>1, <1>4, <3>1
      <4>2. QED
        BY <1>1, <1>2, <1>5, <3>1, <4>1
    <3>2. CASE k = n + 1
      BY <1>1, <1>2, <1>5, <2>1, <3>2
    <3>3. QED
      BY <1>1, <3>1, <3>2
  <2>3. QED
    BY <2>1, <2>2
<1>7. ASSUME NEW k \in 1 .. n + 1
      PROVE  /\ to[k] = to[k - 1] + Len(Encode(ns[k]))
             /\ \A j \in 1 .. Len(Encode(ns[k])) : v[to[k - 1] + j] = Encode(ns[k])[j]
  <2>1. CASE k = n + 1
    <3>1. k - 1 = n /\ n \in 0 .. n
      BY <1>1, <2>1
    <3>2. Encode(ns[k]) = e /\ to[k] = off[n] + Len(e) /\ to[k - 1] = off[n] /\ off[n] = Len(w)
      BY <1>3, <1>4, <1>5, <2>1, <3>1 DEF e
    <3>3. \A j \in 1 .. Len(e) : v[Len(w) + j] = e[j]
      BY <1>2 DEF Joins
    <3>4. QED
      BY <3>2, <3>3
  <2>2. CASE k \in 1 .. n
    <3> DEFINE f == Encode(ms[k])
    <3>1. k - 1 \in 0 .. n /\ k \in 0 .. n
      BY <1>1, <2>2
    <3>2. /\ f \in Seq(Bytes) /\ off[k - 1] \in Nat /\ off[k] \in Nat /\ off[k] <= Len(w)
          /\ off[k] = off[k - 1] + Len(f) /\ \A j \in 1 .. Len(f) : w[off[k - 1] + j] = f[j]
      BY <1>1, <1>4, <2>2, <3>1
    <3>3. Encode(ns[k]) = f /\ to[k] = off[k] /\ to[k - 1] = off[k - 1]
      BY <1>3, <1>5, <2>2, <3>1
    <3> HIDE DEF f
    <3>4. ASSUME NEW j \in 1 .. Len(f) PROVE v[off[k - 1] + j] = f[j]
      <4>1. off[k - 1] + j \in 1 .. Len(w)
        BY <1>2, <3>2
      <4>2. v[off[k - 1] + j] = w[off[k - 1] + j]
        BY <1>2, <4>1 DEF Joins
      <4>3. QED
        BY <3>2, <4>2
    <3>5. QED
      BY <3>2, <3>3, <3>4
  <2>3. QED
    BY <1>1, <2>1, <2>2
<1>8. Wire(ns, v, to, TRUE) /\ to \in [0 .. Len(ns) -> Nat]
  BY <1>3, <1>5, <1>6, <1>7 DEF Wire
<1>9. QED
  BY <1>2, <1>4, <1>5, <1>8 DEF ns, e

LEMMA PlaceIs ==
  ASSUME NEW ms \in Seq(Frames), NEW hd \in Seq(Frames), NEW x \in Contexts,
         NEW off \in [0 .. Len(ms) -> Nat], Reader(ms, hd, x)
  PROVE  Len(hd) \in 0 .. Len(ms) /\ off[Len(hd)] + Taken(x) \in Nat
<1>1. Len(hd) \in 0 .. Len(ms)
  BY DEF Reader
<1>2. off[Len(hd)] \in Nat /\ Taken(x) \in Nat
  BY <1>1, TakenIs
<1>3. QED
  BY <1>1, <1>2

LEMMA ReaderGrows ==
  ASSUME NEW ms \in Seq(Frames), NEW hd \in Seq(Frames), NEW x, NEW m \in Frames, Reader(ms, hd, x)
  PROVE  Reader(Append(ms, m), hd, x)
<1> DEFINE ns == Append(ms, m)
<1>1. Len(ns) = Len(ms) + 1 /\ \A k \in 1 .. Len(ms) : ns[k] = ms[k]
  BY AppendProperties
<1>2. Len(hd) \in Nat /\ Len(ms) \in Nat
  OBVIOUS
<1> HIDE DEF ns
<1>3. Len(hd) <= Len(ns) /\ \A k \in 1 .. Len(hd) : hd[k] = ns[k]
  BY <1>1, <1>2 DEF Reader
<1>4. ASSUME Len(hd) < Len(ms) PROVE ns[Len(hd) + 1] = ms[Len(hd) + 1] /\ Len(hd) < Len(ns)
  BY <1>1, <1>2, <1>4
<1>5. Reader(ms, hd, x)
  OBVIOUS
<1>6. QED
  BY <1>3, <1>4, <1>5 DEF Reader, ns

\* A message is sent, of which the bytes o have still to be written.
LEMMA Sent ==
  ASSUME NEW ms \in Seq(Frames), NEW hd \in Seq(Frames), NEW x \in Contexts, NEW rest \in Seq(Bytes),
         NEW m \in Frames, NEW u \in Seq(Bytes), NEW o \in Seq(Bytes), Joins(Encode(m), u, o),
         Carried(ms, hd, x, rest, <<>>, TRUE, TRUE)
  PROVE  Carried(Append(ms, m), hd, x, rest \o u, o, TRUE, TRUE)
<1>1. PICK w \in Seq(Bytes), off \in [0 .. Len(ms) -> Nat] :
         Spans(ms, w, off, off[Len(hd)] + Taken(x), rest, <<>>, TRUE, TRUE)
  BY DEF Carried
<1>2. PICK v \in Seq(Bytes), to \in [0 .. Len(Append(ms, m)) -> Nat] :
         /\ Wire(Append(ms, m), v, to, TRUE) /\ Joins(v, w, Encode(m))
         /\ \A k \in 0 .. Len(ms) : to[k] = off[k]
  BY <1>1, WireGrows DEF Spans
<1>3. Reader(Append(ms, m), hd, x) /\ Len(hd) <= Len(ms)
  BY ReaderGrows DEF Carried, Reader
<1> DEFINE c == off[Len(hd)] + Taken(x)
           r == rest \o u
<1>4. c \in Nat /\ to[Len(hd)] = off[Len(hd)]
  <2>1. Reader(ms, hd, x)
    BY DEF Carried
  <2>2. QED
    BY <1>2, <2>1, PlaceIs
<1>5. r \in Seq(Bytes) /\ Joins(r, rest, u)
  BY Joint
<1>6. Lies(rest, w, c) /\ c + Len(rest) = Len(w)
  <2>1. Lies(rest, w, c) /\ c + Len(rest) + Len(<<>>) = Len(w)
    BY <1>1 DEF Spans
  <2>2. Len(<<>>) = 0 /\ Len(rest) \in Nat
    OBVIOUS
  <2> HIDE DEF c
  <2>3. QED
    BY <1>4, <2>1, <2>2
<1> HIDE DEF c, r
<1>7. /\ Len(r) = Len(rest) + Len(u) /\ Len(v) = Len(w) + Len(u) + Len(o)
      /\ Len(rest) \in Nat /\ Len(u) \in Nat /\ Len(o) \in Nat /\ Len(w) \in Nat
      /\ Len(Encode(m)) = Len(u) + Len(o)
  BY <1>2, <1>5 DEF Joins
<1> DEFINE lw == Len(w)
           lr == Len(rest)
           lu == Len(u)
           lo == Len(o)
<1>a. /\ c \in Nat /\ lw \in Nat /\ lr \in Nat /\ lu \in Nat /\ lo \in Nat /\ c + lr = lw
      /\ Len(r) = lr + lu /\ Len(v) = lw + lu + lo /\ Len(Encode(m)) = lu + lo
  BY <1>4, <1>6, <1>7
<1> HIDE DEF lw, lr, lu, lo
<1>8. ASSUME NEW i \in 1 .. Len(r) PROVE r[i] = v[c + i]
  <2>1. CASE i <= Len(rest)
    <3>1. i \in 1 .. Len(rest) /\ c + i \in 1 .. Len(w)
      BY <1>4, <1>6, <1>7, <2>1
    <3>2. r[i] = rest[i] /\ rest[i] = w[c + i] /\ w[c + i] = v[c + i]
      BY <1>2, <1>5, <1>6, <3>1 DEF Joins, Lies
    <3>3. QED
      BY <3>2
  <2>2. CASE i > Len(rest)
    <3> DEFINE j == i - lr
    <3>0. i \in 1 .. lr + lu /\ i > lr
      BY <1>a, <2>2 DEF lr
    <3>1. j \in 1 .. lu /\ i = lr + j /\ c + i = lw + j /\ j \in 1 .. lu + lo
      BY <1>a, <3>0
    <3> HIDE DEF j
    <3>2. r[Len(rest) + j] = u[j]
      BY <1>5, <3>1 DEF Joins, lu, lr
    <3>3. v[Len(w) + j] = Encode(m)[j] /\ Encode(m)[j] = u[j]
      BY <1>2, <1>a, <3>1 DEF Joins, lu
    <3>4. QED
      BY <3>1, <3>2, <3>3 DEF lr, lw
  <2>3. QED
    BY <1>7, <2>1, <2>2
<1>9. ASSUME NEW i \in 1 .. Len(o) PROVE o[i] = v[c + Len(r) + i]
  <2>1. i \in 1 .. lo
    BY DEF lo
  <2> DEFINE k == lu + i
  <2>2. c + Len(r) + i = lw + k /\ k \in 1 .. Len(Encode(m))
    BY <1>a, <2>1
  <2>3. k = Len(u) + i
    BY DEF lu
  <2> HIDE DEF k
  <2>4. Encode(m)[k] = o[i]
    BY <1>2, <2>1, <2>3 DEF Joins, lo
  <2>5. v[lw + k] = Encode(m)[k]
    BY <1>2, <2>2 DEF Joins, lw
  <2>6. QED
    BY <2>2, <2>4, <2>5
<1>10. c + Len(r) + Len(o) = Len(v)
  <2>1. c + (lr + lu) + lo = lw + lu + lo
    BY <1>a
  <2>2. lo = Len(o)
    BY DEF lo
  <2>3. QED
    BY <1>a, <2>1, <2>2
<1>11. Spans(Append(ms, m), v, to, c, r, o, TRUE, TRUE)
  <2>1. c + Len(r) <= Len(v) /\ c + Len(r) + Len(o) <= Len(v)
    <3>1. c + (lr + lu) <= lw + lu + lo /\ c + (lr + lu) + lo <= lw + lu + lo
      BY <1>a
    <3>2. lo = Len(o)
      BY DEF lo
    <3>3. QED
      BY <1>a, <3>1, <3>2
  <2>2. Lies(r, v, c)
    BY <1>8, <2>1 DEF Lies
  <2>3. Lies(o, v, c + Len(r))
    BY <1>9, <2>1 DEF Lies
  <2>4. Wire(Append(ms, m), v, to, TRUE)
    BY <1>2
  <2>5. QED
    BY <1>10, <2>2, <2>3, <2>4 DEF Spans
<1>12. QED
  BY <1>3, <1>4, <1>11 DEF Carried, c, r

\* What is sent on a socket that is not up goes nowhere.
LEMMA SentDown ==
  ASSUME NEW ms \in Seq(Frames), NEW hd \in Seq(Frames), NEW x \in Contexts, NEW rest \in Seq(Bytes),
         NEW m \in Frames, NEW o, NEW q, Carried(ms, hd, x, rest, o, FALSE, TRUE)
  PROVE  Carried(Append(ms, m), hd, x, rest, q, FALSE, TRUE)
<1>1. PICK w \in Seq(Bytes), off \in [0 .. Len(ms) -> Nat] :
         Spans(ms, w, off, off[Len(hd)] + Taken(x), rest, o, FALSE, TRUE)
  BY DEF Carried
<1>2. PICK v \in Seq(Bytes), to \in [0 .. Len(Append(ms, m)) -> Nat] :
         /\ Wire(Append(ms, m), v, to, TRUE) /\ Joins(v, w, Encode(m))
         /\ \A k \in 0 .. Len(ms) : to[k] = off[k]
  BY <1>1, WireGrows DEF Spans
<1>3. Reader(Append(ms, m), hd, x) /\ Len(hd) <= Len(ms)
  BY ReaderGrows DEF Carried, Reader
<1> DEFINE c == off[Len(hd)] + Taken(x)
<1>4. c \in Nat /\ to[Len(hd)] = off[Len(hd)]
  <2>1. Reader(ms, hd, x)
    BY DEF Carried
  <2>2. QED
    BY <1>2, <2>1, PlaceIs
<1>5. Lies(rest, w, c)
  BY <1>1 DEF Spans
<1> HIDE DEF c
<1>6. Len(v) = Len(w) + Len(Encode(m)) /\ Len(Encode(m)) \in Nat /\ Len(w) \in Nat /\ Len(rest) \in Nat
  BY <1>2, EncodeIs DEF Joins
<1>7. Lies(rest, v, c)
  <2>1. ASSUME NEW i \in 1 .. Len(rest) PROVE rest[i] = v[c + i]
    <3>1. c + i \in 1 .. Len(w) /\ rest[i] = w[c + i]
      BY <1>4, <1>5, <1>6 DEF Lies
    <3>2. QED
      BY <1>2, <3>1 DEF Joins
  <2>2. QED
    BY <1>4, <1>5, <1>6, <2>1 DEF Lies
<1>8. Spans(Append(ms, m), v, to, c, rest, q, FALSE, TRUE)
  BY <1>2, <1>7 DEF Spans
<1>9. QED
  BY <1>3, <1>4, <1>8 DEF Carried, c

\* The owed bytes are written.
LEMMA Paid ==
  ASSUME NEW ms \in Seq(Frames), NEW hd \in Seq(Frames), NEW x \in Contexts, NEW rest \in Seq(Bytes),
         NEW o \in Seq(Bytes), Carried(ms, hd, x, rest, o, TRUE, TRUE)
  PROVE  Carried(ms, hd, x, rest \o o, <<>>, TRUE, TRUE)
<1>1. PICK w \in Seq(Bytes), off \in [0 .. Len(ms) -> Nat] :
         Spans(ms, w, off, off[Len(hd)] + Taken(x), rest, o, TRUE, TRUE)
  BY DEF Carried
<1> DEFINE c == off[Len(hd)] + Taken(x)
           r == rest \o o
<1>2. c \in Nat
  BY PlaceIs DEF Carried
<1>3. r \in Seq(Bytes) /\ Joins(r, rest, o)
  BY Joint
<1>4. /\ Wire(ms, w, off, TRUE) /\ Lies(rest, w, c) /\ Lies(o, w, c + Len(rest))
      /\ c + Len(rest) + Len(o) = Len(w)
  BY <1>1 DEF Spans
<1> HIDE DEF c, r
<1>5. Len(r) = Len(rest) + Len(o) /\ Len(rest) \in Nat /\ Len(o) \in Nat
  BY <1>3 DEF Joins
<1>6. ASSUME NEW i \in 1 .. Len(r) PROVE r[i] = w[c + i]
  <2>1. CASE i <= Len(rest)
    BY <1>3, <1>4, <1>5, <2>1 DEF Joins, Lies
  <2>2. CASE i > Len(rest)
    <3>1. i - Len(rest) \in 1 .. Len(o) /\ i = Len(rest) + (i - Len(rest))
          /\ c + Len(rest) + (i - Len(rest)) = c + i
      BY <1>2, <1>5, <2>2
    <3>2. QED
      BY <1>3, <1>4, <3>1 DEF Joins, Lies
  <2>3. QED
    BY <1>5, <2>1, <2>2
<1>7. Spans(ms, w, off, c, r, <<>>, TRUE, TRUE)
  <2>1. c + Len(r) + Len(<<>>) = Len(w) /\ c + Len(r) <= Len(w)
    BY <1>2, <1>4, <1>5
  <2>2. Lies(r, w, c)
    BY <1>6, <2>1 DEF Lies
  <2>3. Lies(<<>>, w, c + Len(r))
    BY <1>2, <1>5, <2>1 DEF Lies
  <2>4. QED
    BY <1>4, <2>1, <2>2, <2>3 DEF Spans
<1>8. QED
  BY <1>7 DEF Carried, c, r

\* A socket breaks, and only the first part of rest is left.
LEMMA BrokenOff ==
  ASSUME NEW ms \in Seq(Frames), NEW hd \in Seq(Frames), NEW x \in Contexts, NEW rest \in Seq(Bytes),
         NEW r \in Seq(Bytes), NEW z \in Seq(Bytes), Joins(rest, r, z),
         NEW o, NEW q, NEW up, NEW ti, Carried(ms, hd, x, rest, o, up, ti)
  PROVE  Carried(ms, hd, x, r, q, FALSE, ti)
<1>1. PICK w \in Seq(Bytes), off \in [0 .. Len(ms) -> Nat] :
         Spans(ms, w, off, off[Len(hd)] + Taken(x), rest, o, up, ti)
  BY DEF Carried
<1> DEFINE c == off[Len(hd)] + Taken(x)
<1>2. c \in Nat
  BY PlaceIs DEF Carried
<1>3. Wire(ms, w, off, ti) /\ Lies(rest, w, c)
  BY <1>1 DEF Spans
<1> HIDE DEF c
<1>4. Len(rest) = Len(r) + Len(z) /\ Len(r) \in Nat /\ Len(z) \in Nat /\ Len(w) \in Nat
  BY DEF Joins
<1>5. Lies(r, w, c)
  BY <1>2, <1>3, <1>4 DEF Lies, Joins
<1>6. Spans(ms, w, off, c, r, q, FALSE, ti)
  BY <1>3, <1>5 DEF Spans
<1>7. QED
  BY <1>6 DEF Carried, c

\* The reader takes the bytes y, and r is left.
LEMMA Advance ==
  ASSUME NEW ms, NEW w \in Seq(Bytes), NEW off, NEW c \in Nat,
         NEW rest \in Seq(Bytes), NEW y \in Seq(Bytes), NEW r \in Seq(Bytes), Joins(rest, y, r),
         NEW o \in Seq(Bytes), NEW up, NEW ti, Spans(ms, w, off, c, rest, o, up, ti)
  PROVE  Spans(ms, w, off, c + Len(y), r, o, up, ti) /\ Lies(y, w, c)
<1> DEFINE ly == Len(y)
           lr == Len(r)
           lo == Len(o)
           lw == Len(w)
<1>1. /\ Wire(ms, w, off, ti)
      /\ Lies(rest, w, c)
      /\ up => c + Len(rest) + lo = lw /\ Lies(o, w, c + Len(rest))
  BY Zenon DEF Spans
<1>2. Len(rest) = ly + lr /\ ly \in Nat /\ lr \in Nat /\ lo \in Nat /\ lw \in Nat
  BY DEF Joins
<1>3. c + ly + lr <= lw /\ \A i \in 1 .. ly + lr : rest[i] = w[c + i]
  BY <1>1, <1>2 DEF Lies
<1> HIDE DEF ly, lr, lo, lw
<1>4. ASSUME NEW i \in 1 .. ly PROVE y[i] = w[c + i]
  <2>1. i \in 1 .. ly + lr
    BY <1>2
  <2>2. rest[i] = y[i]
    BY DEF Joins, ly
  <2>3. QED
    BY <1>3, <2>1, <2>2
<1>5. ASSUME NEW i \in 1 .. lr PROVE r[i] = w[c + ly + i]
  <2>1. ly + i \in 1 .. ly + lr /\ c + ly + i = c + (ly + i)
    BY <1>2
  <2>2. rest[ly + i] = r[i]
    BY DEF Joins, ly, lr
  <2>3. QED
    BY <1>3, <2>1, <2>2
<1>6. Lies(y, w, c) /\ Lies(r, w, c + ly)
  <2>1. /\ c + ly <= lw /\ c + ly + lr <= lw /\ ly = Len(y) /\ lr = Len(r) /\ lw = Len(w)
    BY <1>2, <1>3 DEF ly, lr, lw
  <2>2. Lies(y, w, c)
    BY <1>4, <2>1 DEF Lies
  <2>3. Lies(r, w, c + ly)
    BY <1>5, <2>1 DEF Lies
  <2>4. QED
    BY <2>2, <2>3
<1>7. c + ly + lr = c + Len(rest)
  BY <1>2
<1>8. QED
  BY <1>1, <1>6, <1>7 DEF Spans, ly, lr, lo, lw

\* Bytes that come next within a message extend what the buffer has of it.
LEMMA Within ==
  ASSUME NEW ms \in Seq(Frames), NEW ti, NEW w \in Seq(Bytes), NEW off \in [0 .. Len(ms) -> Nat],
         Wire(ms, w, off, ti), NEW n \in Nat, n < Len(ms), NEW d \in Nat,
         NEW buf \in Seq(Bytes), NEW y \in Seq(Bytes), NEW f, Joins(f, buf, y),
         Lies(buf, Encode(ms[n + 1]), d), Lies(y, w, off[n] + (d + Len(buf))),
         d + Len(buf) + Len(y) <= Len(Encode(ms[n + 1]))
  PROVE  Lies(f, Encode(ms[n + 1]), d)
<1> DEFINE e == Encode(ms[n + 1])
           lb == Len(buf)
           ly == Len(y)
<1>1. /\ lb \in Nat /\ ly \in Nat /\ n + 1 \in 1 .. Len(ms) /\ ms[n + 1] \in Frames
      /\ off[n] \in Nat /\ Len(e) \in Nat /\ Len(f) = lb + ly
  <2>1. lb \in Nat /\ ly \in Nat /\ n + 1 \in 1 .. Len(ms) /\ n \in 0 .. Len(ms)
    OBVIOUS
  <2>2. Len(e) \in Nat
    BY <2>1, EncodeIs
  <2>3. QED
    BY <2>1, <2>2 DEF Joins
<1>2. /\ \A j \in 1 .. Len(e) : w[off[n] + j] = e[j]
      /\ \A j \in 1 .. ly : y[j] = w[off[n] + (d + lb) + j]
      /\ \A j \in 1 .. lb : buf[j] = e[d + j] /\ f[j] = buf[j]
      /\ \A j \in 1 .. ly : f[lb + j] = y[j]
      /\ d + lb + ly <= Len(e)
  <2> DEFINE k == n + 1
  <2>1. k - 1 = n /\ e = Encode(ms[k])
    OBVIOUS
  <2>2. \A j \in 1 .. Len(Encode(ms[k])) : w[off[k - 1] + j] = Encode(ms[k])[j]
    BY <1>1 DEF Wire
  <2> HIDE DEF k, e
  <2>3. \A j \in 1 .. Len(e) : w[off[n] + j] = e[j]
    BY <2>1, <2>2
  <2>4. /\ \A j \in 1 .. ly : y[j] = w[off[n] + (d + lb) + j]
        /\ \A j \in 1 .. lb : buf[j] = e[d + j]
    BY DEF Lies, e
  <2>5. /\ \A j \in 1 .. lb : f[j] = buf[j]
        /\ \A j \in 1 .. ly : f[lb + j] = y[j]
    BY DEF Joins
  <2>6. d + lb + ly <= Len(e)
    BY DEF e
  <2>7. QED
    BY <2>3, <2>4, <2>5, <2>6
<1> HIDE DEF e, lb, ly
<1>3. ASSUME NEW i \in 1 .. lb + ly PROVE f[i] = e[d + i]
  <2>1. CASE i <= lb
    <3>1. i \in 1 .. lb
      BY <1>1, <2>1
    <3>2. QED
      BY <1>2, <3>1
  <2>2. CASE i > lb
    <3> DEFINE j == i - lb
               o == off[n]
               le == Len(e)
    <3>a. o \in Nat /\ le \in Nat /\ lb \in Nat /\ ly \in Nat /\ d \in Nat /\ d + lb + ly <= le
      BY <1>1, <1>2
    <3> HIDE DEF o, le
    <3>b. j \in 1 .. ly /\ i = lb + j /\ o + (d + lb) + j = o + (d + i) /\ d + i \in 1 .. le
      BY <3>a, <2>2
    <3>1. j \in 1 .. ly /\ i = lb + j /\ off[n] + (d + lb) + j = off[n] + (d + i) /\ d + i \in 1 .. Len(e)
      BY <3>b DEF o, le
    <3> HIDE DEF j
    <3>2. QED
      BY <1>2, <3>1
  <2>3. QED
    BY <1>1, <2>1, <2>2
<1>4. QED
  BY <1>1, <1>2, <1>3 DEF Lies, e, lb, ly

\* A length below Byte, and zeros.
LEMMA LittleEndianIs ==
  ASSUME NEW b \in Seq(Bytes), Len(b) >= 1, \A j \in 2 .. Len(b) : b[j] = 0
  PROVE  LittleEndian(b) = b[1]
<1> DEFINE N == Len(b)
           Step(v) == [i \in 0 .. N |-> IF i = 0 THEN 0 ELSE b[N + 1 - i] + Byte * v[i - 1]]
           V == CHOOSE v : v = Step(v)
           g == [i \in 0 .. N |-> IF i = N THEN b[1] ELSE 0]
<1>1. LittleEndian(b) = V[N]
  BY Zenon DEF LittleEndian
<1>2. N \in Nat /\ N >= 1 /\ b[1] \in Nat /\ Byte \in Nat
  BY Widths DEF Bytes
<1>3. \A i \in 1 .. N : b[N + 1 - i] = IF i = N THEN b[1] ELSE 0
  BY <1>2
<1> HIDE DEF N
<1>4. g = Step(g)
  <2>1. ASSUME NEW i \in 0 .. N
        PROVE  g[i] = IF i = 0 THEN 0 ELSE b[N + 1 - i] + Byte * g[i - 1]
    <3>1. CASE i = 0
      BY <1>2, <3>1
    <3>2. CASE i # 0
      <4>1. i \in 1 .. N /\ i - 1 \in 0 .. N /\ i - 1 # N
        BY <1>2, <3>2
      <4>2. g[i - 1] = 0 /\ g[i] = IF i = N THEN b[1] ELSE 0
        BY <4>1
      <4>3. Byte * 0 = 0 /\ b[1] + 0 = b[1]
        BY <1>2
      <4> HIDE DEF g
      <4>4. QED
        BY <1>3, <3>2, <4>1, <4>2, <4>3
    <3>3. QED
      BY <3>1, <3>2
  <2>2. QED
    BY <2>1
<1>5. V = Step(V)
  BY <1>4, Zenon
<1>6. ASSUME NEW v, v = Step(v)
      PROVE  /\ v = [i \in 0 .. N |-> v[i]]
             /\ \A i \in 0 .. N : v[i] = IF i = 0 THEN 0 ELSE b[N + 1 - i] + Byte * v[i - 1]
  <2>1. v = [i \in 0 .. N |-> IF i = 0 THEN 0 ELSE b[N + 1 - i] + Byte * v[i - 1]]
    BY <1>6
  <2>2. QED
    BY <2>1
<1> HIDE DEF V, g
<1>7. /\ V = [i \in 0 .. N |-> V[i]] /\ g = [i \in 0 .. N |-> g[i]]
      /\ \A i \in 0 .. N : V[i] = IF i = 0 THEN 0 ELSE b[N + 1 - i] + Byte * V[i - 1]
      /\ \A i \in 0 .. N : g[i] = IF i = 0 THEN 0 ELSE b[N + 1 - i] + Byte * g[i - 1]
  BY <1>4, <1>5, <1>6
<1>8. \A i \in 0 .. N : V[i] = g[i]
  <2> DEFINE T == {i \in 0 .. N : V[i] # g[i]}
  <2>1. ASSUME T # {} PROVE FALSE
    <3>1. T \subseteq Nat
      BY <1>2
    <3>2. PICK i \in T : \A j \in T : i <= j
      <4> HIDE DEF T
      <4> QED BY <2>1, <3>1, LeastNumber
    <3>3. i \in 0 .. N /\ V[i] # g[i]
      OBVIOUS
    <3>4. i # 0
      BY <1>7, <3>3
    <3>5. i - 1 \in 0 .. N /\ V[i - 1] = g[i - 1]
      BY <1>2, <3>2, <3>3, <3>4
    <3>6. QED
      BY <1>7, <3>3, <3>4, <3>5
  <2>2. QED
    BY <2>1
<1>9. V[N] = b[1]
  <2>1. N \in 0 .. N /\ g[N] = b[1]
    BY <1>2 DEF g
  <2>2. QED
    BY <1>8, <2>1
<1>10. QED
  BY <1>1, <1>9

---------------------------------------------------------------------------
(* One step of Worker's loop after the other, as it moves over the bytes   *)

\* The type of the next message.
LEMMA TypeRead ==
  ASSUME NEW ms \in Seq(Frames), NEW hd \in Seq(Frames), NEW x \in Contexts, NEW z \in Contexts,
         NEW rest \in Seq(Bytes), NEW y \in Seq(Bytes), NEW r \in Seq(Bytes), Joins(rest, y, r),
         NEW o \in Seq(Bytes), NEW up, NEW ti, Carried(ms, hd, x, rest, o, up, ti),
         x.len = WAITING_MESSAGE, Len(y) = 1,
         z.len = WAITING_BODY_SIZE_1, z.call = y[1], z.buf = <<>>
  PROVE  Carried(ms, hd, z, r, o, up, ti)
<1> DEFINE n == Len(hd)
<1>1. Reader(ms, hd, x)
  BY DEF Carried
<1>2. PICK w \in Seq(Bytes), off \in [0 .. Len(ms) -> Nat] :
         Spans(ms, w, off, off[n] + Taken(x), rest, o, up, ti)
  BY DEF Carried
<1>3. Taken(x) = 0 /\ Taken(z) = 1
  BY DEF Taken, WAITING_MESSAGE, WAITING_BODY_SIZE_1
<1>4. n \in 0 .. Len(ms) /\ off[n] \in Nat /\ off[n] + 0 = off[n]
  BY <1>1, <1>3, PlaceIs
<1>5. Spans(ms, w, off, off[n] + 1, r, o, up, ti) /\ Lies(y, w, off[n])
  <2>1. Spans(ms, w, off, off[n], rest, o, up, ti)
    BY <1>2, <1>3, <1>4
  <2>2. QED
    BY <1>4, <2>1, Advance
<1> DEFINE lw == Len(w)
           lm == Len(ms)
<1>6. /\ off[n] + 1 <= lw /\ y[1] = w[off[n] + 1] /\ lw \in Nat
      /\ ti => lw = off[lm]
      /\ ti \/ n < lm
  BY <1>5 DEF Lies, Spans, Wire, Carried
<1>7. n < lm /\ n \in Nat
  <2> HIDE DEF n, lw, lm
  <2>1. n # lm
    <3>1. lm \in Nat
      BY <1>4 DEF lm
    <3>2. QED
      BY <1>4, <1>6, <3>1
  <2>2. n \in 0 .. lm /\ lm \in Nat
    BY <1>4 DEF lm
  <2> QED BY <2>1, <2>2
<1>8. ms[n + 1] \in Frames
  BY <1>7
<1>9. z.call = ms[n + 1].call /\ Len(Encode(ms[n + 1])) \in Nat /\ Len(Encode(ms[n + 1])) >= 1
  <2> DEFINE k == n + 1
             e == Encode(ms[k])
  <2>1. k \in 1 .. Len(ms) /\ k - 1 = n
    BY <1>7
  <2>2. Codes(e, ms[k]) /\ e \in Seq(Bytes) /\ Len(ms[k].body) \in Nat
    <3>1. ms[k] \in Frames
      BY <1>8
    <3> HIDE DEF k
    <3>2. Codes(e, ms[k]) /\ e \in Seq(Bytes)
      BY <3>1, EncodeIs
    <3>3. ms[k].body \in Seq(Bytes)
      BY <3>1, FrameIs
    <3>4. QED
      BY <3>2, <3>3
  <2>3. \A j \in 1 .. Len(e) : w[off[k - 1] + j] = e[j]
    BY <1>5, <2>1 DEF Spans, Wire
  <2> HIDE DEF k, e, n
  <2>a. Len(e) = 1 + LengthBytes + Len(ms[k].body) /\ e[1] = ms[k].call
    BY <2>2 DEF Codes
  <2>b. Len(e) \in Nat
    BY <2>2
  <2>c. Len(e) >= 1
    <3> DEFINE b == Len(ms[k].body)
    <3>1. b \in Nat /\ Len(e) = 1 + LengthBytes + b /\ LengthBytes \in Nat
      BY <2>2, <2>a, Widths
    <3> HIDE DEF b
    <3>2. QED
      BY <3>1
  <2>4. Len(e) \in Nat /\ Len(e) >= 1 /\ e[1] = ms[k].call
    BY <2>a, <2>b, <2>c
  <2>5. w[off[n] + 1] = e[1]
    BY <2>1, <2>3, <2>4
  <2>6. QED
    BY <1>6, <2>4, <2>5 DEF k, e
<1>10. InLength(z, ms[n + 1])
  <2>1. Lies(<<>>, Encode(ms[n + 1]), 1)
    BY <1>9 DEF Lies
  <2>2. QED
    BY <2>1, Widths DEF InLength, WAITING_BODY_SIZE_1
<1>11. Reader(ms, hd, z)
  BY <1>1, <1>7, <1>9, <1>10 DEF Reader
<1>12. QED
  BY <1>3, <1>5, <1>11 DEF Carried

\* The message that the reader is in, and what the next bytes y add to it.
LEMMA Inside ==
  ASSUME NEW ms \in Seq(Frames), NEW hd \in Seq(Frames), NEW x \in Contexts,
         NEW rest \in Seq(Bytes), NEW y \in Seq(Bytes), NEW r \in Seq(Bytes), Joins(rest, y, r),
         NEW o \in Seq(Bytes), NEW up, NEW ti, Carried(ms, hd, x, rest, o, up, ti),
         x.len # WAITING_MESSAGE, NEW d \in Nat,
         d = IF x.len < 0 THEN 1 ELSE 1 + LengthBytes,
         NEW f, Joins(f, x.buf, y),
         d + Len(x.buf) + Len(y) <= Len(Encode(ms[Len(hd) + 1]))
  PROVE  /\ Len(hd) < Len(ms) /\ Len(hd) + 1 \in 1 .. Len(ms) /\ ms[Len(hd) + 1] \in Frames
         /\ x.call = ms[Len(hd) + 1].call
         /\ Lies(f, Encode(ms[Len(hd) + 1]), d)
         /\ \E w \in Seq(Bytes), off \in [0 .. Len(ms) -> Nat] :
               Spans(ms, w, off, off[Len(hd)] + (d + Len(x.buf) + Len(y)), r, o, up, ti)
<1> DEFINE n == Len(hd)
           e == Encode(ms[n + 1])
<1>1. Reader(ms, hd, x)
  BY DEF Carried
<1>2. PICK w \in Seq(Bytes), off \in [0 .. Len(ms) -> Nat] :
         Spans(ms, w, off, off[n] + Taken(x), rest, o, up, ti)
  BY DEF Carried
<1>3. Taken(x) = d + Len(x.buf) /\ x.buf \in Seq(Bytes) /\ Len(x.buf) \in Nat /\ Len(y) \in Nat
  BY DEF Taken, Contexts
<1>4. n \in 0 .. Len(ms) /\ off[n] \in Nat /\ off[n] + Taken(x) \in Nat
  BY <1>1, PlaceIs
<1>5. n < Len(ms) /\ x.call = ms[n + 1].call /\ Lies(x.buf, e, d)
  <2>1. n < Len(ms) /\ x.call = ms[n + 1].call /\ (InLength(x, ms[n + 1]) \/ InBody(x, ms[n + 1]))
    BY <1>1 DEF Reader
  <2>2. n + 1 \in 1 .. Len(ms)
    BY <1>4, <2>1
  <2>3. Len(ms[n + 1].body) \in Nat
    BY <2>2, FrameIs
  <2>4. CASE InLength(x, ms[n + 1])
    BY <1>3, <2>1, <2>4 DEF InLength
  <2>5. CASE InBody(x, ms[n + 1])
    BY <1>3, <2>1, <2>3, <2>5 DEF InBody
  <2>6. QED
    BY <2>1, <2>4, <2>5
<1>6. Spans(ms, w, off, off[n] + Taken(x) + Len(y), r, o, up, ti) /\ Lies(y, w, off[n] + Taken(x))
  BY <1>2, <1>4, Advance
<1>7. n + 1 \in 1 .. Len(ms) /\ n \in Nat
  BY <1>4, <1>5
<1>8. Lies(f, e, d)
  <2>1. Wire(ms, w, off, ti) /\ Lies(y, w, off[n] + (d + Len(x.buf)))
    BY <1>3, <1>6 DEF Spans
  <2> HIDE DEF n
  <2>2. QED
    <3> HIDE DEF e
    <3>1. d + Len(x.buf) + Len(y) <= Len(Encode(ms[n + 1])) /\ Lies(x.buf, Encode(ms[n + 1]), d)
      BY <1>5 DEF n, e
    <3>2. Lies(f, Encode(ms[n + 1]), d)
      BY <1>3, <1>5, <1>7, <2>1, <3>1, Within
    <3>3. QED
      BY <3>2 DEF e
<1>9. off[n] + Taken(x) + Len(y) = off[n] + (d + Len(x.buf) + Len(y))
  <2> DEFINE a == off[n]
             b == Len(x.buf)
             g == Len(y)
             t == Taken(x)
  <2>1. a \in Nat /\ b \in Nat /\ g \in Nat /\ t = d + b
    BY <1>3, <1>4
  <2> HIDE DEF a, b, g, t
  <2>2. a + t + g = a + (d + b + g)
    BY <2>1
  <2>3. QED
    BY <2>2 DEF a, b, g, t
<1>10. Spans(ms, w, off, off[n] + (d + Len(x.buf) + Len(y)), r, o, up, ti)
  BY <1>6, <1>9
<1>11. \E v \in Seq(Bytes), to \in [0 .. Len(ms) -> Nat] :
          Spans(ms, v, to, to[n] + (d + Len(x.buf) + Len(y)), r, o, up, ti)
  BY <1>10
<1>12. ms[n + 1] \in Frames
  BY <1>7
<1>13. QED
  BY <1>5, <1>7, <1>8, <1>11, <1>12, Zenon

\* The message that the reader is in.
LEMMA ReaderIn ==
  ASSUME NEW ms \in Seq(Frames), NEW hd \in Seq(Frames), NEW x \in Contexts,
         Reader(ms, hd, x), x.len # WAITING_MESSAGE
  PROVE  /\ Len(hd) \in Nat /\ Len(hd) + 1 \in 1 .. Len(ms) /\ ms[Len(hd) + 1] \in Frames
         /\ x.call = ms[Len(hd) + 1].call
         /\ x.len < 0 => x.len = -2 - Len(x.buf) /\ Len(x.buf) < LengthBytes
         /\ x.len >= 0 => x.len = Len(ms[Len(hd) + 1].body) /\ Len(x.buf) <= x.len
         /\ Len(ms[Len(hd) + 1].body) \in Nat /\ Len(x.buf) \in Nat
         /\ Len(Encode(ms[Len(hd) + 1])) = 1 + LengthBytes + Len(ms[Len(hd) + 1].body)
<1> DEFINE n == Len(hd)
           m == ms[n + 1]
           e == Encode(m)
           lx == Len(x.buf)
           lm == Len(m.body)
<1>1. n < Len(ms) /\ x.call = m.call /\ (InLength(x, m) \/ InBody(x, m)) /\ n \in Nat
  BY DEF Reader
<1>2. n + 1 \in 1 .. Len(ms) /\ m \in Frames
  BY <1>1
<1>3. lm \in Nat /\ lx \in Nat
  BY <1>2, FrameIs DEF Contexts
<1>4. Len(e) = 1 + LengthBytes + lm
  <2> HIDE DEF m
  <2>1. QED
    BY <1>2, EncodeIs DEF Codes
<1> HIDE DEF n, m, e, lx, lm
<1>5. /\ x.len < 0 => x.len = -2 - lx /\ lx < LengthBytes
      /\ x.len >= 0 => x.len = lm /\ lx <= x.len
  <2>1. CASE InLength(x, m)
    <3>1. x.len = -2 - lx /\ lx < LengthBytes
      BY <2>1 DEF InLength, lx
    <3>2. QED
      BY <1>3, <3>1
  <2>2. CASE InBody(x, m)
    <3>1. x.len = lm /\ 1 + LengthBytes + lx <= Len(e)
      BY <2>2 DEF InBody, Lies, lm, lx, e
    <3>2. lx <= lm /\ x.len >= 0
      BY <1>3, <1>4, <3>1, Widths
    <3>3. QED
      BY <1>3, <3>1, <3>2
  <2>3. QED
    BY <1>1, <2>1, <2>2
<1>6. QED
  BY <1>1, <1>2, <1>3, <1>4, <1>5, Zenon DEF n, m, e, lx, lm

\* A part of the length, or of the body, goes into the buffer.
LEMMA LengthPart ==
  ASSUME NEW ms \in Seq(Frames), NEW hd \in Seq(Frames), NEW x \in Contexts, NEW z \in Contexts,
         NEW rest \in Seq(Bytes), NEW y \in Seq(Bytes), NEW r \in Seq(Bytes), Joins(rest, y, r),
         NEW o \in Seq(Bytes), NEW up, NEW ti, Carried(ms, hd, x, rest, o, up, ti),
         x.len <= WAITING_BODY_SIZE_1, Len(x.buf) + Len(y) < LengthBytes,
         z.len = x.len - Len(y), z.call = x.call, Joins(z.buf, x.buf, y)
  PROVE  Carried(ms, hd, z, r, o, up, ti)
<1> DEFINE n == Len(hd)
           m == ms[n + 1]
           b == Len(x.buf)
           g == Len(y)
           q == Len(m.body)
<1>1. Reader(ms, hd, x)
  BY DEF Carried
<1>2. x.len # WAITING_MESSAGE /\ x.len < 0 /\ x.len \in Int
  BY DEF WAITING_MESSAGE, WAITING_BODY_SIZE_1, Contexts
<1>3. /\ n \in Nat /\ n + 1 \in 1 .. Len(ms) /\ m \in Frames /\ x.call = m.call
      /\ x.len = -2 - b /\ q \in Nat /\ b \in Nat /\ g \in Nat
      /\ Len(Encode(m)) = 1 + LengthBytes + q
  BY <1>1, <1>2, ReaderIn
<1>4. Len(z.buf) = b + g
  BY DEF Joins
<1> HIDE DEF n, m, b, g, q
<1>5. 1 + b + g <= Len(Encode(m)) /\ b + g < LengthBytes /\ z.len = -2 - (b + g) /\ z.len # WAITING_MESSAGE
      /\ z.len < 0 /\ 1 + (b + g) = 1 + b + g
  <2>1. b + g < LengthBytes
    BY DEF b, g
  <2>2. z.len = x.len - g
    BY DEF g
  <2>3. QED
    BY <1>2, <1>3, <2>1, <2>2, Widths DEF WAITING_MESSAGE
<1>6. /\ Lies(z.buf, Encode(m), 1)
      /\ \E w \in Seq(Bytes), off \in [0 .. Len(ms) -> Nat] :
               Spans(ms, w, off, off[n] + (1 + b + g), r, o, up, ti)
  <2>1. 1 = IF x.len < 0 THEN 1 ELSE 1 + LengthBytes
    BY <1>2
  <2>2. 1 + Len(x.buf) + Len(y) <= Len(Encode(ms[Len(hd) + 1]))
    BY <1>5 DEF b, g, m, n
  <2>3. QED
    BY <1>2, <2>1, <2>2, Inside DEF b, g, m, n
<1>7. Taken(z) = 1 + b + g
  BY <1>4, <1>5 DEF Taken
<1>8. InLength(z, m)
  BY <1>4, <1>5, <1>6 DEF InLength
<1>9. Reader(ms, hd, z)
  BY <1>1, <1>3, <1>8 DEF Reader, n, m
<1>10. QED
  BY <1>6, <1>7, <1>9 DEF Carried, n

LEMMA BodyPart ==
  ASSUME NEW ms \in Seq(Frames), NEW hd \in Seq(Frames), NEW x \in Contexts, NEW z \in Contexts,
         NEW rest \in Seq(Bytes), NEW y \in Seq(Bytes), NEW r \in Seq(Bytes), Joins(rest, y, r),
         NEW o \in Seq(Bytes), NEW up, NEW ti, Carried(ms, hd, x, rest, o, up, ti),
         x.len >= 0, Len(x.buf) + Len(y) <= x.len,
         z.len = x.len, z.call = x.call, Joins(z.buf, x.buf, y)
  PROVE  Carried(ms, hd, z, r, o, up, ti)
<1> DEFINE n == Len(hd)
           m == ms[n + 1]
           b == Len(x.buf)
           g == Len(y)
           q == Len(m.body)
           d == 1 + LengthBytes
<1>1. Reader(ms, hd, x)
  BY DEF Carried
<1>2. x.len # WAITING_MESSAGE /\ ~(x.len < 0) /\ x.len \in Int
  BY DEF WAITING_MESSAGE, Contexts
<1>3. /\ n \in Nat /\ n + 1 \in 1 .. Len(ms) /\ m \in Frames /\ x.call = m.call
      /\ x.len = q /\ q \in Nat /\ b \in Nat /\ g \in Nat
      /\ Len(Encode(m)) = d + q
  BY <1>1, <1>2, ReaderIn
<1>4. Len(z.buf) = b + g /\ b + g <= q
  BY <1>3 DEF Joins
<1>5. d \in Nat
  BY Widths
<1>6. d = IF x.len < 0 THEN 1 ELSE 1 + LengthBytes
  BY <1>2
<1> HIDE DEF n, m, b, g, q, d
<1>7. d + b + g <= Len(Encode(m)) /\ d + (b + g) = d + b + g
  BY <1>3, <1>4, <1>5
<1>8. /\ Lies(z.buf, Encode(m), d)
      /\ \E w \in Seq(Bytes), off \in [0 .. Len(ms) -> Nat] :
               Spans(ms, w, off, off[n] + (d + b + g), r, o, up, ti)
  <2>1. d + Len(x.buf) + Len(y) <= Len(Encode(ms[Len(hd) + 1]))
    BY <1>7 DEF b, g, m, n
  <2>2. QED
    BY <1>2, <1>5, <1>6, <2>1, Inside DEF b, g, m, n
<1>9. Taken(z) = d + b + g
  BY <1>2, <1>4, <1>7 DEF Taken, d
<1>10. InBody(z, m)
  BY <1>3, <1>8 DEF InBody, d, q
<1>11. Reader(ms, hd, z)
  BY <1>1, <1>3, <1>10 DEF Reader, n, m
<1>12. QED
  BY <1>8, <1>9, <1>11 DEF Carried, n

\* The length is complete.
LEMMA LengthRead ==
  ASSUME NEW ms \in Seq(Frames), NEW hd \in Seq(Frames), NEW x \in Contexts, NEW z,
         NEW rest \in Seq(Bytes), NEW y \in Seq(Bytes), NEW r \in Seq(Bytes), Joins(rest, y, r),
         NEW o \in Seq(Bytes), NEW up, NEW ti, Carried(ms, hd, x, rest, o, up, ti),
         x.len <= WAITING_BODY_SIZE_1, Len(x.buf) + Len(y) = LengthBytes,
         NEW f \in Seq(Bytes), Joins(f, x.buf, y),
         z.len = LittleEndian(f), z.call = x.call, z.buf = <<>>
  PROVE  LittleEndian(f) \in 0 .. Byte - 1 /\ Carried(ms, hd, z, r, o, up, ti)
<1> DEFINE n == Len(hd)
           m == ms[n + 1]
           e == Encode(m)
           b == Len(x.buf)
           g == Len(y)
           q == Len(m.body)
<1>1. Reader(ms, hd, x)
  BY DEF Carried
<1>2. x.len # WAITING_MESSAGE /\ x.len < 0 /\ x.len \in Int
  BY DEF WAITING_MESSAGE, WAITING_BODY_SIZE_1, Contexts
<1>3. /\ n \in Nat /\ n + 1 \in 1 .. Len(ms) /\ m \in Frames /\ x.call = m.call
      /\ q \in Nat /\ b \in Nat /\ g \in Nat /\ Len(e) = 1 + LengthBytes + q
  BY <1>1, <1>2, ReaderIn
<1>4. Len(f) = LengthBytes /\ b + g = LengthBytes /\ n < Len(ms)
  <2>1. n < Len(ms)
    BY <1>3
  <2>2. QED
    BY <2>1 DEF Joins
<1> HIDE DEF n, m, e, b, g, q
<1>5. Codes(e, m) /\ q \in 0 .. Byte - 1
  BY <1>3, EncodeIs, FrameIs DEF e, q
<1>6. 1 + b + g <= Len(e) /\ 1 + b + g = 1 + LengthBytes
  BY <1>3, <1>4, Widths
<1>7. /\ Lies(f, e, 1)
      /\ \E w \in Seq(Bytes), off \in [0 .. Len(ms) -> Nat] :
               Spans(ms, w, off, off[n] + (1 + b + g), r, o, up, ti)
  <2>1. 1 = IF x.len < 0 THEN 1 ELSE 1 + LengthBytes
    BY <1>2
  <2>2. 1 + Len(x.buf) + Len(y) <= Len(Encode(ms[Len(hd) + 1]))
    BY <1>6 DEF b, g, m, n, e
  <2>3. QED
    BY <1>2, <2>1, <2>2, Inside DEF b, g, m, n, e
<1>8. LittleEndian(f) = q
  <2>1. ASSUME NEW j \in 2 .. Len(f) PROVE f[j] = 0
    <3>1. j \in 1 .. Len(f) /\ 1 + j \in 3 .. LengthBytes + 1
      BY <1>4, Widths
    <3>2. f[j] = e[1 + j] /\ e[1 + j] = 0
      BY <1>5, <1>7, <3>1 DEF Codes, Lies
    <3>3. QED
      BY <3>2
  <2>2. f[1] = q
    <3>1. f[1] = e[1 + 1] /\ e[2] = q
      <4>1. 1 \in 1 .. Len(f)
        BY <1>4, Widths
      <4>2. QED
        BY <1>5, <1>7, <4>1 DEF Codes, Lies, q
    <3>2. QED
      BY <3>1
  <2>3. Len(f) >= 1
    BY <1>4, Widths
  <2>4. QED
    BY <2>1, <2>2, <2>3, LittleEndianIs
<1>9. z.len = q /\ z.len # WAITING_MESSAGE /\ ~(z.len < 0)
  BY <1>3, <1>8 DEF WAITING_MESSAGE
<1>10. Taken(z) = 1 + b + g
  BY <1>6, <1>9, Widths DEF Taken
<1>11. InBody(z, m)
  <2> DEFINE p == <<>>
             le == Len(e)
  <2>a. Len(p) = 0
    OBVIOUS
  <2>b. le = 1 + LengthBytes + q
    BY <1>3
  <2> HIDE DEF p, le
  <2>c. 1 + LengthBytes + 0 <= le
    BY <1>3, <2>b, Widths
  <2>1. Lies(p, e, 1 + LengthBytes)
    BY <2>a, <2>c DEF Lies, le
  <2>2. Lies(<<>>, e, 1 + LengthBytes)
    BY <2>1 DEF p
  <2>3. QED
    BY <1>9, <2>2 DEF InBody, e, q
<1>12. Reader(ms, hd, z)
  BY <1>1, <1>3, <1>4, <1>11 DEF Reader, n, m
<1>13. Carried(ms, hd, z, r, o, up, ti)
  BY <1>7, <1>10, <1>12 DEF Carried, n
<1>14. QED
  BY <1>5, <1>8, <1>13

\* The body is complete: what is handled is the next message that was sent.
Reads(ms, hd, m, z, r, o, up, ti) ==
    /\ Len(hd) + 1 \in 1 .. Len(ms) /\ m = ms[Len(hd) + 1]
    /\ ti \/ Len(hd) + 1 < Len(ms) => Carried(ms, Append(hd, m), z, r, o, up, ti)

LEMMA BodyRead ==
  ASSUME NEW ms \in Seq(Frames), NEW hd \in Seq(Frames), NEW x \in Contexts, NEW z,
         NEW rest \in Seq(Bytes), NEW y \in Seq(Bytes), NEW r \in Seq(Bytes), Joins(rest, y, r),
         NEW o \in Seq(Bytes), NEW up, NEW ti, Carried(ms, hd, x, rest, o, up, ti),
         x.len >= 0, Len(x.buf) + Len(y) = x.len,
         NEW f \in Seq(Bytes), Joins(f, x.buf, y),
         z.len = WAITING_MESSAGE, z.buf = <<>>
  PROVE  Reads(ms, hd, [call |-> x.call, body |-> f], z, r, o, up, ti)
<1> DEFINE n == Len(hd)
           k == n + 1
           m == ms[n + 1]
           e == Encode(m)
           b == Len(x.buf)
           g == Len(y)
           q == Len(m.body)
           d == 1 + LengthBytes
           ns == Append(hd, m)
<1>1. Reader(ms, hd, x)
  BY DEF Carried
<1>2. x.len # WAITING_MESSAGE /\ ~(x.len < 0) /\ x.len \in Int
  BY DEF WAITING_MESSAGE, Contexts
<1>3. /\ n \in Nat /\ k \in 1 .. Len(ms) /\ m \in Frames /\ x.call = m.call
      /\ x.len = q /\ q \in Nat /\ b \in Nat /\ g \in Nat /\ Len(e) = d + q
  BY <1>1, <1>2, ReaderIn
<1>4. Len(f) = q /\ b + g = q /\ k - 1 = n /\ m = ms[k] /\ n < k /\ k = n + 1
  BY <1>3 DEF Joins
<1>5. d \in Nat
  BY Widths
<1>6. d = IF x.len < 0 THEN 1 ELSE 1 + LengthBytes
  BY <1>2
<1>7. ns \in Seq(Frames) /\ Len(ns) = k /\ ns[k] = m /\ \A i \in 1 .. n : ns[i] = hd[i]
  <2>1. ns \in Seq(Frames) /\ Len(ns) = Len(hd) + 1 /\ ns[Len(hd) + 1] = m
        /\ \A i \in 1 .. Len(hd) : ns[i] = hd[i]
    <3> HIDE DEF m
    <3> QED BY <1>3, AppendProperties
  <2>2. QED
    BY <2>1
<1> HIDE DEF n, k, m, e, b, g, q, d, ns
<1>8. Codes(e, m) /\ e \in Seq(Bytes) /\ m = [call |-> m.call, body |-> m.body] /\ m.body \in Seq(Bytes)
  BY <1>3, EncodeIs, FrameIs DEF e
<1>9. d + b + g <= Len(e) /\ d + b + g = Len(e)
  <2>1. b \in Nat /\ g \in Nat /\ q \in Nat /\ d \in Nat /\ b + g = q
    BY <1>3, <1>4, <1>5
  <2>2. d + b + g = d + q /\ d + q <= d + q
    BY ONLY <2>1
  <2>3. Len(e) = d + q
    BY <1>3
  <2>4. QED
    BY <2>2, <2>3
<1>10. /\ Lies(f, e, d)
       /\ \E w \in Seq(Bytes), off \in [0 .. Len(ms) -> Nat] :
               Spans(ms, w, off, off[n] + (d + b + g), r, o, up, ti)
  <2>1. d + Len(x.buf) + Len(y) <= Len(Encode(ms[Len(hd) + 1]))
    BY <1>9 DEF b, g, m, n, e
  <2>2. QED
    BY <1>2, <1>5, <1>6, <2>1, Inside DEF b, g, m, n, e
<1>11. f = m.body
  <2>1. ASSUME NEW i \in 1 .. Len(f) PROVE f[i] = m.body[i]
    <3>1. f[i] = e[d + i]
      BY <1>10 DEF Lies
    <3>2. e[1 + LengthBytes + i] = m.body[i]
      BY <1>4, <1>8 DEF Codes, q
    <3>3. QED
      BY <3>1, <3>2 DEF d
  <2>2. Len(f) = Len(m.body)
    BY <1>4 DEF q
  <2>3. QED
    BY <1>8, <2>1, <2>2, SeqEqual
<1>12. [call |-> x.call, body |-> f] = m
  BY <1>3, <1>8, <1>11
<1>13. PICK w \in Seq(Bytes), off \in [0 .. Len(ms) -> Nat] :
               Spans(ms, w, off, off[n] + (d + b + g), r, o, up, ti)
  BY <1>10
<1>14. off[k] = off[n] + (d + b + g) /\ off[k] \in Nat
  <2>1. off[k] = off[k - 1] + Len(Encode(ms[k]))
    BY <1>3, <1>13 DEF Spans, Wire
  <2>2. k \in 0 .. Len(ms)
    BY <1>3
  <2>3. QED
    BY <1>4, <1>9, <2>1, <2>2 DEF e
<1>15. Taken(z) = 0 /\ off[k] + 0 = off[k]
  BY <1>14 DEF Taken
<1>16. Reader(ms, ns, z)
  <2>1. k <= Len(ms) /\ \A i \in 1 .. n : hd[i] = ms[i]
    BY <1>1, <1>3 DEF Reader, n
  <2>2. \A i \in 1 .. k : i = k \/ i \in 1 .. n
    BY <1>3, <1>4
  <2>3. \A i \in 1 .. k : ns[i] = ms[i]
    BY <1>4, <1>7, <2>1, <2>2
  <2>4. QED
    BY <1>7, <2>1, <2>3 DEF Reader
<1>17. Spans(ms, w, off, off[Len(ns)] + Taken(z), r, o, up, ti)
  BY <1>7, <1>13, <1>14, <1>15
<1>18. ti \/ k < Len(ms) => Carried(ms, ns, z, r, o, up, ti)
  BY <1>7, <1>16, <1>17 DEF Carried
<1>19. k = Len(hd) + 1 /\ ns = Append(hd, m)
  BY DEF k, n, ns
<1>20. QED
  BY <1>3, <1>4, <1>12, <1>18, <1>19 DEF Reads

\* The offsets of the messages rise.
LEMMA OffsetsRise ==
  ASSUME NEW ms \in Seq(Frames), NEW w \in Seq(Bytes), NEW off \in [0 .. Len(ms) -> Nat],
         NEW ti, Wire(ms, w, off, ti), NEW n \in 0 .. Len(ms), NEW k \in 0 .. n
  PROVE  off[k] <= off[n]
<1> DEFINE N == Len(ms)
           T == {i \in 0 .. n : off[n - i] > off[n]}
<1>1. /\ N \in Nat /\ n \in 0 .. N /\ off \in [0 .. N -> Nat]
      /\ \A j \in 1 .. N : off[j] = off[j - 1] + Len(Encode(ms[j])) /\ Len(Encode(ms[j])) \in Nat
  <2>1. ASSUME NEW j \in 1 .. N PROVE Len(Encode(ms[j])) \in Nat
    <3>1. ms[j] \in Frames
      OBVIOUS
    <3>2. Encode(ms[j]) \in Seq(Bytes)
      BY <3>1, EncodeIs
    <3>3. QED
      BY <3>2
  <2>2. QED
    BY <2>1 DEF Wire
<1> HIDE DEF N
<1>2. \A j \in 1 .. N : off[j - 1] <= off[j]
  <2>1. ASSUME NEW j \in 1 .. N PROVE off[j - 1] <= off[j]
    <3>1. j - 1 \in 0 .. N /\ j \in 0 .. N
      BY <1>1
    <3>2. QED
      BY <1>1, <3>1
  <2>2. QED
    BY <2>1
<1>3. ASSUME T # {} PROVE FALSE
  <2>1. T \subseteq Nat
    BY <1>1
  <2>2. PICK i \in T : \A j \in T : i <= j
    <3> HIDE DEF T
    <3> QED BY <1>3, <2>1, LeastNumber
  <2>3. i \in 0 .. n /\ off[n - i] > off[n]
    OBVIOUS
  <2>4. i # 0
    <3>1. CASE i = 0
      <4>1. n - i = n /\ off[n] \in Nat
        BY <1>1, <3>1
      <4>2. QED
        BY <2>3, <4>1
    <3>2. QED
      BY <3>1
  <2>5. i - 1 \in 0 .. n /\ i - 1 < i /\ n - (i - 1) \in 1 .. N /\ (n - (i - 1)) - 1 = n - i
        /\ n - (i - 1) \in 0 .. N /\ n - i \in 0 .. N
    BY <1>1, <2>3, <2>4
  <2>6. i - 1 \notin T
    <3> HIDE DEF T
    <3>1. i \in Nat
      BY <1>1, <2>3
    <3>2. QED
      BY <2>2, <2>5, <3>1
  <2>7. ~ (off[n - (i - 1)] > off[n])
    BY <2>5, <2>6
  <2>8. off[n - i] <= off[n - (i - 1)]
    BY <1>2, <2>5
  <2>9. off[n - i] \in Nat /\ off[n - (i - 1)] \in Nat /\ off[n] \in Nat
    BY <1>1, <2>5
  <2>10. QED
    BY <2>3, <2>7, <2>8, <2>9
<1>4. n - k \in 0 .. n /\ n - (n - k) = k /\ off[k] \in Nat /\ off[n] \in Nat
  BY <1>1
<1>5. ~ (off[n - (n - k)] > off[n])
  BY <1>3, <1>4
<1>6. QED
  BY <1>4, <1>5

\* What is written behind the last message.
LEMMA Trail ==
  ASSUME NEW ms \in Seq(Frames), NEW hd \in Seq(Frames), NEW x \in Contexts, NEW rest \in Seq(Bytes),
         NEW u \in Seq(Bytes), Carried(ms, hd, x, rest, <<>>, TRUE, FALSE)
  PROVE  Carried(ms, hd, x, rest \o u, <<>>, TRUE, FALSE)
<1>1. PICK w \in Seq(Bytes), off \in [0 .. Len(ms) -> Nat] :
         Spans(ms, w, off, off[Len(hd)] + Taken(x), rest, <<>>, TRUE, FALSE)
  BY DEF Carried
<1> DEFINE c == off[Len(hd)] + Taken(x)
           r == rest \o u
           v == w \o u
<1>2. c \in Nat
  BY PlaceIs DEF Carried
<1>3. r \in Seq(Bytes) /\ Joins(r, rest, u) /\ v \in Seq(Bytes) /\ Joins(v, w, u)
  BY Joint
<1>4. Wire(ms, w, off, FALSE) /\ Lies(rest, w, c) /\ c + Len(rest) + 0 = Len(w)
  <2>1. Len(<<>>) = 0
    OBVIOUS
  <2>2. QED
    BY <1>1, <2>1 DEF Spans
<1>5. Wire(ms, v, off, FALSE)
  <2> DEFINE N == Len(ms)
  <2>1. /\ off[0] = 0 /\ \A k \in 0 .. N : off[k] <= Len(w)
        /\ \A k \in 1 .. N :
             /\ off[k] = off[k - 1] + Len(Encode(ms[k]))
             /\ \A j \in 1 .. Len(Encode(ms[k])) : w[off[k - 1] + j] = Encode(ms[k])[j]
    BY <1>4 DEF Wire
  <2>2. N \in Nat /\ \A k \in 1 .. N : Len(Encode(ms[k])) \in Nat
    <3>1. ASSUME NEW k \in 1 .. N PROVE Len(Encode(ms[k])) \in Nat
      <4>1. ms[k] \in Frames
        OBVIOUS
      <4>2. Encode(ms[k]) \in Seq(Bytes)
        BY <4>1, EncodeIs
      <4>3. QED
        BY <4>2
    <3>2. QED
      BY <3>1
  <2> HIDE DEF N, v
  <2>3. Len(v) = Len(w) + Len(u) /\ Len(w) \in Nat /\ Len(u) \in Nat
    BY <1>3 DEF Joins
  <2>4. ASSUME NEW k \in 0 .. N PROVE off[k] <= Len(v)
    <3>1. off[k] \in Nat /\ off[k] <= Len(w)
      BY <2>1 DEF N
    <3>2. QED
      BY <2>3, <3>1
  <2>5. ASSUME NEW k \in 1 .. N, NEW j \in 1 .. Len(Encode(ms[k]))
        PROVE  v[off[k - 1] + j] = Encode(ms[k])[j]
    <3>1. k - 1 \in 0 .. N /\ k \in 0 .. N
      BY <2>2
    <3>2. off[k - 1] \in Nat /\ off[k] \in Nat /\ off[k] <= Len(w) /\ off[k] = off[k - 1] + Len(Encode(ms[k]))
      BY <2>1, <3>1 DEF N
    <3>3. off[k - 1] + j \in 1 .. Len(w)
      BY <2>2, <2>3, <3>2
    <3>4. v[off[k - 1] + j] = w[off[k - 1] + j]
      BY <1>3, <3>3 DEF Joins
    <3>5. QED
      BY <2>1, <3>4
  <2>6. QED
    BY <2>1, <2>4, <2>5 DEF Wire, N
<1> HIDE DEF c, r, v
<1> DEFINE lw == Len(w)
           lr == Len(rest)
           lu == Len(u)
<1>6. /\ c \in Nat /\ lw \in Nat /\ lr \in Nat /\ lu \in Nat /\ c + lr = lw
      /\ Len(r) = lr + lu /\ Len(v) = lw + lu
  BY <1>2, <1>3, <1>4 DEF Joins
<1> HIDE DEF lw, lr, lu
<1>7. ASSUME NEW i \in 1 .. Len(r) PROVE r[i] = v[c + i]
  <2>1. CASE i <= lr
    <3>1. i \in 1 .. lr /\ c + i \in 1 .. lw
      BY <1>6, <2>1
    <3>2. r[i] = rest[i] /\ rest[i] = w[c + i] /\ w[c + i] = v[c + i]
      BY <1>3, <1>4, <3>1 DEF Joins, Lies, lr, lw
    <3>3. QED
      BY <3>2
  <2>2. CASE i > lr
    <3> DEFINE j == i - lr
    <3>1. j \in 1 .. lu /\ i = lr + j /\ c + i = lw + j
      BY <1>6, <2>2
    <3> HIDE DEF j
    <3>2. r[lr + j] = u[j] /\ v[lw + j] = u[j]
      BY <1>3, <3>1 DEF Joins, lr, lu, lw
    <3>3. QED
      BY <3>1, <3>2
  <2>3. QED
    BY <1>6, <2>1, <2>2
<1>8. c + Len(r) + Len(<<>>) = Len(v) /\ c + Len(r) <= Len(v)
  <2>1. Len(<<>>) = 0
    OBVIOUS
  <2>2. QED
    BY <1>6, <2>1
<1>9. Lies(r, v, c) /\ Lies(<<>>, v, c + Len(r))
  <2>1. Len(<<>>) = 0
    OBVIOUS
  <2>2. c + Len(r) + 0 <= Len(v)
    BY <1>6
  <2>3. QED
    BY <1>7, <1>8, <2>1, <2>2 DEF Lies
<1>10. Spans(ms, v, off, c, r, <<>>, TRUE, FALSE)
  BY <1>5, <1>8, <1>9 DEF Spans
<1>11. Reader(ms, hd, x) /\ Len(hd) < Len(ms) /\ v \in Seq(Bytes)
  BY <1>3 DEF Carried, v
<1>12. QED
  BY <1>10, <1>11 DEF Carried, c, r

\* A message of which the body is owed, and one whose body is what comes instead.
Alike(a, g) == a.call = g.call /\ Len(a.body) = Len(g.body) /\ Len(a.body) = 1 + LengthBytes

LEMMA AlikeIs ==
  ASSUME NEW a \in Frames, NEW g \in Frames, Alike(a, g)
  PROVE  /\ Len(Encode(a)) = 1 + LengthBytes + (1 + LengthBytes) /\ Len(Encode(g)) = Len(Encode(a))
         /\ \A j \in 1 .. 1 + LengthBytes : Encode(a)[j] = Encode(g)[j]
         /\ \A x \in Contexts : InLength(x, a) => InLength(x, g)
<1>1. Codes(Encode(a), a) /\ Codes(Encode(g), g)
  BY EncodeIs
<1>2. Len(Encode(a)) = 1 + LengthBytes + (1 + LengthBytes) /\ Len(Encode(g)) = Len(Encode(a))
  BY <1>1 DEF Codes, Alike
<1>3. ASSUME NEW j \in 1 .. 1 + LengthBytes PROVE Encode(a)[j] = Encode(g)[j]
  <2>1. j = 1 \/ j = 2 \/ j \in 3 .. LengthBytes + 1
    BY Widths
  <2>2. QED
    BY <1>1, <2>1 DEF Codes, Alike
<1>4. ASSUME NEW x \in Contexts, InLength(x, a) PROVE InLength(x, g)
  <2>1. /\ x.len = -2 - Len(x.buf) /\ Len(x.buf) < LengthBytes /\ Len(x.buf) \in Nat
        /\ 1 + Len(x.buf) <= Len(Encode(a)) /\ \A i \in 1 .. Len(x.buf) : x.buf[i] = Encode(a)[1 + i]
    BY <1>4 DEF InLength, Lies, Contexts
  <2>2. ASSUME NEW i \in 1 .. Len(x.buf) PROVE x.buf[i] = Encode(g)[1 + i]
    <3>1. 1 + i \in 1 .. 1 + LengthBytes
      BY <2>1, Widths
    <3>2. QED
      BY <1>3, <2>1, <3>1
  <2>3. QED
    BY <1>2, <2>1, <2>2 DEF InLength, Lies
<1>5. QED
  BY <1>2, <1>3, <1>4

\* A message comes into the middle of one whose body is owed.
LEMMA Tear ==
  ASSUME NEW q \in Seq(Frames), NEW a \in Frames, NEW g \in Frames, NEW m \in Frames,
         NEW hd \in Seq(Frames), NEW x \in Contexts, NEW rest \in Seq(Bytes),
         Alike(a, g), g.body = Header(m),
         Carried(Append(q, a), hd, x, rest, a.body, TRUE, TRUE)
  PROVE  Carried(Append(q, g), hd, x, rest \o Encode(m), <<>>, TRUE, FALSE)
<1> DEFINE ms == Append(q, a)
           ns == Append(q, g)
           u == Encode(m)
           ea == Encode(a)
           eg == Encode(g)
           N == Len(q)
           L == 1 + LengthBytes
           n == Len(hd)
<1>1. /\ N \in Nat /\ n \in Nat /\ L \in Nat /\ L >= 1
      /\ ms \in Seq(Frames) /\ Len(ms) = N + 1 /\ ms[N + 1] = a
      /\ ns \in Seq(Frames) /\ Len(ns) = N + 1 /\ ns[N + 1] = g
      /\ \A k \in 1 .. N : ms[k] = q[k] /\ ns[k] = q[k]
  BY AppendProperties, Widths
<1>2. /\ Len(ea) = L + L /\ Len(eg) = L + L /\ Len(a.body) = L /\ Len(g.body) = L /\ a.call = g.call
      /\ \A j \in 1 .. L : ea[j] = eg[j]
      /\ InLength(x, a) => InLength(x, g)
  BY AlikeIs DEF Alike
<1>3. /\ u \in Seq(Bytes) /\ Joins(u, Header(m), m.body) /\ Len(Header(m)) = L /\ Len(m.body) \in Nat
  <2>1. u \in Seq(Bytes) /\ u = Header(m) \o m.body /\ Header(m) \in Seq(Bytes) /\ m.body \in Seq(Bytes)
        /\ Len(Header(m)) = L
    BY EncodeIs, HeaderIs, FrameIs
  <2>2. Joins(Header(m) \o m.body, Header(m), m.body)
    BY <2>1, Joint
  <2>3. QED
    BY <2>1, <2>2
<1>4. \A j \in 1 .. L : eg[L + j] = u[j]
  <2>1. Codes(eg, g)
    BY EncodeIs
  <2>2. \A j \in 1 .. L : eg[L + j] = g.body[j]
    BY <1>2, <2>1 DEF Codes
  <2>3. \A j \in 1 .. L : u[j] = Header(m)[j]
    BY <1>3 DEF Joins
  <2>4. QED
    BY <2>2, <2>3
<1>5. PICK w \in Seq(Bytes), off \in [0 .. Len(ms) -> Nat] :
         Spans(ms, w, off, off[n] + Taken(x), rest, a.body, TRUE, TRUE)
  BY DEF Carried
<1> DEFINE c == off[n] + Taken(x)
           p == off[N] + L
           lw == Len(w)
           lr == Len(rest)
           lu == Len(u)
<1>6. Reader(ms, hd, x) /\ c \in Nat /\ n \in 0 .. N + 1
  <2>1. Reader(ms, hd, x)
    BY DEF Carried
  <2>2. n \in 0 .. Len(ms) /\ c \in Nat
    BY <1>1, <2>1, PlaceIs
  <2>3. QED
    BY <1>1, <2>1, <2>2
<1>7. /\ Wire(ms, w, off, TRUE) /\ Lies(rest, w, c) /\ c + lr + Len(a.body) = lw
  BY <1>5 DEF Spans
<1> HIDE DEF ms, ns, u, ea, eg, N, L, n
<1>8. /\ off[0] = 0 /\ lw = off[N + 1] /\ off \in [0 .. N + 1 -> Nat]
      /\ \A k \in 0 .. N + 1 : off[k] <= lw
      /\ \A k \in 1 .. N + 1 :
           /\ off[k] = off[k - 1] + Len(Encode(ms[k]))
           /\ \A j \in 1 .. Len(Encode(ms[k])) : w[off[k - 1] + j] = Encode(ms[k])[j]
  BY <1>1, <1>7 DEF Wire
<1>9. /\ off[N] \in Nat /\ off[N + 1] = off[N] + Len(ea)
      /\ \A j \in 1 .. Len(ea) : w[off[N] + j] = ea[j]
  <2>1. N \in 0 .. N + 1 /\ N + 1 \in 1 .. N + 1 /\ (N + 1) - 1 = N
    BY <1>1
  <2>2. Encode(ms[N + 1]) = ea
    BY <1>1 DEF ea
  <2>3. QED
    BY <1>8, <2>1, <2>2
<1>10. /\ p \in Nat /\ c + lr = p /\ lw = p + L /\ lr \in Nat /\ lu \in Nat /\ lw \in Nat /\ c \in Nat
       /\ lu >= L /\ p = off[N] + L
  <2>1. off[N] \in Nat /\ L \in Nat /\ lw = off[N] + (L + L) /\ c + lr + L = lw /\ c \in Nat /\ lr \in Nat
    <3>1. Len(a.body) = L /\ Len(ea) = L + L /\ lr \in Nat
      BY <1>2
    <3>2. QED
      BY <1>1, <1>6, <1>7, <1>8, <1>9, <3>1
  <2>2. lu \in Nat /\ lu >= L
    <3> DEFINE lm == Len(m.body)
    <3>1. lu = L + lm /\ lm \in Nat /\ L \in Nat
      BY <1>1, <1>3 DEF Joins
    <3> HIDE DEF lm, lu
    <3>2. QED
      BY <3>1
  <2>3. p \in Nat /\ c + lr = p /\ lw = p + L
    <3> DEFINE oN == off[N]
    <3>1. oN \in Nat /\ L \in Nat /\ lw = oN + (L + L) /\ c + lr + L = lw /\ c \in Nat /\ lr \in Nat
          /\ p = oN + L
      BY <2>1
    <3> HIDE DEF oN, p, c, lr, lw, lu
    <3>2. QED
      BY ONLY <3>1
  <2>4. QED
    BY <2>1, <2>2, <2>3
<1>11. n \in 0 .. N
  <2>1. ASSUME n = N + 1 PROVE FALSE
    <3>1. c = lw + Taken(x) /\ Taken(x) \in Nat
      BY <1>8, <2>1, TakenIs
    <3>2. c + lr = p /\ lw = p + L /\ L >= 1 /\ L \in Nat /\ p \in Nat /\ lr \in Nat /\ c \in Nat
      BY <1>1, <1>10
    <3> DEFINE t == Taken(x)
    <3>3. c = lw + t /\ t \in Nat
      BY <3>1
    <3> HIDE DEF c, lw, lr, p, t
    <3>4. QED
      BY ONLY <3>2, <3>3
  <2>2. QED
    BY <1>1, <1>6, <2>1
<1> DEFINE s == SubSeq(w, 1, p)
           v == s \o u
           r == rest \o u
<1> HIDE DEF p
<1>12. /\ v \in Seq(Bytes) /\ Joins(v, s, u) /\ Len(s) = p /\ \A i \in 1 .. p : s[i] = w[i]
       /\ r \in Seq(Bytes) /\ Joins(r, rest, u)
  <2>1. p <= Len(w) /\ p \in Nat
    BY <1>1, <1>10
  <2>2. s \in Seq(Bytes) /\ Len(s) = p /\ \A i \in 1 .. p : s[i] = w[i]
    BY <2>1
  <2>3. QED
    BY <1>3, <2>2, Joint
<1> HIDE DEF s, v, r
<1>13. /\ Len(v) = p + lu /\ Len(r) = lr + lu
       /\ \A i \in 1 .. p : v[i] = w[i]
       /\ \A i \in 1 .. lu : v[p + i] = u[i]
       /\ \A i \in 1 .. lr : r[i] = rest[i]
       /\ \A i \in 1 .. lu : r[lr + i] = u[i]
  BY <1>12 DEF Joins
<1> HIDE DEF lu, lr, lw, c
<1>14. ASSUME NEW k \in 0 .. N PROVE off[k] <= off[N] /\ off[k] \in Nat
  <2>1. N \in 0 .. Len(ms) /\ ms \in Seq(Frames) /\ off \in [0 .. Len(ms) -> Nat]
    BY <1>1, <1>8
  <2>2. Wire(ms, w, off, TRUE)
    BY <1>7
  <2>3. off[k] <= off[N]
    BY <2>1, <2>2, OffsetsRise
  <2>4. k \in 0 .. N + 1
    BY <1>1
  <2>5. QED
    BY <1>8, <2>3, <2>4
<1>15. ASSUME NEW k \in 1 .. N + 1
       PROVE  /\ off[k] = off[k - 1] + Len(Encode(ns[k]))
              /\ \A j \in 1 .. Len(Encode(ns[k])) : v[off[k - 1] + j] = Encode(ns[k])[j]
  <2>1. CASE k = N + 1
    <3>1. k - 1 = N /\ Encode(ns[k]) = eg /\ off[k] = off[k - 1] + Len(eg)
      BY <1>1, <1>2, <1>9, <2>1 DEF eg
    <3>2. ASSUME NEW j \in 1 .. Len(eg) PROVE v[off[N] + j] = eg[j]
      <4>1. CASE j <= L
        <5>1. j \in 1 .. L /\ j \in 1 .. Len(ea) /\ off[N] + j \in 1 .. p
          <6> DEFINE b == off[N]
                     le == Len(ea)
          <6>1. b \in Nat /\ L \in Nat /\ p = b + L /\ le = L + L /\ j \in 1 .. L + L /\ j <= L
            BY <1>1, <1>2, <1>9, <1>10, <4>1
          <6> HIDE DEF b, le
          <6>2. j \in 1 .. L /\ j \in 1 .. le /\ b + j \in 1 .. p
            BY ONLY <6>1
          <6>3. QED
            BY <6>2 DEF b, le
        <5>2. QED
          BY <1>2, <1>9, <1>13, <5>1
      <4>2. CASE j > L
        <5> DEFINE i == j - L
        <5>1. i \in 1 .. L /\ j = L + i /\ off[N] + j = p + i
          BY <1>1, <1>2, <1>9, <1>10, <4>2
        <5>2. i \in 1 .. lu
          BY <1>1, <1>10, <5>1
        <5> HIDE DEF i
        <5>3. v[p + i] = u[i] /\ eg[L + i] = u[i]
          BY <1>4, <1>13, <5>1, <5>2
        <5>4. QED
          BY <5>1, <5>3
      <4>3. QED
        BY <1>1, <1>2, <4>1, <4>2
    <3>3. QED
      BY <3>1, <3>2
  <2>2. CASE k \in 1 .. N
    <3> DEFINE f == Encode(ms[k])
    <3>1. k - 1 \in 0 .. N /\ k \in 0 .. N /\ ns[k] = ms[k]
      BY <1>1, <2>2
    <3>2. f \in Seq(Bytes)
      <4>1. ms[k] \in Frames
        BY <1>1
      <4>2. QED
        BY <4>1, EncodeIs
    <3>3. /\ off[k] = off[k - 1] + Len(f) /\ \A j \in 1 .. Len(f) : w[off[k - 1] + j] = f[j]
          /\ off[k - 1] \in Nat /\ off[k] \in Nat /\ off[k] <= off[N]
      BY <1>8, <1>14, <3>1
    <3> HIDE DEF f
    <3>4. ASSUME NEW j \in 1 .. Len(f) PROVE v[off[k - 1] + j] = f[j]
      <4>1. off[k - 1] + j \in 1 .. p
        <5> DEFINE lf == Len(f)
                   b == off[k - 1]
        <5>1. b \in Nat /\ lf \in Nat /\ b + lf <= off[N] /\ off[N] \in Nat /\ j \in 1 .. lf
              /\ p = off[N] + L /\ L \in Nat
          BY <1>1, <1>9, <1>10, <3>2, <3>3
        <5> HIDE DEF lf, b
        <5>2. b + j \in 1 .. p
          BY <5>1
        <5>3. QED
          BY <5>2 DEF b
      <4>2. QED
        BY <1>13, <3>3, <4>1
    <3>5. QED
      BY <3>1, <3>3, <3>4 DEF f
  <2>3. QED
    BY <1>1, <2>1, <2>2
<1>16. Wire(ns, v, off, FALSE)
  <2>1. ASSUME NEW k \in 0 .. N + 1 PROVE off[k] <= Len(v)
    <3>1. off[k] <= lw /\ off[k] \in Nat
      BY <1>8
    <3>2. lw <= Len(v)
      BY <1>1, <1>10, <1>13
    <3>3. Len(v) \in Nat
      BY <1>10, <1>13
    <3>4. QED
      BY <1>10, <3>1, <3>2, <3>3
  <2>2. QED
    BY <1>1, <1>8, <1>15, <2>1 DEF Wire
<1>17. ASSUME NEW i \in 1 .. Len(r) PROVE r[i] = v[c + i]
  <2>1. CASE i <= lr
    <3>1. i \in 1 .. lr /\ c + i \in 1 .. p
      BY <1>10, <1>13, <2>1
    <3>2. rest[i] = w[c + i]
      BY <1>7, <3>1 DEF Lies, lr
    <3>3. QED
      BY <1>13, <3>1, <3>2
  <2>2. CASE i > lr
    <3> DEFINE j == i - lr
    <3>0. i \in 1 .. lr + lu
      BY <1>13
    <3>1. j \in 1 .. lu /\ i = lr + j /\ c + i = p + j
      BY <1>10, <2>2, <3>0
    <3> HIDE DEF j
    <3>2. QED
      BY <1>13, <3>1
  <2>3. QED
    BY <1>10, <1>13, <2>1, <2>2
<1>18. Spans(ns, v, off, c, r, <<>>, TRUE, FALSE)
  <2>1. Len(<<>>) = 0
    OBVIOUS
  <2>2. c + Len(r) = Len(v) /\ c + Len(r) + 0 = Len(v) /\ c + Len(r) <= Len(v) /\ c + Len(r) + 0 <= Len(v)
    BY <1>10, <1>13
  <2>3. Lies(r, v, c) /\ Lies(<<>>, v, c + Len(r))
    BY <1>17, <2>1, <2>2 DEF Lies
  <2>4. QED
    BY <1>16, <2>1, <2>2, <2>3 DEF Spans
<1>19. Reader(ns, hd, x)
  <2>1. /\ \A k \in 1 .. n : hd[k] = ms[k]
        /\ \/ x.len = WAITING_MESSAGE /\ x.buf = <<>>
           \/ /\ n < Len(ms) /\ x.call = ms[n + 1].call
              /\ InLength(x, ms[n + 1]) \/ InBody(x, ms[n + 1])
    BY <1>6 DEF Reader, n
  <2>2. \A k \in 1 .. n : hd[k] = ns[k]
    BY <1>1, <1>11, <2>1
  <2>3. n <= Len(ns)
    BY <1>1, <1>11
  <2>4. CASE x.len = WAITING_MESSAGE /\ x.buf = <<>>
    BY <2>2, <2>3, <2>4 DEF Reader, n
  <2>5. CASE /\ n < Len(ms) /\ x.call = ms[n + 1].call
             /\ InLength(x, ms[n + 1]) \/ InBody(x, ms[n + 1])
    <3>1. CASE n < N
      <4>1. n + 1 \in 1 .. N /\ n < Len(ns)
        BY <1>1, <3>1
      <4>2. ms[n + 1] = ns[n + 1]
        BY <1>1, <4>1
      <4>3. QED
        BY <2>2, <2>3, <2>5, <4>1, <4>2 DEF Reader, n
    <3>2. CASE n = N
      <4>1. ms[n + 1] = a /\ ns[n + 1] = g /\ n < Len(ns)
        BY <1>1, <3>2
      <4>2. InLength(x, g) \/ InBody(x, g)
        <5>1. CASE InLength(x, a)
          BY <1>2, <5>1
        <5>2. CASE InBody(x, a)
          <6>1. x.len = L
            BY <1>2, <5>2 DEF InBody
          <6>2. x.len # WAITING_MESSAGE /\ ~(x.len < 0)
            BY <1>1, <6>1 DEF WAITING_MESSAGE
          <6>3. Taken(x) = L + Len(x.buf) /\ Len(x.buf) \in Nat
            BY <6>2 DEF Taken, L, Contexts
          <6>4. c = off[N] + (L + Len(x.buf)) /\ lr \in Nat /\ c + lr = off[N] + L
            BY <1>10, <3>2, <6>3 DEF c
          <6>5. Len(x.buf) = 0
            <7> DEFINE oN == off[N]
                       lb == Len(x.buf)
            <7>1. /\ oN \in Nat /\ L \in Nat /\ lb \in Nat /\ lr \in Nat
                  /\ c = oN + (L + lb) /\ c + lr = oN + L
              BY <1>1, <1>9, <6>3, <6>4
            <7> HIDE DEF oN, lb
            <7>2. lb = 0
              BY ONLY <7>1
            <7>3. QED
              BY <7>2 DEF lb
          <6>6. L + 0 <= L + L
            BY <1>1
          <6>7. Lies(x.buf, Encode(g), L)
            BY <1>2, <6>5, <6>6 DEF Lies, eg
          <6>8. x.len = Len(g.body)
            BY <1>2, <6>1
          <6>9. QED
            BY <6>7, <6>8 DEF InBody, L
        <5>3. QED
          BY <2>5, <4>1, <5>1, <5>2
      <4>3. x.call = g.call
        BY <1>2, <2>5, <4>1
      <4>4. QED
        BY <2>2, <2>3, <4>1, <4>2, <4>3 DEF Reader, n
    <3>3. QED
      BY <1>1, <1>11, <3>1, <3>2
  <2>6. QED
    BY <2>1, <2>4, <2>5
<1>20. Len(hd) < Len(ns) /\ v \in Seq(Bytes) /\ off \in [0 .. Len(ns) -> Nat]
  <2>1. n < Len(ns)
    BY <1>1, <1>11
  <2>2. off \in [0 .. Len(ns) -> Nat]
    BY <1>1, <1>8
  <2>3. QED
    BY <1>12, <2>1, <2>2 DEF n
<1>21. Spans(ns, v, off, off[Len(hd)] + Taken(x), r, <<>>, TRUE, FALSE)
  BY <1>18 DEF c, n
<1>22. Carried(ns, hd, x, r, <<>>, TRUE, FALSE)
  BY <1>19, <1>20, <1>21 DEF Carried
<1>23. QED
  BY <1>22 DEF ns, r, u

---------------------------------------------------------------------------
(* The inductive invariant *)

Joined(h, i, s) == i \in Ids /\ conns[h][i] # None /\ conns[h][i].ctx = s
Temporary(h, i) == Joined(h, i, None)
Remaining(s) == (rx[s].chunk \o net[s].here) \o net[s].flight

\* The messages of s as its reader meets them: the last one is an answer whose
\* body is the header of the message that came into its middle, if one did.
Whole(s) == torn[s] = 0
Garbage(s) == [call |-> API_ANSWER_REQUEST_CONNECTION, body |-> Header(sent[s][torn[s] + 1])]
Script(s) ==
    IF Whole(s) THEN sent[s] ELSE Append(SubSeq(sent[s], 1, torn[s] - 1), Garbage(s))

Logs == sent \in [Sockets -> Seq(Msgs)] /\ handled \in [Sockets -> Seq(Msgs)]

Facing == \A s \in Sockets : net[s] # None => net[s].to = Other(net[s].from)

Untouched ==
    \A s \in Sockets :
       /\ net[s] = None => sent[s] = <<>>
       /\ net[s] = None \/ ~net[s].accepted => rx[s] = Fresh /\ task[s] = Quiet /\ handled[s] = <<>>

Row(h, i) ==
    conns[h][i] # None =>
       /\ conns[h][i].ctx # None =>
             /\ conns[h][i].listed /\ net[conns[h][i].ctx] # None
             /\ net[conns[h][i].ctx].to = h /\ net[conns[h][i].ctx].accepted
       /\ conns[h][i].out # None =>
             /\ conns[h][i].listed /\ net[conns[h][i].out] # None
             /\ net[conns[h][i].out].from = h
Apart(h, i, j) ==
    conns[h][i] # None /\ conns[h][j] # None /\ i # j =>
       /\ conns[h][i].ctx # None => conns[h][i].ctx # conns[h][j].ctx
       /\ conns[h][i].out # None => conns[h][i].out # conns[h][j].out
Table == /\ \A h \in Hives, i \in Ids : Row(h, i)
         /\ \A h \in Hives, i, j \in Ids : Apart(h, i, j)

Answerer(s) ==
    /\ net[s] # None /\ Temporary(net[s].from, task[s].id[1])
    /\ \E i \in Ids : /\ Joined(net[s].to, i, s)
                      /\ task[s].pc \in {"header", "body"} => conns[net[s].to][i].out # None
Words == \A s \in Sockets : task[s] # Quiet => task[s].id = Word(task[s].id[1])
Working == \A s \in Sockets : task[s] # Quiet => Answerer(s)

Names(s, m) ==
    /\ m.call = API_REQUEST_CONNECTION => Temporary(net[s].from, m.body[1])
    /\ m.call = API_ANSWER_REQUEST_CONNECTION => Temporary(net[s].to, m.body[1])
Named == \A s \in Sockets : \A k \in 1 .. Len(sent[s]) : Names(s, sent[s][k])

Tears ==
    \A s \in Sockets :
       ~Whole(s) => torn[s] < Len(sent[s]) /\ sent[s][torn[s] + 1].call = API_ANSWER_REQUEST_PATH

Last(s) == sent[s][Len(sent[s])]
Flows(s, o) == Carried(Script(s), handled[s], rx[s], Remaining(s), o, net[s].up, Whole(s))
Stream(s) ==
    /\ ~Whole(s) \/ (\A r \in Sockets : ~Owes(r, s)) => Flows(s, <<>>)
    /\ Whole(s) => \A r \in Sockets : Owes(r, s) =>
          /\ Flows(s, task[r].id)
          /\ net[s].up => sent[s] # <<>> /\ Last(s) = Answer(r)
Streams == \A s \in Sockets : net[s] # None => Stream(s)

IInv == /\ TypeOK /\ Logs /\ Facing /\ Untouched /\ Table
        /\ Words /\ Working /\ Named /\ Tears /\ Streams

SocketRecords == [from : Hives, to : Hives, flight : Seq(Bytes), here : Seq(Bytes),
                  posted : BOOLEAN, accepted : BOOLEAN, up : BOOLEAN, failed : BOOLEAN]
Amounts == [initiates : Nat, floods : Nat, breaks : Nat, cuts : Nat]

\* Types of one socket and of one connection.
LEMMA SocketIs ==
  ASSUME TypeOK, NEW s \in Sockets
  PROVE  /\ net[s] # None =>
              /\ net[s] \in SocketRecords
              /\ net[s].from \in Hives /\ net[s].to \in Hives
              /\ net[s].flight \in Seq(Bytes) /\ net[s].here \in Seq(Bytes)
         /\ rx[s] \in Contexts /\ rx[s].chunk \in Seq(Bytes) /\ rx[s].buf \in Seq(Bytes)
         /\ task[s].id \in Seq(Bytes) /\ torn[s] \in Nat
<1>1. rx[s] \in [len : -2 - LengthBytes .. Byte - 1, call : Bytes, buf : Seq(Bytes), chunk : Seq(Bytes)]
  BY DEF TypeOK
<1>2. -2 - LengthBytes .. Byte - 1 \subseteq Int
  BY Widths
<1>3. rx[s] \in Contexts
  BY <1>1, <1>2 DEF Contexts
<1>4. task[s] \in [pc : Pcs, id : Seq(Bytes)]
  BY DEF TypeOK
<1>5. net[s] \in {None} \cup SocketRecords
  BY DEF TypeOK, SocketRecords
<1>6. torn[s] \in Nat
  BY DEF TypeOK
<1>7. QED
  BY <1>1, <1>3, <1>4, <1>5, <1>6 DEF SocketRecords

\* The script of a socket.
LEMMA ScriptIs ==
  ASSUME TypeOK, Logs, Tears, NEW s \in Sockets
  PROVE  /\ sent[s] \in Seq(Msgs) /\ handled[s] \in Seq(Msgs)
         /\ sent[s] \in Seq(Frames) /\ handled[s] \in Seq(Frames) /\ Script(s) \in Seq(Frames)
         /\ Whole(s) => Script(s) = sent[s]
         /\ ~Whole(s) =>
               /\ torn[s] \in 1 .. Len(sent[s]) - 1 /\ Len(Script(s)) = torn[s]
               /\ \A k \in 1 .. torn[s] - 1 : Script(s)[k] = sent[s][k]
               /\ Script(s)[torn[s]] = Garbage(s) /\ Garbage(s) \in Frames
               /\ Len(Garbage(s).body) = 1 + LengthBytes /\ Garbage(s).body[2] = FloodSize
               /\ Garbage(s).call = API_ANSWER_REQUEST_CONNECTION
               /\ sent[s][torn[s] + 1] \in Msgs
<1>1. sent[s] \in Seq(Msgs) /\ handled[s] \in Seq(Msgs)
  BY DEF Logs
<1>2. Msgs \subseteq Frames
  BY MessageIs
<1>3. sent[s] \in Seq(Frames) /\ handled[s] \in Seq(Frames)
  BY <1>1, <1>2, SeqMonotonic
<1>4. CASE Whole(s)
  BY <1>1, <1>3, <1>4 DEF Script
<1>5. CASE ~Whole(s)
  <2> DEFINE n == torn[s]
             q == sent[s]
             m == q[n + 1]
             p == SubSeq(q, 1, n - 1)
  <2>1. n \in 1 .. Len(q) - 1 /\ m.call = API_ANSWER_REQUEST_PATH
    <3>1. n \in Nat
      BY SocketIs
    <3>2. n # 0 /\ n < Len(q) /\ m.call = API_ANSWER_REQUEST_PATH
      BY <1>5 DEF Tears, Whole
    <3>3. Len(q) \in Nat
      BY <1>1
    <3> HIDE DEF n, q
    <3>4. n \in 1 .. Len(q) - 1
      BY <3>1, <3>2, <3>3
    <3>5. QED
      BY <3>2, <3>4
  <2>2. m \in Msgs
    <3>1. n + 1 \in 1 .. Len(q)
      BY <2>1
    <3>2. QED
      BY <1>1, <3>1
  <2>3. Len(m.body) = FloodSize
    <3> HIDE DEF m
    <3>1. \E k \in Bytes : m = [call |-> API_ANSWER_REQUEST_PATH, body |-> [j \in 1 .. FloodSize |-> k]]
      BY <2>1, <2>2 DEF Msgs, API_REQUEST_CONNECTION, API_ANSWER_REQUEST_CONNECTION, API_ANSWER_REQUEST_PATH
    <3>2. PICK k \in Bytes : m.body = [j \in 1 .. FloodSize |-> k]
      BY <3>1
    <3>3. QED
      BY <3>2, Widths
  <2>4. /\ Header(m) \in Seq(Bytes) /\ Len(Header(m)) = 1 + LengthBytes /\ Header(m)[2] = FloodSize
    <3> HIDE DEF m
    <3>1. m \in Frames
      BY <1>2, <2>2
    <3>2. QED
      BY <2>3, <3>1, HeaderIs
  <2>5. Garbage(s) = [call |-> API_ANSWER_REQUEST_CONNECTION, body |-> Header(m)]
    BY DEF Garbage
  <2>6. Garbage(s) \in Frames
    BY <2>4, <2>5, Widths DEF Frames, API_ANSWER_REQUEST_CONNECTION
  <2> DEFINE g == Garbage(s)
  <2>7. p \in Seq(Frames) /\ Len(p) = n - 1 /\ \A k \in 1 .. n - 1 : p[k] = q[k]
    <3> HIDE DEF n, q
    <3>1. q \in Seq(Frames)
      BY <1>3 DEF q
    <3>2. QED
      BY <2>1, <3>1
  <2> HIDE DEF p, g
  <2>8. /\ Append(p, g) \in Seq(Frames) /\ Len(Append(p, g)) = Len(p) + 1
        /\ Append(p, g)[Len(p) + 1] = g
        /\ \A k \in 1 .. Len(p) : Append(p, g)[k] = p[k]
    BY <2>6, <2>7, AppendProperties DEF g
  <2>9. Script(s) = Append(p, g)
    BY <1>5 DEF Script, p, g
  <2>10. Len(p) + 1 = n
    BY <2>1, <2>7
  <2>11. /\ Script(s) \in Seq(Frames) /\ Len(Script(s)) = n /\ Script(s)[n] = Garbage(s)
         /\ \A k \in 1 .. n - 1 : Script(s)[k] = q[k]
    BY <2>7, <2>8, <2>9, <2>10 DEF g
  <2>12. Garbage(s).body = Header(m) /\ Garbage(s).call = API_ANSWER_REQUEST_CONNECTION
    BY <2>5
  <2> HIDE DEF n, q, m
  <2>13. QED
    BY <1>1, <1>3, <1>5, <2>1, <2>2, <2>4, <2>6, <2>11, <2>12 DEF n, q, m
<1>6. QED
  BY <1>4, <1>5

\* A reader that has handled no more than was sent and is not at an end.
LEMMA FlowsIn ==
  ASSUME TypeOK, Logs, Tears, NEW s \in Sockets, NEW o, Flows(s, o)
  PROVE  /\ Carried(Script(s), handled[s], rx[s], Remaining(s), o, net[s].up, Whole(s))
         /\ Script(s) \in Seq(Frames) /\ handled[s] \in Seq(Frames) /\ rx[s] \in Contexts
  BY ScriptIs, SocketIs DEF Flows

LEMMA RowIs ==
  ASSUME TypeOK, NEW h \in Hives, NEW i \in Ids, conns[h][i] # None
  PROVE  /\ conns[h][i] \in [ctx : Ends, out : Ends, listed : BOOLEAN]
         /\ conns[h][i].ctx \in Sockets \cup {None} /\ conns[h][i].out \in Sockets \cup {None}
         /\ conns[h][i].listed \in BOOLEAN
  BY DEF TypeOK, Ends

\* CHOOSE of the connection that a socket belongs to.
LEMMA OfSocketIs ==
  ASSUME TypeOK, Table, NEW s \in Sockets, net[s] # None,
         NEW i, Joined(net[s].to, i, s)
  PROVE  OfSocket(s) = i /\ i \in Listed(net[s].to) /\ i \in Ids
<1> DEFINE h == net[s].to
<1>1. h \in Hives /\ s # None
  BY SocketIs, NoneApart
<1>2. i \in Ids /\ conns[h][i] # None /\ conns[h][i].ctx = s
  BY DEF Joined
<1>3. i \in Listed(h)
  BY <1>1, <1>2 DEF Table, Row, Listed
<1>4. ASSUME NEW j \in Listed(h), conns[h][j].ctx = s PROVE j = i
  <2>1. j \in Ids /\ conns[h][j] # None
    BY DEF Listed
  <2>2. QED
    BY <1>1, <1>2, <1>4, <2>1 DEF Table, Apart
<1>5. QED
  BY <1>2, <1>3, <1>4 DEF OfSocket

\* A socket that is served has its connection.
LEMMA ServedIs ==
  ASSUME TypeOK, Table, NEW s \in Sockets, Serves(s)
  PROVE  /\ Joined(net[s].to, OfSocket(s), s) /\ OfSocket(s) \in Ids
         /\ net[s] # None /\ net[s].accepted
<1>1. PICK i \in Listed(net[s].to) : conns[net[s].to][i].ctx = s
  BY DEF Serves
<1>2. Joined(net[s].to, i, s) /\ net[s] # None /\ net[s].accepted
  BY <1>1 DEF Joined, Listed, Serves
<1>3. QED
  BY <1>2, OfSocketIs

\* Two answers are never half written to one socket.
LEMMA OwesOnce ==
  ASSUME TypeOK, Table, NEW s \in Sockets, NEW r \in Sockets, NEW q \in Sockets, Working,
         NEW i, Joined(net[r].to, i, r), conns[net[r].to][i].out = s, net[r] # None,
         Owes(q, s)
  PROVE  q = r
<1>1. net[q] # None
  <2>1. task[q] # Quiet
    BY DEF Owes, Quiet
  <2>2. QED
    BY <2>1 DEF Working, Answerer
<1>2. PICK j \in Ids : Joined(net[q].to, j, q) /\ conns[net[q].to][j].out = s
  BY DEF Owes, Joined
<1>3. net[r].to \in Hives /\ net[q].to \in Hives /\ s # None /\ r # None /\ i \in Ids
  BY <1>1, SocketIs, NoneApart DEF Joined
<1>4. net[r].to = net[s].from /\ net[q].to = net[s].from
  BY <1>2, <1>3 DEF Table, Row, Joined
<1>5. i = j
  BY <1>2, <1>3, <1>4 DEF Table, Apart, Joined
<1>6. QED
  BY <1>2, <1>4, <1>5 DEF Joined

LEMMA Blank == Carried(<<>>, <<>>, Fresh, <<>>, <<>>, TRUE, TRUE)
<1> DEFINE off == [k \in 0 .. Len(<<>>) |-> 0]
<1>1. off \in [0 .. Len(<<>>) -> Nat] /\ off[0] = 0 /\ <<>> \in Seq(Bytes) /\ Len(<<>>) = 0
  OBVIOUS
<1>2. Wire(<<>>, <<>>, off, TRUE)
  BY DEF Wire
<1>3. Taken(Fresh) = 0
  BY DEF Taken, Fresh
<1>4. Spans(<<>>, <<>>, off, off[Len(<<>>)] + Taken(Fresh), <<>>, <<>>, TRUE, TRUE)
  BY <1>2, <1>3 DEF Spans, Lies
<1>5. Reader(<<>>, <<>>, Fresh)
  BY DEF Reader, Fresh
<1>6. QED
  BY <1>1, <1>4, <1>5 DEF Carried

LEMMA Begins == Init => IInv
<1> SUFFICES ASSUME Init PROVE IInv
  OBVIOUS
<1> USE DEF Init
<1>1. TypeOK
  <2>1. Quiet \in [pc : Pcs, id : Seq(Bytes)]
    BY DEF Quiet, Pcs
  <2>2. Fresh \in [len : -2 - LengthBytes .. Byte - 1, call : Bytes, buf : Seq(Bytes), chunk : Seq(Bytes)]
    BY Widths DEF Fresh, Bytes, WAITING_MESSAGE
  <2>3. Len(Fresh.buf) = 0 /\ Len(Fresh.chunk) = 0 /\ Fresh.len < 0
    BY DEF Fresh, WAITING_MESSAGE
  <2>4. left \in [initiates : Nat, floods : Nat, breaks : Nat, cuts : Nat]
    BY ConnectionAssumption
  <2>5. \A s \in Sockets :
          /\ Len(rx[s].buf) <= IF rx[s].len < 0 THEN LengthBytes ELSE rx[s].len
          /\ Len(rx[s].chunk) <= BufferSize
    BY <2>3, Widths
  <2>6. /\ task \in [Sockets -> [pc : Pcs, id : Seq(Bytes)]]
        /\ rx \in [Sockets -> [len : -2 - LengthBytes .. Byte - 1, call : Bytes,
                               buf : Seq(Bytes), chunk : Seq(Bytes)]]
    BY <2>1, <2>2
  <2>7. threads \in [Hives -> 0 .. NetworkThreads] /\ torn \in [Sockets -> Nat]
    BY DEF NetworkThreads
  <2>8. QED
    BY <2>4, <2>5, <2>6, <2>7 DEF TypeOK
<1>2. Logs
  BY DEF Logs
<1>3. QED
  BY <1>1, <1>2 DEF IInv, Facing, Untouched, Table, Row, Apart, Words, Working, Named, Tears, Whole, Streams

---------------------------------------------------------------------------
(* What every kind of step keeps *)

\* A socket that a step does not touch.
LEMMA StreamKept ==
  ASSUME NEW s \in Sockets, Stream(s), net'[s] = net[s], rx'[s] = rx[s],
         sent'[s] = sent[s], handled'[s] = handled[s], torn'[s] = torn[s],
         \A r \in Sockets : Owes(r, s)' <=> Owes(r, s),
         \A r \in Sockets : Owes(r, s) => task'[r].id = task[r].id
  PROVE  Stream(s)'
<1>1. Remaining(s)' = Remaining(s)
  BY DEF Remaining
<1>2. /\ Whole(s)' = Whole(s)
      /\ Script(s)' = Script(s)
      /\ Last(s)' = Last(s)
  BY DEF Whole, Script, Garbage, Last
<1>3. \A r \in Sockets : Owes(r, s) => Answer(r)' = Answer(r)
  BY DEF Answer
<1>4. \A o : Flows(s, o) => Flows(s, o)'
  BY <1>1, <1>2, Zenon DEF Flows
<1>5. QED
  BY <1>2, <1>3, <1>4 DEF Stream

\* What a step does to the bytes of s it does to whatever is owed.
LEMMA StreamMoves ==
  ASSUME TypeOK, NEW s \in Sockets, Stream(s), sent'[s] = sent[s], torn'[s] = torn[s],
         net'[s].up => net[s].up,
         \A r \in Sockets : Owes(r, s)' <=> Owes(r, s),
         \A r \in Sockets : Owes(r, s) => task'[r].id = task[r].id,
         \A o \in Seq(Bytes) : Flows(s, o) => Flows(s, o)'
  PROVE  Stream(s)'
<1>1. /\ Whole(s)' <=> Whole(s)
      /\ Last(s)' = Last(s)
  BY DEF Whole, Last
<1>2. \A r \in Sockets : Owes(r, s) => Answer(r)' = Answer(r)
  BY DEF Answer
<1>3. <<>> \in Seq(Bytes) /\ \A r \in Sockets : task[r].id \in Seq(Bytes)
  BY SocketIs
<1>4. ASSUME NEW r \in Sockets, Whole(s), Owes(r, s)
      PROVE  Flows(s, task[r].id)' /\ (net'[s].up => sent'[s] # <<>> /\ Last(s)' = Answer(r)')
  <2>1. Flows(s, task[r].id)' <=> Carried(Script(s)', handled'[s], rx'[s], Remaining(s)', task'[r].id, net'[s].up, Whole(s)')
    BY DEF Flows
  <2>2. DEFINE o == task[r].id
  <2>3. o \in Seq(Bytes) /\ Flows(s, o)
    BY <1>3, <1>4 DEF Stream
  <2> HIDE DEF o
  <2>4. Carried(Script(s)', handled'[s], rx'[s], Remaining(s)', o, net'[s].up, Whole(s)')
    BY <2>3 DEF Flows
  <2>5. task'[r].id = o
    BY <1>4 DEF o
  <2>6. Flows(s, task[r].id)'
    BY <2>1, <2>4, <2>5
  <2>7. QED
    BY <1>1, <1>2, <1>4, <2>6 DEF Stream
<1>5. QED
  BY <1>1, <1>3, <1>4 DEF Stream

\* A step that only moves bytes of one socket, or reads them.
LEMMA OneSocket ==
  ASSUME IInv, TypeOK', Logs', UNCHANGED <<conns, task, sent, torn>>,
         NEW s \in Sockets, net[s] # None,
         \A t \in Sockets \ {s} : net'[t] = net[t] /\ rx'[t] = rx[t] /\ handled'[t] = handled[t],
         net'[s] # None, net'[s].from = net[s].from, net'[s].to = net[s].to,
         net'[s].accepted = net[s].accepted, net'[s].up => net[s].up,
         net[s].accepted \/ (rx'[s] = rx[s] /\ handled'[s] = handled[s]),
         \A o \in Seq(Bytes) :
            Carried(Script(s), handled[s], rx[s], Remaining(s), o, net[s].up, Whole(s)) =>
            Carried(Script(s), handled'[s], rx'[s], Remaining(s)', o, net'[s].up, Whole(s))
  PROVE  IInv'
<1> USE DEF IInv
<1>1. \A t \in Sockets :
         /\ net'[t] = None <=> net[t] = None
         /\ net[t] # None => /\ net'[t].from = net[t].from /\ net'[t].to = net[t].to
                             /\ net'[t].accepted = net[t].accepted
         /\ net[t] = None \/ ~net[t].accepted => rx'[t] = rx[t] /\ handled'[t] = handled[t]
  OBVIOUS
<1>2. Facing'
  BY <1>1 DEF Facing
<1>3. Untouched'
  BY <1>1 DEF Untouched
<1>4. Table'
  <2>1. ASSUME NEW h \in Hives, NEW i \in Ids PROVE Row(h, i)'
    <3>1. conns[h][i] # None => conns[h][i].ctx \in Sockets \cup {None} /\ conns[h][i].out \in Sockets \cup {None}
      BY RowIs
    <3>2. QED
      BY <1>1, <3>1 DEF Table, Row
  <2>2. QED
    BY <2>1 DEF Table, Apart
<1>5. \A h, i, t : Joined(h, i, t)' <=> Joined(h, i, t)
  BY DEF Joined
<1>11. Words'
  BY DEF Words
<1>12. Tears'
  BY DEF Tears, Whole
<1>6. Working'
  BY <1>1, <1>5 DEF Working, Answerer, Temporary
<1>7. Named'
  BY <1>1, <1>5, SocketIs DEF Named, Names, Temporary
<1>8. \A r, t \in Sockets : Owes(r, t)' <=> Owes(r, t)
  <2>1. ASSUME NEW r \in Sockets, NEW t \in Sockets PROVE Owes(r, t)' <=> Owes(r, t)
    <3>1. CASE net[r] = None
      <4>1. task[r].pc # "body"
        BY <3>1 DEF Untouched, Quiet
      <4>2. QED
        BY <4>1 DEF Owes
    <3>2. CASE net[r] # None
      BY <1>1, <3>2 DEF Owes
    <3>3. QED
      BY <3>1, <3>2
  <2>2. QED
    BY <2>1
<1>9. Streams'
  <2>1. ASSUME NEW t \in Sockets, net'[t] # None PROVE Stream(t)'
    <3>1. Stream(t)
      BY <1>1, <2>1 DEF Streams
    <3>2. CASE t # s
      BY <1>8, <3>1, <3>2, StreamKept
    <3>3. CASE t = s
      <4>1. Script(s)' = Script(s) /\ Whole(s)' = Whole(s)
        BY DEF Script, Garbage, Whole
      <4>2. \A o \in Seq(Bytes) : Flows(s, o) => Flows(s, o)'
        BY <4>1 DEF Flows
      <4>3. QED
        BY <1>8, <3>1, <3>3, <4>2, StreamMoves
    <3>4. QED
      BY <3>2, <3>3
  <2>2. QED
    BY <2>1 DEF Streams
<1>10. QED
  BY <1>2, <1>3, <1>4, <1>6, <1>7, <1>9, <1>11, <1>12

---------------------------------------------------------------------------
(* The network and the reader, one socket at a time *)

---------------------------------------------------------------------------
(* The network and the reader, one socket at a time *)

LEMMA Behind ==
  ASSUME NEW a \in Seq(Bytes), NEW b \in Seq(Bytes), NEW y \in Seq(Bytes), NEW c \in Seq(Bytes),
         Joins(a, y, c)
  PROVE  Joins(a \o b, y, c \o b)
<1> DEFINE ab == a \o b
           cb == c \o b
           ly == Len(y)
           lc == Len(c)
           lb == Len(b)
<1>1. Joins(ab, a, b) /\ Joins(cb, c, b)
  BY Joint
<1> HIDE DEF ab, cb
<1>2. /\ Len(a) = ly + lc /\ Len(ab) = ly + lc + lb /\ Len(cb) = lc + lb
      /\ ly \in Nat /\ lc \in Nat /\ lb \in Nat
  BY <1>1 DEF Joins
<1>3. \A i \in 1 .. ly : ab[i] = y[i]
  BY <1>1, <1>2 DEF Joins
<1>a. /\ \A i \in 1 .. ly + lc : ab[i] = a[i]
      /\ \A i \in 1 .. lb : ab[(ly + lc) + i] = b[i] /\ cb[lc + i] = b[i]
      /\ \A i \in 1 .. lc : cb[i] = c[i] /\ a[ly + i] = c[i]
  BY <1>1, <1>2 DEF Joins
<1> HIDE DEF ly, lc, lb
<1>4. ASSUME NEW i \in 1 .. lc + lb PROVE ab[ly + i] = cb[i]
  <2>1. CASE i <= lc
    <3>1. i \in 1 .. lc /\ ly + i \in 1 .. ly + lc
      BY <1>2, <2>1
    <3>2. QED
      BY <1>a, <3>1
  <2>2. CASE i > lc
    <3> DEFINE j == i - lc
    <3>1. j \in 1 .. lb /\ i = lc + j /\ ly + i = (ly + lc) + j
      BY <1>2, <2>2
    <3> HIDE DEF j
    <3>2. QED
      BY <1>a, <3>1
  <2>3. QED
    BY <1>2, <2>1, <2>2
<1>5. Len(ab) = Len(y) + Len(cb)
  BY <1>2 DEF ly
<1>6. QED
  BY <1>2, <1>3, <1>4, <1>5 DEF Joins, ab, cb, ly

LEMMA Halves ==
  ASSUME NEW a \in Seq(Bytes), NEW n \in 0 .. Len(a)
  PROVE  /\ SubSeq(a, 1, n) \in Seq(Bytes) /\ Len(SubSeq(a, 1, n)) = n
         /\ SubSeq(a, n + 1, Len(a)) \in Seq(Bytes)
         /\ SubSeq(a, 1, n) \o SubSeq(a, n + 1, Len(a)) = a
         /\ Joins(a, SubSeq(a, 1, n), SubSeq(a, n + 1, Len(a)))
<1>1. /\ SubSeq(a, 1, n) \in Seq(Bytes) /\ Len(SubSeq(a, 1, n)) = n
      /\ SubSeq(a, n + 1, Len(a)) \in Seq(Bytes)
  OBVIOUS
<1>2. SubSeq(a, 1, n) \o SubSeq(a, n + 1, Len(a)) = a
  <2>1. 1 \in 1 .. Len(a) + 1 /\ n \in 1 - 1 .. Len(a) /\ Len(a) \in n .. Len(a)
    OBVIOUS
  <2>2. SubSeq(a, 1, n) \o SubSeq(a, n + 1, Len(a)) = SubSeq(a, 1, Len(a))
    BY <2>1, ConcatAdjacentSubSeq
  <2>3. QED
    BY <2>2, SubSeqFull
<1>3. Joins(SubSeq(a, 1, n) \o SubSeq(a, n + 1, Len(a)), SubSeq(a, 1, n), SubSeq(a, n + 1, Len(a)))
  BY <1>1, Joint
<1>4. QED
  BY <1>1, <1>2, <1>3

Associates(a, b, u) == (a \o b) \o u = a \o (b \o u)

LEMMA Associated ==
  ASSUME NEW a \in Seq(Bytes), NEW b \in Seq(Bytes), NEW u \in Seq(Bytes)
  PROVE  Associates(a, b, u)
BY DEF Associates

Regroups(a, b, u, v) == (a \o (b \o u)) \o v = (a \o b) \o (u \o v)

LEMMA Regroup ==
  ASSUME NEW a \in Seq(Bytes), NEW b \in Seq(Bytes), NEW u \in Seq(Bytes), NEW v \in Seq(Bytes)
  PROVE  Regroups(a, b, u, v)
<1> DEFINE ab == a \o b
<1>1. ab \in Seq(Bytes)
  OBVIOUS
<1>2. Associates(a, b, u)
  BY Associated
<1> HIDE DEF ab
<1>3. Associates(ab, u, v)
  BY <1>1, Associated
<1>4. ab \o u = a \o (b \o u)
  BY <1>2 DEF Associates, ab
<1>5. (ab \o u) \o v = ab \o (u \o v)
  BY <1>3 DEF Associates
<1>6. QED
  BY <1>4, <1>5 DEF ab, Regroups

LEMMA RecordMoved ==
  ASSUME NEW p \in SocketRecords, NEW f \in Seq(Bytes), NEW b \in Seq(Bytes)
  PROVE  [p EXCEPT !.here = b, !.flight = f] \in SocketRecords
BY DEF SocketRecords

LEMMA RecordWith ==
  ASSUME NEW p \in SocketRecords, NEW f \in Seq(Bytes), NEW b \in Seq(Bytes),
         NEW e \in BOOLEAN, NEW a \in BOOLEAN, NEW u \in BOOLEAN
  PROVE  /\ [p EXCEPT !.here = b, !.flight = f] \in SocketRecords
         /\ [p EXCEPT !.here = b] \in SocketRecords
         /\ [p EXCEPT !.accepted = a, !.posted = e] \in SocketRecords
         /\ [p EXCEPT !.up = u, !.failed = e, !.flight = f] \in SocketRecords
         /\ [p EXCEPT !.up = u] \in SocketRecords
         /\ [p EXCEPT !.flight = f] \in SocketRecords
         /\ [p EXCEPT !.posted = e] \in SocketRecords
<1> DEFINE Q == Seq(Bytes)
<1>1. /\ p \in [from : Hives, to : Hives, flight : Q, here : Q,
                posted : BOOLEAN, accepted : BOOLEAN, up : BOOLEAN, failed : BOOLEAN]
      /\ f \in Q /\ b \in Q
  BY DEF SocketRecords
<1> HIDE DEF Q
<1>2. QED
  BY <1>1 DEF SocketRecords, Q

LEMMA AmountsLess ==
  ASSUME NEW a \in Amounts
  PROVE  /\ a.initiates > 0 => [a EXCEPT !.initiates = @ - 1] \in Amounts
         /\ a.floods > 0 => [a EXCEPT !.floods = @ - 1] \in Amounts
         /\ a.breaks > 0 => [a EXCEPT !.breaks = @ - 1] \in Amounts
         /\ a.cuts > 0 => [a EXCEPT !.cuts = @ - 1] \in Amounts
  BY DEF Amounts

LEMMA DeliverKeeps ==
  ASSUME IInv, NEW s \in Sockets, Deliver(s)
  PROVE  IInv'
<1> USE DEF IInv
<1>1. net[s] # None
  BY DEF Deliver
<1> DEFINE here == net[s].here
           flight == net[s].flight
<1>2. PICK n \in 1 .. Len(flight) :
         net' = [net EXCEPT ![s].here = @ \o SubSeq(net[s].flight, 1, n),
                            ![s].flight = SubSeq(@, n + 1, Len(@))]
  BY DEF Deliver
<1> DEFINE u == SubSeq(flight, 1, n)
           v == SubSeq(flight, n + 1, Len(flight))
<1>3. /\ conns' = conns /\ rx' = rx /\ task' = task /\ broken' = broken
      /\ sent' = sent /\ handled' = handled /\ UNCHANGED <<threads, stopped, freed, torn>>
  BY DEF Deliver, ends
<1>4. /\ net[s] \in SocketRecords
      /\ here \in Seq(Bytes) /\ flight \in Seq(Bytes) /\ rx[s].chunk \in Seq(Bytes)
  BY <1>1, SocketIs
<1>5. u \in Seq(Bytes) /\ v \in Seq(Bytes) /\ u \o v = flight
  <2>1. n \in 0 .. Len(flight)
    OBVIOUS
  <2>2. QED
    BY <1>4, <2>1, Halves
<1>6. /\ net'[s] = [net[s] EXCEPT !.here = here \o u, !.flight = v]
      /\ \A t \in Sockets \ {s} : net'[t] = net[t]
      /\ net' = [net EXCEPT ![s] = [net[s] EXCEPT !.here = here \o u, !.flight = v]]
  <2>1. net = [t \in Sockets |-> net[t]]
    BY DEF TypeOK
  <2>2. QED
    BY <1>2, <2>1
<1>7. here \o u \in Seq(Bytes)
  BY <1>4, <1>5
<1> HIDE DEF u, v, here, flight
<1>8. net'[s] \in SocketRecords
  <2> DEFINE p == net[s]
             b == here \o u
  <2>1. p \in SocketRecords /\ b \in Seq(Bytes) /\ v \in Seq(Bytes)
        /\ net'[s] = [p EXCEPT !.here = b, !.flight = v]
    BY <1>4, <1>5, <1>6, <1>7
  <2> HIDE DEF p, b
  <2>2. QED
    BY <2>1, RecordMoved
<1>9. left' \in [initiates : Nat, floods : Nat, breaks : Nat, cuts : Nat]
  <2>1. left \in Amounts
    BY DEF TypeOK, Amounts
  <2>2. left' = left \/ (left.cuts > 0 /\ left' = [left EXCEPT !.cuts = @ - 1])
    BY DEF Deliver
  <2>3. QED
    BY <2>1, <2>2, AmountsLess DEF Amounts
<1>10. TypeOK'
  BY <1>3, <1>6, <1>8, <1>9 DEF TypeOK, SocketRecords
<1>11. Logs'
  BY <1>3 DEF Logs
<1>12. Remaining(s)' = Remaining(s)
  <2>1. (rx[s].chunk \o (here \o u)) \o v = (rx[s].chunk \o here) \o flight
    <3> DEFINE c == rx[s].chunk
    <3>1. c \in Seq(Bytes)
      BY <1>4
    <3> HIDE DEF c
    <3>2. (c \o (here \o u)) \o v = (c \o here) \o (u \o v)
      <4>1. Regroups(c, here, u, v)
        BY <1>4, <1>5, <3>1, Regroup
      <4>2. QED
        BY <4>1 DEF Regroups
    <3>3. QED
      BY <1>5, <3>2 DEF c
  <2>2. net'[s].here = here \o u /\ net'[s].flight = v
    BY <1>4, <1>6 DEF SocketRecords
  <2>3. QED
    BY <1>3, <2>1, <2>2 DEF Remaining, here, flight
<1>13. /\ net'[s].from = net[s].from /\ net'[s].to = net[s].to
       /\ net'[s].accepted = net[s].accepted /\ net'[s].up = net[s].up /\ net'[s] # None
  <2>1. net'[s] # None
    BY <1>8, NoneApart DEF SocketRecords
  <2>2. QED
    BY <1>4, <1>6, <2>1 DEF SocketRecords
<1>14. QED
  BY <1>1, <1>3, <1>6, <1>10, <1>11, <1>12, <1>13, OneSocket

LEMMA BreakKeeps ==
  ASSUME IInv, NEW s \in Sockets, Break(s)
  PROVE  IInv'
<1> USE DEF IInv
<1> DEFINE p == [net[s] EXCEPT !.up = FALSE, !.failed = TRUE, !.flight = <<>>]
<1>1. /\ net[s] # None /\ net[s] \in SocketRecords /\ left \in Amounts /\ left.breaks > 0
      /\ conns' = conns /\ rx' = rx /\ task' = task
      /\ sent' = sent /\ handled' = handled
      /\ left' = [left EXCEPT !.breaks = @ - 1] /\ broken' = TRUE
      /\ UNCHANGED <<threads, stopped, freed, torn>>
  BY SocketIs DEF Break, TypeOK, Amounts, ends
<1>2. /\ net' = [t \in Sockets |-> IF t = s THEN p ELSE net[t]]
  BY <1>1 DEF Break, Reset
<1>3. p \in SocketRecords
  <2>1. <<>> \in Seq(Bytes)
    OBVIOUS
  <2>2. QED
    BY <1>1, <2>1, RecordWith
<1>4. left' \in Amounts
  BY <1>1, AmountsLess
<1>5. TypeOK'
  BY <1>1, <1>2, <1>3, <1>4 DEF TypeOK, SocketRecords, Amounts
<1>6. Logs'
  BY <1>1 DEF Logs
<1>7. p.from = net[s].from /\ p.to = net[s].to /\ p.accepted = net[s].accepted /\ p # None
      /\ p.up = FALSE /\ p.flight = <<>> /\ p.here = net[s].here
  BY <1>1, <1>3, NoneApart DEF SocketRecords
<1>8. net'[s] = p /\ \A t \in Sockets \ {s} : net'[t] = net[t]
  BY <1>2
<1> HIDE DEF p
<1> DEFINE r == rx[s].chunk \o net[s].here
<1>9. r \in Seq(Bytes) /\ Remaining(s) = r \o net[s].flight /\ net[s].flight \in Seq(Bytes)
      /\ rx[s] \in Contexts /\ Script(s) \in Seq(Frames) /\ handled[s] \in Seq(Frames)
  BY <1>1, SocketIs, ScriptIs DEF Remaining
<1> HIDE DEF r
<1>10. Remaining(s)' = r
  <2>1. Remaining(s)' = r \o <<>>
    BY <1>1, <1>7, <1>8 DEF Remaining, r
  <2>2. QED
    BY <1>9, <2>1, ConcatEmptySeq
<1>11. Joins(Remaining(s), r, net[s].flight) /\ Remaining(s) \in Seq(Bytes)
  BY <1>9, Joint
<1>12. ASSUME NEW o \in Seq(Bytes), Carried(Script(s), handled[s], rx[s], Remaining(s), o, net[s].up, Whole(s))
       PROVE  Carried(Script(s), handled'[s], rx'[s], Remaining(s)', o, net'[s].up, Whole(s))
  <2>1. Carried(Script(s), handled[s], rx[s], r, o, FALSE, Whole(s))
    BY <1>9, <1>11, <1>12, BrokenOff
  <2>2. QED
    BY <1>1, <1>7, <1>8, <1>10, <2>1
<1>13. QED
  BY <1>1, <1>5, <1>6, <1>7, <1>8, <1>12, OneSocket

ReaderRecords == [len : -2 - LengthBytes .. Byte - 1, call : Bytes, buf : Seq(Bytes),
                  chunk : Seq(Bytes)]
Bounded(x) == /\ Len(x.buf) <= IF x.len < 0 THEN LengthBytes ELSE x.len
              /\ Len(x.chunk) <= BufferSize

LEMMA ReaderIs ==
  ASSUME TypeOK, NEW s \in Sockets
  PROVE  /\ rx[s] \in ReaderRecords /\ Bounded(rx[s])
         /\ rx[s].chunk \in Seq(Bytes) /\ rx[s].buf \in Seq(Bytes)
         /\ rx[s].len \in Int /\ rx[s].call \in Bytes
<1>1. rx[s] \in ReaderRecords /\ Bounded(rx[s])
  BY DEF TypeOK, ReaderRecords, Bounded
<1>2. -2 - LengthBytes .. Byte - 1 \subseteq Int
  BY Widths
<1>3. QED
  BY <1>1, <1>2 DEF ReaderRecords

LEMMA InContexts ==
  ASSUME NEW z \in ReaderRecords
  PROVE  z \in Contexts /\ z.chunk \in Seq(Bytes)
<1>1. -2 - LengthBytes .. Byte - 1 \subseteq Int
  BY Widths
<1>2. QED
  BY <1>1 DEF ReaderRecords, Contexts

Changed(x, l, b, c) == [x EXCEPT !.len = l, !.buf = b, !.chunk = c]

LEMMA ReaderWith ==
  ASSUME NEW x \in ReaderRecords, NEW l, NEW b, NEW c
  PROVE  /\ Changed(x, l, b, c).len = l /\ Changed(x, l, b, c).buf = b
         /\ Changed(x, l, b, c).chunk = c /\ Changed(x, l, b, c).call = x.call
         /\ l \in -2 - LengthBytes .. Byte - 1 /\ b \in Seq(Bytes) /\ c \in Seq(Bytes) =>
               Changed(x, l, b, c) \in ReaderRecords
<1> DEFINE A == -2 - LengthBytes .. Byte - 1
           C == Seq(Bytes)
<1>1. x \in [len : A, call : Bytes, buf : C, chunk : C]
  BY DEF ReaderRecords
<1> HIDE DEF A, C
<1>2. l \in A /\ b \in C /\ c \in C =>
        Changed(x, l, b, c) \in [len : A, call : Bytes, buf : C, chunk : C]
  BY <1>1 DEF Changed
<1>3. /\ Changed(x, l, b, c).len = l /\ Changed(x, l, b, c).buf = b
      /\ Changed(x, l, b, c).chunk = c /\ Changed(x, l, b, c).call = x.call
  BY <1>1 DEF Changed
<1>4. QED
  BY <1>2, <1>3 DEF A, C, ReaderRecords

\* The reader of s goes on to z.
LEMMA ReadStep ==
  ASSUME IInv, NEW s \in Sockets, Serves(s),
         UNCHANGED <<net, conns, task, left, threads, stopped, freed, torn, broken, sent>>,
         NEW z \in ReaderRecords, Bounded(z), rx' = [rx EXCEPT ![s] = z],
         NEW d \in Seq(Msgs), handled' = [handled EXCEPT ![s] = d],
         \A o \in Seq(Bytes) :
            Carried(Script(s), handled[s], rx[s], Remaining(s), o, net[s].up, Whole(s)) =>
            Carried(Script(s), d, z, (z.chunk \o net[s].here) \o net[s].flight, o, net[s].up, Whole(s))
  PROVE  IInv'
<1> USE DEF IInv
<1>1. net[s] # None /\ net[s].accepted
  BY DEF Serves
<1>2. /\ rx' \in [Sockets -> ReaderRecords]
      /\ rx'[s] = z /\ \A t \in Sockets \ {s} : rx'[t] = rx[t]
  BY DEF TypeOK, ReaderRecords
<1>3. /\ handled' \in [Sockets -> Seq(Msgs)]
      /\ handled'[s] = d /\ \A t \in Sockets \ {s} : handled'[t] = handled[t]
  BY DEF Logs
<1>4. TypeOK'
  <2>1. \A t \in Sockets : Bounded(rx'[t])
    BY <1>2, ReaderIs
  <2>2. QED
    BY <1>2, <2>1 DEF TypeOK, ReaderRecords, Bounded
<1>5. Logs'
  BY <1>3 DEF Logs
<1>6. Remaining(s)' = (z.chunk \o net[s].here) \o net[s].flight
  BY <1>2 DEF Remaining
<1>7. \A o \in Seq(Bytes) :
            Carried(Script(s), handled[s], rx[s], Remaining(s), o, net[s].up, Whole(s)) =>
            Carried(Script(s), handled'[s], rx'[s], Remaining(s)', o, net'[s].up, Whole(s))
  BY <1>2, <1>3, <1>6
<1>8. QED
  BY <1>1, <1>2, <1>3, <1>4, <1>5, <1>7, OneSocket

\* The chunk is y and then c: so are the bytes that remain.
LEMMA RestIs ==
  ASSUME TypeOK, NEW s \in Sockets, net[s] # None, NEW y \in Seq(Bytes), NEW c \in Seq(Bytes),
         Joins(rx[s].chunk, y, c)
  PROVE  /\ Remaining(s) \in Seq(Bytes)
         /\ (c \o net[s].here) \o net[s].flight \in Seq(Bytes)
         /\ Joins(Remaining(s), y, (c \o net[s].here) \o net[s].flight)
<1> DEFINE a == rx[s].chunk
           b == net[s].here
           f == net[s].flight
           ab == a \o b
           cb == c \o b
<1>1. a \in Seq(Bytes) /\ b \in Seq(Bytes) /\ f \in Seq(Bytes)
  BY SocketIs
<1>2. Joins(a, y, c)
  OBVIOUS
<1> HIDE DEF a, b, f
<1>3. Joins(ab, y, cb) /\ ab \in Seq(Bytes) /\ cb \in Seq(Bytes)
  BY <1>1, <1>2, Behind
<1> HIDE DEF ab, cb
<1>4. Joins(ab \o f, y, cb \o f) /\ ab \o f \in Seq(Bytes) /\ cb \o f \in Seq(Bytes)
  BY <1>1, <1>3, Behind
<1>5. Remaining(s) = ab \o f
  BY DEF Remaining, ab, a, b, f
<1>6. QED
  BY <1>4, <1>5 DEF cb, b, f

LEMMA ReadTypeKeeps ==
  ASSUME IInv, NEW s \in Sockets, ReadType(s)
  PROVE  IInv'
<1> USE DEF IInv
<1> DEFINE x == rx[s]
           c == Tail(x.chunk)
           y == <<Head(x.chunk)>>
           z == [len |-> WAITING_BODY_SIZE_1, call |-> Head(x.chunk), buf |-> <<>>, chunk |-> c]
           r == (c \o net[s].here) \o net[s].flight
           rest == Remaining(s)
<1>1. /\ Serves(s) /\ net[s] # None /\ x.chunk # <<>> /\ x.len = WAITING_MESSAGE
      /\ rx' = [rx EXCEPT ![s] = z]
      /\ UNCHANGED <<net, conns, task, left, threads, stopped, freed, torn, broken, sent, handled>>
  BY DEF ReadType, InLoop, Serves, ends
<1>2. /\ x \in Contexts /\ x.chunk \in Seq(Bytes) /\ Len(x.chunk) <= BufferSize
      /\ Script(s) \in Seq(Frames) /\ handled[s] \in Seq(Frames) /\ handled[s] \in Seq(Msgs)
  BY SocketIs, ReaderIs, ScriptIs DEF Bounded
<1>3. /\ Head(x.chunk) \in Bytes /\ c \in Seq(Bytes) /\ Len(c) = Len(x.chunk) - 1
      /\ Joins(x.chunk, y, c) /\ y \in Seq(Bytes) /\ Len(y) = 1 /\ y[1] = Head(x.chunk)
  <2> DEFINE k == x.chunk
  <2>1. k \in Seq(Bytes) /\ k # <<>>
    BY <1>1, <1>2
  <2> HIDE DEF k
  <2>2. /\ Head(k) \in Bytes /\ Tail(k) \in Seq(Bytes) /\ Len(Tail(k)) = Len(k) - 1
        /\ \A i \in 1 .. Len(Tail(k)) : Tail(k)[i] = k[i + 1]
    BY <2>1, HeadTailProperties
  <2>3. Joins(k, <<Head(k)>>, Tail(k))
    BY <2>1, <2>2 DEF Joins
  <2>4. QED
    BY <2>1, <2>2, <2>3 DEF k
<1>4. z \in ReaderRecords /\ Bounded(z)
  <2>1. Len(c) <= BufferSize /\ -2 \in -2 - LengthBytes .. Byte - 1 /\ 0 <= LengthBytes
    BY <1>2, <1>3, Widths
  <2>2. <<>> \in Seq(Bytes) /\ Len(<<>>) = 0
    OBVIOUS
  <2> HIDE DEF c
  <2>3. QED
    BY <1>3, <2>1, <2>2 DEF ReaderRecords, Bounded, WAITING_BODY_SIZE_1
<1>5. z \in Contexts /\ z.len = WAITING_BODY_SIZE_1 /\ z.call = y[1] /\ z.buf = <<>> /\ z.chunk = c
  BY <1>3, <1>4, InContexts
<1>6. rest \in Seq(Bytes) /\ r \in Seq(Bytes) /\ Joins(rest, y, r)
  BY <1>1, <1>3, RestIs
<1>7. handled' = [handled EXCEPT ![s] = handled[s]]
  BY <1>1 DEF Logs
<1>8. UNCHANGED <<net, conns, task, left, threads, stopped, freed, torn, broken, sent>> /\ x.len = WAITING_MESSAGE /\ Len(y) = 1
  BY <1>1, <1>3
<1> HIDE DEF x, c, y, z, r, rest
<1>9. ASSUME NEW o \in Seq(Bytes), Carried(Script(s), handled[s], x, rest, o, net[s].up, Whole(s))
      PROVE  Carried(Script(s), handled[s], z, r, o, net[s].up, Whole(s))
  BY <1>2, <1>3, <1>5, <1>6, <1>8, <1>9, TypeRead
<1>10. r = (z.chunk \o net[s].here) \o net[s].flight
  BY <1>5 DEF r
<1>11. QED
  BY <1>1, <1>2, <1>4, <1>7, <1>8, <1>9, <1>10, ReadStep DEF x, rest

LEMMA StreamOf ==
  ASSUME IInv, NEW s \in Sockets, net[s] # None
  PROVE  /\ \E o \in Seq(Bytes) : Carried(Script(s), handled[s], rx[s], Remaining(s), o, net[s].up, Whole(s))
         /\ Reader(Script(s), handled[s], rx[s])
         /\ Script(s) \in Seq(Frames) /\ handled[s] \in Seq(Frames) /\ handled[s] \in Seq(Msgs)
<1>1. Stream(s)
  BY DEF IInv, Streams
<1>2. \E o \in Seq(Bytes) : Carried(Script(s), handled[s], rx[s], Remaining(s), o, net[s].up, Whole(s))
  <2>1. CASE ~Whole(s) \/ \A r \in Sockets : ~Owes(r, s)
    <3>1. <<>> \in Seq(Bytes)
      OBVIOUS
    <3>2. QED
      BY <1>1, <2>1, <3>1 DEF Stream, Flows
  <2>2. CASE Whole(s) /\ \E r \in Sockets : Owes(r, s)
    <3>1. PICK r \in Sockets : Owes(r, s)
      BY <2>2
    <3>2. task[r].id \in Seq(Bytes)
      BY SocketIs DEF IInv
    <3>3. QED
      BY <1>1, <2>2, <3>1, <3>2 DEF Stream, Flows
  <2>3. QED
    BY <2>1, <2>2
<1>3. Script(s) \in Seq(Frames) /\ handled[s] \in Seq(Frames) /\ handled[s] \in Seq(Msgs)
  BY ScriptIs DEF IInv
<1>4. QED
  BY <1>2, <1>3 DEF Carried

\* The pieces into which the loop cuts the chunk.
LEMMA PiecesAre ==
  ASSUME IInv, NEW s \in Sockets, NEW missing \in Nat, missing <= Len(rx[s].chunk)
  PROVE  /\ SubSeq(rx[s].chunk, 1, missing) \in Seq(Bytes)
         /\ Len(SubSeq(rx[s].chunk, 1, missing)) = missing
         /\ Left(s, missing) \in Seq(Bytes) /\ Len(Left(s, missing)) <= BufferSize
         /\ Joins(rx[s].chunk, SubSeq(rx[s].chunk, 1, missing), Left(s, missing))
         /\ Filled(s, missing) \in Seq(Bytes)
         /\ Joins(Filled(s, missing), rx[s].buf, SubSeq(rx[s].chunk, 1, missing))
<1> DEFINE a == rx[s].chunk
           y == SubSeq(a, 1, missing)
           c == SubSeq(a, missing + 1, Len(a))
           b == rx[s].buf
<1>1. a \in Seq(Bytes) /\ b \in Seq(Bytes) /\ Len(a) <= BufferSize /\ missing \in 0 .. Len(a)
  BY ReaderIs DEF IInv, Bounded
<1> HIDE DEF a
<1>2. /\ y \in Seq(Bytes) /\ Len(y) = missing /\ c \in Seq(Bytes) /\ Joins(a, y, c)
  BY <1>1, Halves
<1> HIDE DEF y, c, b
<1>3. b \o y \in Seq(Bytes) /\ Joins(b \o y, b, y)
  BY <1>1, <1>2, Joint
<1>4. Len(c) <= BufferSize
  <2>1. Len(a) = Len(y) + Len(c) /\ Len(y) \in Nat /\ Len(c) \in Nat
    BY <1>2 DEF Joins
  <2>2. QED
    BY <1>1, <2>1, Widths
<1>5. c = Left(s, missing) /\ b \o y = Filled(s, missing)
  BY DEF Left, Filled, a, b, c, y
<1>6. QED
  BY <1>2, <1>3, <1>4, <1>5 DEF a, b, y

LEMMA ReadLengthKeeps ==
  ASSUME IInv, NEW s \in Sockets, ReadLength(s)
  PROVE  IInv'
<1> DEFINE x == rx[s]
           a == x.chunk
           missing == LengthBytes - (-2 - x.len)
           rest == Remaining(s)
<1>1. /\ Serves(s) /\ net[s] # None /\ x.len <= WAITING_BODY_SIZE_1
      /\ UNCHANGED <<net, conns, task, left, threads, stopped, freed, torn, broken, sent, handled>>
  BY DEF ReadLength, InLoop, Serves, ends
<1>2. TypeOK /\ handled' = [handled EXCEPT ![s] = handled[s]]
  BY <1>1 DEF IInv, Logs
<1>3. /\ x \in Contexts /\ a \in Seq(Bytes) /\ x.buf \in Seq(Bytes) /\ Len(a) <= BufferSize
      /\ x \in ReaderRecords
      /\ Script(s) \in Seq(Frames) /\ handled[s] \in Seq(Frames) /\ Reader(Script(s), handled[s], x)
      /\ handled[s] \in Seq(Msgs)
      /\ x.len \in Int /\ x.call \in Bytes
  BY <1>1, <1>2, SocketIs, ReaderIs, StreamOf DEF Bounded
<1>4. /\ x.len = -2 - Len(x.buf) /\ Len(x.buf) < LengthBytes /\ Len(x.buf) \in Nat
  <2>1. x.len # WAITING_MESSAGE /\ x.len < 0
    BY <1>1, <1>3 DEF WAITING_MESSAGE, WAITING_BODY_SIZE_1
  <2> HIDE DEF x
  <2>2. QED
    BY <1>3, <2>1, ReaderIn
<1>5. missing = LengthBytes - Len(x.buf) /\ missing \in Nat /\ missing + Len(x.buf) = LengthBytes
  <2> DEFINE l == x.len
             b == Len(x.buf)
  <2>1. l = -2 - b /\ b \in Nat /\ b < LengthBytes /\ LengthBytes \in Nat
    BY <1>4, Widths
  <2> HIDE DEF l, b
  <2>2. LengthBytes - (-2 - l) = LengthBytes - b /\ LengthBytes - b \in Nat
        /\ (LengthBytes - b) + b = LengthBytes
    BY <2>1
  <2>3. QED
    BY <2>2 DEF l, b
<1>6. CASE Len(a) >= missing
  <2> DEFINE y == SubSeq(a, 1, missing)
             c == Left(s, missing)
             f == Filled(s, missing)
             r == (c \o net[s].here) \o net[s].flight
             z == Changed(x, LittleEndian(f), <<>>, c)
  <2>1. /\ y \in Seq(Bytes) /\ Len(y) = missing /\ c \in Seq(Bytes) /\ Len(c) <= BufferSize
        /\ Joins(a, y, c) /\ f \in Seq(Bytes) /\ Joins(f, x.buf, y)
    BY <1>5, <1>6, PiecesAre
  <2>2. rest \in Seq(Bytes) /\ r \in Seq(Bytes) /\ Joins(rest, y, r)
    BY <1>1, <1>2, <2>1, RestIs
  <2>3. rx' = [rx EXCEPT ![s] = z]
    BY <1>6 DEF ReadLength, Changed
  <2>4. z.len = LittleEndian(f) /\ z.call = x.call /\ z.buf = <<>> /\ z.chunk = c
    <3> HIDE DEF x, c, f
    <3>1. QED
      BY <1>3, ReaderWith
  <2>5. Len(x.buf) + Len(y) = LengthBytes
    BY <1>4, <1>5, <2>1
  <2>6. PICK p \in Seq(Bytes) : Carried(Script(s), handled[s], x, rest, p, net[s].up, Whole(s))
    BY <1>1, StreamOf
  <2> HIDE DEF x, a, missing, rest, y, c, f, r, z
  <2>7. ASSUME NEW o \in Seq(Bytes), Carried(Script(s), handled[s], x, rest, o, net[s].up, Whole(s))
        PROVE  LittleEndian(f) \in 0 .. Byte - 1 /\ Carried(Script(s), handled[s], z, r, o, net[s].up, Whole(s))
    BY <1>1, <1>3, <2>1, <2>2, <2>4, <2>5, <2>7, LengthRead
  <2>8. LittleEndian(f) \in 0 .. Byte - 1
    BY <2>6, <2>7
  <2>9. z \in ReaderRecords /\ Bounded(z)
    <3>1. LittleEndian(f) \in -2 - LengthBytes .. Byte - 1 /\ LittleEndian(f) >= 0 /\ LittleEndian(f) \in Int
      BY <2>8, Widths
    <3>2. <<>> \in Seq(Bytes) /\ Len(<<>>) = 0
      OBVIOUS
    <3>3. z \in ReaderRecords
      BY <1>3, <2>1, <3>1, <3>2, ReaderWith DEF z
    <3>4. QED
      BY <2>1, <2>4, <3>1, <3>2, <3>3 DEF Bounded
  <2>10. r = (z.chunk \o net[s].here) \o net[s].flight
    BY <2>4 DEF r
  <2>11. UNCHANGED <<net, conns, task, left, threads, stopped, freed, torn, broken, sent>> /\ Serves(s)
    BY <1>1
  <2>12. QED
    BY <1>2, <1>3, <2>3, <2>7, <2>9, <2>10, <2>11, ReadStep DEF x, rest
<1>7. CASE ~(Len(a) >= missing)
  <2> DEFINE f == x.buf \o a
             r == (<<>> \o net[s].here) \o net[s].flight
             z == Changed(x, -2 - ((-2 - x.len) + Len(a)), f, <<>>)
  <2>1. f \in Seq(Bytes) /\ Joins(f, x.buf, a)
    <3> HIDE DEF x, a
    <3> QED BY <1>3, Joint
  <2>2. <<>> \in Seq(Bytes) /\ Len(<<>>) = 0 /\ Joins(a, a, <<>>)
    BY <1>3 DEF Joins
  <2>3. rest \in Seq(Bytes) /\ r \in Seq(Bytes) /\ Joins(rest, a, r)
    BY <1>1, <1>2, <1>3, <2>2, RestIs
  <2>4. rx' = [rx EXCEPT ![s] = z]
    <3> DEFINE p == [x EXCEPT !.len = LittleEndian(Filled(s, missing)), !.buf = <<>>,
                              !.chunk = Left(s, missing)]
    <3>1. rx' = [rx EXCEPT ![s] = IF Len(a) >= missing THEN p ELSE z]
      BY DEF ReadLength, Changed
    <3> HIDE DEF p, z, a, missing
    <3>2. QED
      BY <1>7, <3>1
  <2> DEFINE b == Len(x.buf)
             g == Len(a)
  <2>5. b \in Nat /\ g \in Nat /\ b + g < LengthBytes /\ x.len = -2 - b
    <3>1. /\ b \in Nat /\ g \in Nat /\ x.len = -2 - b
          /\ missing \in Nat /\ missing + b = LengthBytes /\ ~(g >= missing)
      BY <1>3, <1>4, <1>5, <1>7
    <3> HIDE DEF b, g, missing
    <3>2. QED
      BY <3>1
  <2>6. z.len = -2 - ((-2 - x.len) + g) /\ z.call = x.call /\ z.buf = f /\ z.chunk = <<>>
    <3> DEFINE l == -2 - ((-2 - x.len) + Len(a))
    <3>0. z = Changed(x, l, f, <<>>)
      OBVIOUS
    <3> HIDE DEF x, f, l, z
    <3>1. z.len = l /\ z.call = x.call /\ z.buf = f /\ z.chunk = <<>>
      BY <1>3, <3>0, ReaderWith
    <3>2. QED
      BY <3>1 DEF l
  <2>7. Len(f) = b + g
    BY <2>1 DEF Joins
  <2> HIDE DEF x, a, missing, rest, f, r, z, b, g
  <2>8. -2 - ((-2 - x.len) + g) = x.len - g /\ x.len - g \in -2 - LengthBytes .. Byte - 1 /\ x.len - g < 0
    <3> DEFINE l == x.len
    <3>1. l = -2 - b /\ b \in Nat /\ g \in Nat /\ b + g < LengthBytes
      BY <2>5
    <3>2. LengthBytes \in Nat /\ Byte \in Nat /\ Byte > 2
      BY Widths
    <3> HIDE DEF l
    <3>3. l - g = -2 - (b + g) /\ -2 - ((-2 - l) + g) = l - g
      BY <3>1
    <3>4. l - g \in -2 - LengthBytes .. Byte - 1 /\ l - g < 0
      BY <3>1, <3>2, <3>3
    <3>5. QED
      BY <3>3, <3>4 DEF l
  <2>9. z \in ReaderRecords /\ Bounded(z)
    <3>1. Len(f) <= LengthBytes /\ 0 <= BufferSize
      BY <2>5, <2>7, Widths
    <3> DEFINE l == -2 - ((-2 - x.len) + Len(a))
    <3>2. l \in -2 - LengthBytes .. Byte - 1 /\ z = Changed(x, l, f, <<>>)
      BY <2>8 DEF z, g
    <3> HIDE DEF l
    <3>3. z \in ReaderRecords
      BY <1>3, <2>1, <2>2, <3>2, ReaderWith
    <3>4. z.len < 0 /\ Len(z.buf) <= LengthBytes /\ Len(z.chunk) <= BufferSize
      BY <2>2, <2>6, <2>8, <3>1
    <3>5. QED
      BY <3>3, <3>4 DEF Bounded
  <2>10. z \in Contexts /\ z.len = x.len - Len(a) /\ Len(x.buf) + Len(a) < LengthBytes
         /\ Joins(z.buf, x.buf, a)
    BY <2>1, <2>5, <2>6, <2>8, <2>9, InContexts DEF b, g
  <2>11. ASSUME NEW o \in Seq(Bytes), Carried(Script(s), handled[s], x, rest, o, net[s].up, Whole(s))
         PROVE  Carried(Script(s), handled[s], z, r, o, net[s].up, Whole(s))
    BY <1>1, <1>3, <2>3, <2>6, <2>10, <2>11, LengthPart
  <2>12. r = (z.chunk \o net[s].here) \o net[s].flight
    BY <2>6 DEF r
  <2>13. UNCHANGED <<net, conns, task, left, threads, stopped, freed, torn, broken, sent>> /\ Serves(s)
    BY <1>1
  <2>14. QED
    BY <1>2, <1>3, <2>4, <2>9, <2>11, <2>12, <2>13, ReadStep DEF x, rest
<1>8. QED
  BY <1>6, <1>7

LEMMA ReadBodyPartKeeps ==
  ASSUME IInv, NEW s \in Sockets, ReadBodyPart(s)
  PROVE  IInv'
<1> DEFINE x == rx[s]
           a == x.chunk
           f == x.buf \o a
           z == Changed(x, x.len, f, <<>>)
           rest == Remaining(s)
           r == (<<>> \o net[s].here) \o net[s].flight
<1>1. /\ Serves(s) /\ net[s] # None /\ x.len >= 0 /\ Len(a) < x.len - Len(x.buf)
      /\ UNCHANGED <<net, conns, task, left, threads, stopped, freed, torn, broken, sent, handled>>
  BY DEF ReadBodyPart, InLoop, Serves, ends
<1>2. TypeOK /\ handled' = [handled EXCEPT ![s] = handled[s]]
  BY <1>1 DEF IInv, Logs
<1>3. /\ x \in Contexts /\ a \in Seq(Bytes) /\ x.buf \in Seq(Bytes)
      /\ x \in ReaderRecords /\ x.len \in Int /\ x.len \in -2 - LengthBytes .. Byte - 1
      /\ Script(s) \in Seq(Frames) /\ handled[s] \in Seq(Frames) /\ handled[s] \in Seq(Msgs)
  BY <1>1, <1>2, SocketIs, ReaderIs, StreamOf DEF ReaderRecords
<1>4. rx' = [rx EXCEPT ![s] = z]
  <2>1. rx = [t \in Sockets |-> rx[t]]
    BY <1>2 DEF TypeOK
  <2>2. QED
    <3>1. rx' = [rx EXCEPT ![s].buf = x.buf \o a, ![s].chunk = <<>>]
      BY DEF ReadBodyPart
    <3>2. [x EXCEPT !.buf = f, !.chunk = <<>>] = z
      <4>1. PICK m, k, e, d : x = [len |-> m, call |-> k, buf |-> e, chunk |-> d]
        BY <1>3 DEF ReaderRecords
      <4>2. QED
        BY <4>1 DEF Changed
    <3>3. QED
      BY <2>1, <3>1, <3>2
<1>5. f \in Seq(Bytes) /\ Joins(f, x.buf, a)
  <2> HIDE DEF x, a
  <2> QED BY <1>3, Joint
<1>6. <<>> \in Seq(Bytes) /\ Len(<<>>) = 0 /\ Joins(a, a, <<>>)
  BY <1>3 DEF Joins
<1>7. rest \in Seq(Bytes) /\ r \in Seq(Bytes) /\ Joins(rest, a, r)
  BY <1>1, <1>2, <1>3, <1>6, RestIs
<1>8. Len(x.buf) + Len(a) <= x.len /\ Len(f) <= x.len
  <2> DEFINE b == Len(x.buf)
             g == Len(a)
  <2>1. b \in Nat /\ g \in Nat /\ Len(f) = b + g /\ g < x.len - b
    BY <1>1, <1>3, <1>5 DEF Joins
  <2> HIDE DEF b, g
  <2>2. b + g <= x.len
    BY <1>3, <2>1
  <2>3. QED
    BY <2>1, <2>2 DEF b, g
<1> HIDE DEF x, a, f, z, rest, r
<1>9. z.len = x.len /\ z.call = x.call /\ z.buf = f /\ z.chunk = <<>> /\ z \in ReaderRecords
  <2> DEFINE l == x.len
             e == <<>>
  <2>1. /\ z = Changed(x, l, f, e) /\ l \in -2 - LengthBytes .. Byte - 1 /\ e \in Seq(Bytes)
        /\ f \in Seq(Bytes) /\ x \in ReaderRecords
    BY <1>3, <1>5, <1>6 DEF z
  <2> HIDE DEF l, e
  <2>2. z.len = l /\ z.call = x.call /\ z.buf = f /\ z.chunk = e /\ z \in ReaderRecords
    BY <2>1, ReaderWith
  <2>3. QED
    BY <2>2 DEF l, e
<1>10. Bounded(z) /\ z \in Contexts
  <2>1. Len(z.chunk) <= BufferSize
    BY <1>6, <1>9, Widths
  <2>2. QED
    BY <1>1, <1>3, <1>8, <1>9, <2>1, InContexts DEF Bounded
<1>11. ASSUME NEW o \in Seq(Bytes), Carried(Script(s), handled[s], x, rest, o, net[s].up, Whole(s))
       PROVE  Carried(Script(s), handled[s], z, r, o, net[s].up, Whole(s))
  BY <1>1, <1>3, <1>5, <1>7, <1>8, <1>9, <1>10, <1>11, BodyPart
<1>12. r = (z.chunk \o net[s].here) \o net[s].flight
  BY <1>9 DEF r
<1>13. UNCHANGED <<net, conns, task, left, threads, stopped, freed, torn, broken, sent>> /\ Serves(s)
  BY <1>1
<1>14. QED
  BY <1>2, <1>3, <1>4, <1>9, <1>10, <1>11, <1>12, <1>13, ReadStep DEF x, rest

\* The message that HandleApiCall gets, and the reader that is left.
Call(s) == [call |-> rx[s].call, body |-> Body(s)]
After(s) == [Fresh EXCEPT !.chunk = Left(s, rx[s].len - Len(rx[s].buf))]

\* The message is none of those that others came into the middle of.
Genuine(s) == Whole(s) \/ Len(handled[s]) + 1 < torn[s]

LEMMA CallIs ==
  ASSUME IInv, NEW s \in Sockets, Completes(s)
  PROVE  /\ Serves(s) /\ net[s] # None
         /\ Call(s) \in Frames
         /\ ~Genuine(s) => ~Whole(s) /\ Call(s) = Garbage(s)
         /\ Genuine(s) =>
               /\ Len(handled[s]) + 1 \in 1 .. Len(sent[s]) /\ Call(s) = sent[s][Len(handled[s]) + 1]
               /\ Call(s) \in Msgs /\ Append(handled[s], Call(s)) \in Seq(Msgs)
         /\ After(s) \in ReaderRecords /\ Bounded(After(s))
         /\ Genuine(s) => \A o \in Seq(Bytes) :
              Carried(Script(s), handled[s], rx[s], Remaining(s), o, net[s].up, Whole(s)) =>
              Carried(Script(s), Append(handled[s], Call(s)), After(s),
                      (After(s).chunk \o net[s].here) \o net[s].flight, o, net[s].up, Whole(s))
<1> DEFINE x == rx[s]
           a == x.chunk
           missing == x.len - Len(x.buf)
           y == SubSeq(a, 1, missing)
           c == Left(s, missing)
           f == Filled(s, missing)
           z == After(s)
           rest == Remaining(s)
           r == (c \o net[s].here) \o net[s].flight
<1>1. /\ Serves(s) /\ net[s] # None /\ x.len >= 0 /\ Len(a) >= missing
  BY DEF Completes, InLoop, Serves
<1>2. TypeOK
  BY DEF IInv
<1>3. /\ x \in Contexts /\ a \in Seq(Bytes) /\ x.buf \in Seq(Bytes)
      /\ x.len \in Int /\ x.call \in Bytes /\ Len(x.buf) <= x.len
      /\ Script(s) \in Seq(Frames) /\ handled[s] \in Seq(Frames) /\ handled[s] \in Seq(Msgs)
  BY <1>1, <1>2, SocketIs, ReaderIs, StreamOf DEF Bounded
<1>4. missing \in Nat /\ Len(x.buf) + missing = x.len
  <2> DEFINE b == Len(x.buf)
  <2>1. b \in Nat /\ b <= x.len /\ x.len \in Int
    BY <1>3
  <2> HIDE DEF b, x
  <2>2. x.len - b \in Nat /\ b + (x.len - b) = x.len
    BY <2>1
  <2>3. QED
    BY <2>2 DEF b, x
<1>5. /\ y \in Seq(Bytes) /\ Len(y) = missing /\ c \in Seq(Bytes) /\ Len(c) <= BufferSize
      /\ Joins(a, y, c) /\ f \in Seq(Bytes) /\ Joins(f, x.buf, y)
  BY <1>1, <1>4, PiecesAre
<1>6. rest \in Seq(Bytes) /\ r \in Seq(Bytes) /\ Joins(rest, y, r)
  BY <1>1, <1>2, <1>5, RestIs
<1>7. PICK p \in Seq(Bytes) : Carried(Script(s), handled[s], x, rest, p, net[s].up, Whole(s))
  BY <1>1, StreamOf
<1>8. z.len = WAITING_MESSAGE /\ z.buf = <<>> /\ z.chunk = c /\ z.call = 0
      /\ z \in [len : {WAITING_MESSAGE}, call : {0}, buf : {<<>>}, chunk : {c}]
  BY DEF After, Fresh
<1>9. Call(s) = [call |-> x.call, body |-> f] /\ Len(x.buf) + Len(y) = x.len
  BY <1>4, <1>5 DEF Call, Body
<1> HIDE DEF x, a, missing, y, c, f, z, rest, r
<1> DEFINE k == Len(handled[s]) + 1
<1> HIDE DEF k
<1>10. ASSUME NEW o \in Seq(Bytes), Carried(Script(s), handled[s], x, rest, o, net[s].up, Whole(s))
       PROVE  /\ k \in 1 .. Len(Script(s)) /\ Call(s) = Script(s)[k]
              /\ Whole(s) \/ k < Len(Script(s)) =>
                   Carried(Script(s), Append(handled[s], Call(s)), z, r, o, net[s].up, Whole(s))
  <2> DEFINE m == [call |-> x.call, body |-> f]
  <2>1. Reads(Script(s), handled[s], m, z, r, o, net[s].up, Whole(s))
    BY <1>1, <1>3, <1>5, <1>6, <1>8, <1>9, <1>10, BodyRead
  <2> HIDE DEF m
  <2>2. Call(s) = m
    BY <1>9 DEF m
  <2>3. QED
    BY <2>1, <2>2 DEF Reads, k
<1>11. k \in 1 .. Len(Script(s)) /\ Call(s) = Script(s)[k] /\ Call(s) \in Frames
  <2>1. k \in 1 .. Len(Script(s)) /\ Call(s) = Script(s)[k]
    BY <1>7, <1>10
  <2>2. QED
    BY <1>3, <2>1
<1>12. ASSUME ~Genuine(s) PROVE ~Whole(s) /\ Call(s) = Garbage(s)
  <2>1. ~Whole(s) /\ ~(k < torn[s])
    BY <1>12 DEF Genuine, k
  <2>2. torn[s] \in Nat /\ Len(Script(s)) = torn[s] /\ Script(s)[torn[s]] = Garbage(s)
    BY <1>2, <2>1, ScriptIs, SocketIs DEF IInv
  <2>3. k = torn[s]
    BY <1>11, <2>1, <2>2
  <2>4. QED
    BY <1>11, <2>1, <2>2, <2>3
<1>13. ASSUME Genuine(s)
       PROVE  /\ Len(handled[s]) + 1 \in 1 .. Len(sent[s]) /\ Call(s) = sent[s][Len(handled[s]) + 1]
              /\ Call(s) \in Msgs /\ Append(handled[s], Call(s)) \in Seq(Msgs)
              /\ \A o \in Seq(Bytes) :
                    Carried(Script(s), handled[s], rx[s], Remaining(s), o, net[s].up, Whole(s)) =>
                    Carried(Script(s), Append(handled[s], Call(s)), z, r, o, net[s].up, Whole(s))
  <2>1. /\ k \in 1 .. Len(sent[s]) /\ Script(s)[k] = sent[s][k]
        /\ Whole(s) \/ k < Len(Script(s))
    <3>1. CASE Whole(s)
      BY <1>11, <3>1, ScriptIs DEF IInv
    <3>2. CASE ~Whole(s)
      <4>1. k < torn[s] /\ torn[s] \in 1 .. Len(sent[s]) - 1 /\ Len(Script(s)) = torn[s]
            /\ \A i \in 1 .. torn[s] - 1 : Script(s)[i] = sent[s][i]
        BY <1>13, <3>2, ScriptIs DEF IInv, Genuine, k
      <4>2. k \in 1 .. torn[s] - 1 /\ k \in 1 .. Len(sent[s]) /\ k < Len(Script(s))
        BY <1>11, <4>1
      <4>3. QED
        BY <4>1, <4>2, ScriptIs DEF IInv
    <3>3. QED
      BY <3>1, <3>2
  <2>2. sent[s] \in Seq(Msgs)
    BY ScriptIs DEF IInv
  <2>3. Call(s) \in Msgs /\ Call(s) = sent[s][k]
    BY <1>11, <2>1, <2>2
  <2>4. Append(handled[s], Call(s)) \in Seq(Msgs)
    BY <1>3, <2>3, AppendProperties
  <2>5. \A o \in Seq(Bytes) :
           Carried(Script(s), handled[s], x, rest, o, net[s].up, Whole(s)) =>
           Carried(Script(s), Append(handled[s], Call(s)), z, r, o, net[s].up, Whole(s))
    BY <1>10, <2>1
  <2>6. QED
    BY <2>1, <2>3, <2>4, <2>5 DEF k, x, rest
<1>14. z \in ReaderRecords /\ Bounded(z)
  <2>1. WAITING_MESSAGE \in -2 - LengthBytes .. Byte - 1 /\ WAITING_MESSAGE < 0 /\ 0 \in Bytes /\ 0 <= LengthBytes
    BY Widths DEF WAITING_MESSAGE, Bytes
  <2>2. <<>> \in Seq(Bytes) /\ Len(<<>>) = 0
    OBVIOUS
  <2>3. z \in ReaderRecords
    BY <1>5, <1>8, <2>1, <2>2 DEF ReaderRecords
  <2>4. QED
    BY <1>5, <1>8, <2>1, <2>2, <2>3 DEF Bounded
<1>15. r = (z.chunk \o net[s].here) \o net[s].flight
  BY <1>8 DEF r
<1>16. QED
  <2>1. CASE ~Genuine(s)
    BY <1>1, <1>11, <1>12, <1>14, <2>1 DEF z
  <2>2. CASE Genuine(s)
    BY <1>1, <1>11, <1>13, <1>14, <1>15, <2>2 DEF z
  <2>3. QED
    BY <2>1, <2>2

LEMMA AnswerRequestPathKeeps ==
  ASSUME IInv, NEW s \in Sockets, AnswerRequestPath(s)
  PROVE  IInv'
<1>1. /\ Completes(s)
      /\ rx[s].call \notin {API_REQUEST_CONNECTION, API_ANSWER_REQUEST_CONNECTION}
  BY DEF AnswerRequestPath
<1>2. Call(s).call = rx[s].call /\ Call(s) \in Frames
  BY <1>1, CallIs DEF Call
<1>3. rx[s].call = API_ANSWER_REQUEST_PATH
  <2>1. Call(s).call \in 0 .. 2
    BY <1>2, FrameIs
  <2>2. QED
    BY <1>1, <1>2, <2>1 DEF API_REQUEST_CONNECTION, API_ANSWER_REQUEST_CONNECTION, API_ANSWER_REQUEST_PATH
<1>4. Genuine(s)
  <2>1. ASSUME ~Genuine(s) PROVE FALSE
    <3>1. Call(s).call = API_ANSWER_REQUEST_CONNECTION
      BY <1>1, <2>1, CallIs, ScriptIs DEF IInv
    <3>2. QED
      BY <1>1, <1>2, <3>1
  <2>2. QED
    BY <2>1
<1>a. Handled(s) /\ UNCHANGED <<net, conns, task, left, threads, stopped, freed, torn, broken, sent>>
  BY <1>3 DEF AnswerRequestPath
<1>5. /\ rx' = [rx EXCEPT ![s] = After(s)]
      /\ handled' = [handled EXCEPT ![s] = Append(handled[s], Call(s))]
  BY <1>a DEF Handled, After, Call
<1>6. UNCHANGED <<net, conns, task, left, threads, stopped, freed, torn, broken, sent>>
  BY <1>a
<1> DEFINE z == After(s)
           d == Append(handled[s], Call(s))
<1>7. /\ Serves(s) /\ d \in Seq(Msgs) /\ z \in ReaderRecords /\ Bounded(z)
      /\ \A o \in Seq(Bytes) :
            Carried(Script(s), handled[s], rx[s], Remaining(s), o, net[s].up, Whole(s)) =>
            Carried(Script(s), d, z, (z.chunk \o net[s].here) \o net[s].flight, o, net[s].up, Whole(s))
  BY <1>1, <1>4, CallIs
<1> HIDE DEF z, d
<1>8. rx' = [rx EXCEPT ![s] = z] /\ handled' = [handled EXCEPT ![s] = d]
  BY <1>5 DEF z, d
<1>9. QED
  BY <1>6, <1>7, <1>8, ReadStep

LEMMA RecvKeeps ==
  ASSUME IInv, NEW s \in Sockets, Recv(s)
  PROVE  IInv'
<1> DEFINE here == net[s].here
           x == rx[s]
           n == IF Len(here) < BufferSize THEN Len(here) ELSE BufferSize
           u == SubSeq(here, 1, n)
           v == SubSeq(here, n + 1, Len(here))
           p == [net[s] EXCEPT !.here = v]
           z == Changed(x, x.len, x.buf, u)
<1>1. /\ TypeOK /\ Logs /\ net[s] # None /\ net[s].accepted /\ x.chunk = <<>>
      /\ UNCHANGED <<conns, task, left, threads, stopped, freed, torn, broken, sent, handled>>
  BY DEF Recv, Completed, Idle, Serves, IInv, ends
<1>2. /\ net[s] \in SocketRecords /\ here \in Seq(Bytes) /\ net[s].flight \in Seq(Bytes)
      /\ x \in ReaderRecords /\ Bounded(x) /\ x.buf \in Seq(Bytes)
      /\ x.len \in -2 - LengthBytes .. Byte - 1
  BY <1>1, SocketIs, ReaderIs DEF ReaderRecords
<1>3. n \in 0 .. Len(here) /\ n <= BufferSize
  <2> DEFINE l == Len(here)
  <2>1. l \in Nat
    BY <1>2
  <2> HIDE DEF l
  <2>2. QED
    BY <2>1, Widths DEF l
<1>4. /\ net' = [net EXCEPT ![s] = p]
      /\ rx' = [rx EXCEPT ![s] = z]
  <2>1. net = [t \in Sockets |-> net[t]] /\ rx = [t \in Sockets |-> rx[t]]
    BY <1>1 DEF TypeOK
  <2>2. /\ net' = [net EXCEPT ![s].here = v]
        /\ rx' = [rx EXCEPT ![s].chunk = u]
    BY DEF Recv
  <2>3. [x EXCEPT !.chunk = u] = z
    <3>1. PICK m, k, e, d : x = [len |-> m, call |-> k, buf |-> e, chunk |-> d]
      BY <1>2 DEF ReaderRecords
    <3>2. QED
      BY <3>1 DEF Changed
  <2>4. QED
    BY <2>1, <2>2, <2>3
<1> HIDE DEF n, here
<1>5. u \in Seq(Bytes) /\ v \in Seq(Bytes) /\ u \o v = here /\ Len(u) = n
  BY <1>2, <1>3, Halves
<1> HIDE DEF u, v
<1>6. p \in SocketRecords
  BY <1>2, <1>5, RecordWith
<1>7. /\ p.from = net[s].from /\ p.to = net[s].to /\ p.accepted = net[s].accepted
      /\ p.up = net[s].up /\ p.flight = net[s].flight /\ p.here = v /\ p # None
  BY <1>2, <1>6, NoneApart DEF SocketRecords
<1> HIDE DEF p
<1>8. z.len = x.len /\ z.call = x.call /\ z.buf = x.buf /\ z.chunk = u /\ z \in ReaderRecords
  <2> DEFINE l == x.len
             b == x.buf
  <2>1. /\ z = Changed(x, l, b, u) /\ l \in -2 - LengthBytes .. Byte - 1 /\ b \in Seq(Bytes)
    BY <1>2
  <2> HIDE DEF l, b, z
  <2>2. z.len = l /\ z.call = x.call /\ z.buf = b /\ z.chunk = u /\ z \in ReaderRecords
    BY <1>2, <1>5, <2>1, ReaderWith
  <2>3. QED
    BY <2>2 DEF l, b
<1>9. Bounded(z)
  BY <1>2, <1>3, <1>5, <1>8 DEF Bounded
<1> HIDE DEF z
<1>10. /\ net'[s] = p /\ rx'[s] = z
       /\ \A t \in Sockets \ {s} : net'[t] = net[t] /\ rx'[t] = rx[t]
       /\ rx' \in [Sockets -> ReaderRecords]
       /\ net' \in [Sockets -> {None} \cup SocketRecords]
  BY <1>1, <1>4, <1>6, <1>8 DEF TypeOK, ReaderRecords, SocketRecords
<1>11. TypeOK'
  <2>1. \A t \in Sockets : Bounded(rx'[t])
    BY <1>1, <1>9, <1>10, ReaderIs
  <2>2. QED
    BY <1>1, <1>10, <2>1 DEF TypeOK, ReaderRecords, SocketRecords, Bounded
<1>12. Logs'
  BY <1>1 DEF Logs
<1>13. Remaining(s)' = Remaining(s)
  <2>1. <<>> \o here = here
    BY <1>2, ConcatEmptySeq
  <2>2. QED
    BY <1>1, <1>5, <1>7, <1>8, <1>10, <2>1 DEF Remaining, x, here
<1>14. ASSUME NEW o \in Seq(Bytes), Carried(Script(s), handled[s], x, Remaining(s), o, net[s].up, Whole(s))
       PROVE  Carried(Script(s), handled[s], z, Remaining(s), o, net[s].up, Whole(s))
  BY <1>8, <1>14 DEF Carried, Reader, Taken, InLength, InBody
<1>15. \A o \in Seq(Bytes) :
            Carried(Script(s), handled[s], rx[s], Remaining(s), o, net[s].up, Whole(s)) =>
            Carried(Script(s), handled'[s], rx'[s], Remaining(s)', o, net'[s].up, Whole(s))
  BY <1>1, <1>7, <1>10, <1>13, <1>14 DEF x
<1>16. QED
  BY <1>1, <1>7, <1>10, <1>11, <1>12, <1>15, OneSocket

LEMMA RecvFailsKeeps ==
  ASSUME IInv, NEW s \in Sockets, RecvFails(s)
  PROVE  IInv'
<1> DEFINE p == [net[s] EXCEPT !.posted = FALSE]
<1>1. /\ TypeOK /\ Logs /\ net[s] # None /\ net[s].accepted
      /\ UNCHANGED <<conns, rx, task, left, stopped, freed, torn, broken, sent, handled>>
      /\ net' = [net EXCEPT ![s].posted = FALSE]
      /\ \E n \in {0, 1} : threads' = [threads EXCEPT ![net[s].to] = @ - n]
      /\ HasThread(net[s].to)
  BY DEF RecvFails, Completed, Idle, Serves, IInv
<1>2. net[s] \in SocketRecords /\ net[s].to \in Hives
  BY <1>1, SocketIs
<1>3. threads' \in [Hives -> 0 .. NetworkThreads]
  <2> DEFINE h == net[s].to
             Busy == {t \in Sockets : Serves(t) /\ net[t].to = h /\ ~Idle(t)}
  <2>1. threads \in [Hives -> 0 .. NetworkThreads] /\ h \in Hives
    BY <1>1, <1>2 DEF TypeOK
  <2>2. Cardinality(Busy) \in Nat
    <3>1. IsFiniteSet(Sockets) /\ Busy \subseteq Sockets
      BY Widths, FS_Interval DEF Sockets
    <3> HIDE DEF Busy
    <3>2. QED
      BY <3>1, FS_Subset, FS_CardinalityType
  <2>3. Cardinality(Busy) < threads[h]
    BY <1>1 DEF HasThread
  <2> HIDE DEF h, Busy
  <2>4. threads[h] \in 1 .. NetworkThreads
    BY <2>1, <2>2, <2>3 DEF NetworkThreads
  <2>5. PICK n \in {0, 1} : threads' = [threads EXCEPT ![h] = @ - n]
    BY <1>1 DEF h
  <2>6. threads[h] - n \in 0 .. NetworkThreads
    BY <2>4 DEF NetworkThreads
  <2>7. QED
    BY <2>1, <2>5, <2>6
<1>4. net' = [net EXCEPT ![s] = p]
  BY <1>1 DEF TypeOK
<1>5. p \in SocketRecords
  <2>1. FALSE \in BOOLEAN /\ net[s].flight \in Seq(Bytes)
    BY <1>2 DEF SocketRecords
  <2>2. QED
    BY <1>2, <2>1, RecordWith
<1>6. /\ p.from = net[s].from /\ p.to = net[s].to /\ p.accepted = net[s].accepted
      /\ p.up = net[s].up /\ p.flight = net[s].flight /\ p.here = net[s].here /\ p # None
  BY <1>2, <1>5, NoneApart DEF SocketRecords
<1> HIDE DEF p
<1>7. /\ net'[s] = p /\ \A t \in Sockets \ {s} : net'[t] = net[t]
      /\ net' \in [Sockets -> {None} \cup SocketRecords]
  <2>1. net \in [Sockets -> {None} \cup SocketRecords]
    BY <1>1 DEF TypeOK, SocketRecords
  <2>2. QED
    BY <1>4, <1>5, <2>1
<1>8. TypeOK'
  BY <1>1, <1>3, <1>7 DEF TypeOK, SocketRecords
<1>9. Logs'
  BY <1>1 DEF Logs
<1>10. Remaining(s)' = Remaining(s)
  BY <1>1, <1>6, <1>7 DEF Remaining
<1>11. QED
  BY <1>1, <1>6, <1>7, <1>8, <1>9, <1>10, OneSocket

---------------------------------------------------------------------------
(* Steps that change the tables, the tasks or what is sent *)

\* Sockets stay what they are.
Grows ==
    \A t \in Sockets : net[t] # None =>
        /\ net'[t] # None /\ net'[t].from = net[t].from /\ net'[t].to = net[t].to
        /\ net[t].accepted => net'[t].accepted
\* Connections that have no socket to read never get one.
Stable == \A h \in Hives : \A i : Temporary(h, i) => Temporary(h, i)'

LEMMA FacingKept ==
  ASSUME Facing, Grows,
         \A t \in Sockets : net[t] = None /\ net'[t] # None => net'[t].to = Other(net'[t].from)
  PROVE  Facing'
  BY DEF Facing, Grows

LEMMA NamedKept ==
  ASSUME TypeOK, Named, Untouched, Grows, Stable,
         \A t \in Sockets : \A k \in 1 .. Len(sent'[t]) :
            (k \in 1 .. Len(sent[t]) /\ sent'[t][k] = sent[t][k]) \/ Names(t, sent[t][k])'
  PROVE  Named'
<1> SUFFICES ASSUME NEW t \in Sockets, NEW k \in 1 .. Len(sent'[t])
             PROVE  Names(t, sent[t][k])'
  BY DEF Named
<1>1. CASE k \in 1 .. Len(sent[t]) /\ sent'[t][k] = sent[t][k]
  <2>1. net[t] # None
    <3>1. sent[t] # <<>>
      BY <1>1
    <3>2. QED
      BY <3>1 DEF Untouched
  <2>2. Names(t, sent[t][k])
    BY <1>1 DEF Named
  <2>3. net[t].from \in Hives /\ net[t].to \in Hives
    BY <2>1, SocketIs
  <2>4. QED
    BY <1>1, <2>1, <2>2, <2>3 DEF Names, Grows, Stable
<1>2. QED
  BY <1>1

\* Only the connection i of h changes, and becomes c.
Wrote(h, i, c) ==
    /\ conns'[h][i] = c
    /\ \A g \in Hives, j \in Ids : g # h \/ j # i => conns'[g][j] = conns[g][j]

\* One connection of h is written.
LEMMA TableWrite ==
  ASSUME TypeOK, Table, Grows, NEW h \in Hives, NEW i \in Ids, NEW c,
         Wrote(h, i, c), Row(h, i)',
         \A j \in Ids \ {i} : conns[h][j] # None =>
            /\ c.ctx # None => conns[h][j].ctx # c.ctx
            /\ c.out # None => conns[h][j].out # c.out
  PROVE  Table'
<1>1. conns'[h][i] = c /\ \A g \in Hives, j \in Ids : g # h \/ j # i => conns'[g][j] = conns[g][j]
  BY DEF Wrote
<1>2. ASSUME NEW g \in Hives, NEW j \in Ids PROVE Row(g, j)'
  <2>1. CASE g = h /\ j = i
    BY <2>1
  <2>2. CASE g # h \/ j # i
    <3>1. conns'[g][j] = conns[g][j] /\ Row(g, j)
      BY <1>1, <2>2 DEF Table
    <3>2. conns[g][j] # None => conns[g][j].ctx \in Sockets \cup {None} /\ conns[g][j].out \in Sockets \cup {None}
      BY RowIs
    <3>3. QED
      BY <3>1, <3>2 DEF Row, Grows
  <2>3. QED
    BY <2>1, <2>2
<1>3. ASSUME NEW g \in Hives, NEW j \in Ids, NEW k \in Ids PROVE Apart(g, j, k)'
  <2>1. Apart(g, j, k)
    BY DEF Table
  <2>2. CASE g = h /\ j = i
    BY <1>1, <2>1, <2>2 DEF Apart
  <2>3. CASE g = h /\ k = i
    BY <1>1, <2>1, <2>3 DEF Apart
  <2>4. CASE g # h \/ (j # i /\ k # i)
    BY <1>1, <2>1, <2>4 DEF Apart
  <2>5. QED
    BY <2>2, <2>3, <2>4
<1>4. QED
  BY <1>1, <1>2, <1>3 DEF Table

\* A step that leaves the sockets and the tables, but not the task of s.
LEMMA SameTable ==
  ASSUME IInv, TypeOK', Logs', UNCHANGED <<net, conns, sent, torn>>,
         NEW s \in Sockets, net[s] # None, net[s].accepted,
         \A t \in Sockets \ {s} :
            rx'[t] = rx[t] /\ handled'[t] = handled[t] /\ task'[t] = task[t],
         task'[s] # Quiet => Answerer(s)' /\ task'[s].id = Word(task'[s].id[1]),
         task[s].pc # "body", task'[s].pc # "body",
         \A o \in Seq(Bytes) :
            Carried(Script(s), handled[s], rx[s], Remaining(s), o, net[s].up, Whole(s)) =>
            Carried(Script(s), handled'[s], rx'[s], Remaining(s)', o, net[s].up, Whole(s))
  PROVE  IInv'
<1> USE DEF IInv
<1>1. Facing' /\ Table'
  BY DEF Facing, Table, Row, Apart
<1>2. Untouched'
  BY DEF Untouched
<1>3. \A h, i, t : Joined(h, i, t)' <=> Joined(h, i, t)
  BY DEF Joined
<1>4. Working'
  <2>1. ASSUME NEW t \in Sockets, task'[t] # Quiet PROVE Answerer(t)'
    <3>1. CASE t = s
      BY <2>1, <3>1
    <3>2. CASE t # s
      <4>1. task'[t] = task[t] /\ Answerer(t)
        BY <2>1, <3>2 DEF Working
      <4>2. QED
        BY <1>3, <4>1 DEF Answerer, Temporary
    <3>3. QED
      BY <3>1, <3>2
  <2>2. QED
    BY <2>1 DEF Working
<1>5. Named'
  BY <1>3 DEF Named, Names, Temporary
<1>6. \A r, t \in Sockets : /\ Owes(r, t)' <=> Owes(r, t)
                            /\ Owes(r, t) => task'[r].id = task[r].id
  <2>1. ASSUME NEW r \in Sockets, NEW t \in Sockets
        PROVE  (Owes(r, t)' <=> Owes(r, t)) /\ (Owes(r, t) => task'[r].id = task[r].id)
    <3>1. CASE r = s
      BY <3>1 DEF Owes, Joined
    <3>2. CASE r # s
      BY <1>3, <3>2 DEF Owes, Joined
    <3>3. QED
      BY <3>1, <3>2
  <2>2. QED
    BY <2>1
<1>7. Streams'
  <2>1. ASSUME NEW t \in Sockets, net'[t] # None PROVE Stream(t)'
    <3>1. Stream(t)
      BY <2>1 DEF Streams
    <3>2. CASE t # s
      BY <1>6, <3>1, <3>2, StreamKept
    <3>3. CASE t = s
      <4>1. Script(s)' = Script(s) /\ Whole(s)' = Whole(s)
        BY DEF Script, Garbage, Whole
      <4>2. \A o \in Seq(Bytes) : Flows(s, o) => Flows(s, o)'
        BY <4>1 DEF Flows
      <4>3. QED
        BY <1>6, <3>1, <3>3, <4>2, StreamMoves
    <3>4. QED
      BY <3>2, <3>3
  <2>2. QED
    BY <2>1 DEF Streams
<1>8. Words' /\ Tears'
  <2>1. \A t \in Sockets : task'[t] = task[t] \/ t = s
    OBVIOUS
  <2>2. Words'
    BY <2>1 DEF Words
  <2>3. QED
    BY <2>2 DEF Tears, Whole
<1>9. QED
  BY <1>1, <1>2, <1>4, <1>5, <1>7, <1>8

\* The answer of s is given up.
LEMMA GivesUp ==
  ASSUME IInv, NEW s \in Sockets, task[s].pc = "connect", left' \in Amounts, broken' \in BOOLEAN,
         task' = [task EXCEPT ![s] = Quiet],
         UNCHANGED <<net, conns, rx, threads, stopped, freed, torn, sent, handled>>
  PROVE  IInv'
<1> USE DEF IInv
<1>2. Quiet \in [pc : Pcs, id : Seq(Bytes)] /\ Quiet.pc = "none"
  BY DEF Quiet, Pcs
<1>4. TypeOK'
  BY <1>2 DEF TypeOK, Amounts
<1>5. Logs' /\ Remaining(s)' = Remaining(s)
  BY DEF Logs, Remaining
<1>6. net[s] # None /\ net[s].accepted
  BY <1>2 DEF Untouched
<1>7. /\ \A t \in Sockets \ {s} : rx'[t] = rx[t] /\ handled'[t] = handled[t] /\ task'[t] = task[t]
      /\ task'[s] = Quiet
  BY DEF TypeOK
<1>8. \A o \in Seq(Bytes) :
            Carried(Script(s), handled[s], rx[s], Remaining(s), o, net[s].up, Whole(s)) =>
            Carried(Script(s), handled'[s], rx'[s], Remaining(s)', o, net[s].up, Whole(s))
  BY <1>5
<1>9. QED
  BY <1>2, <1>4, <1>5, <1>6, <1>7, <1>8, SameTable

LEMMA ConnectFailsKeeps ==
  ASSUME IInv, NEW s \in Sockets, ConnectFails(s)
  PROVE  IInv'
<1>1. /\ task[s].pc = "connect" /\ left.breaks > 0 /\ left \in Amounts
      /\ left' = [left EXCEPT !.breaks = @ - 1] /\ broken' = TRUE
      /\ task' = [task EXCEPT ![s] = Quiet]
      /\ UNCHANGED <<net, conns, rx, threads, stopped, freed, torn, sent, handled>>
  BY DEF ConnectFails, IInv, TypeOK, Amounts, ends
<1>2. left' \in Amounts
  BY <1>1, AmountsLess
<1>3. QED
  BY <1>1, <1>2, GivesUp

LEMMA ConnectRefusedKeeps ==
  ASSUME IInv, NEW s \in Sockets, ConnectRefused(s)
  PROVE  IInv'
<1>1. /\ task[s].pc = "connect" /\ left' \in Amounts /\ broken' \in BOOLEAN
      /\ task' = [task EXCEPT ![s] = Quiet]
      /\ UNCHANGED <<net, conns, rx, threads, stopped, freed, torn, sent, handled>>
  BY DEF ConnectRefused, IInv, TypeOK, Amounts, ends
<1>2. QED
  BY <1>1, GivesUp

LEMMA RequestConnectionKeeps ==
  ASSUME IInv, NEW s \in Sockets, RequestConnection(s)
  PROVE  IInv'
<1> USE DEF IInv
<1> DEFINE b == [pc |-> "connect", id |-> Body(s)]
           z == After(s)
           d == Append(handled[s], Call(s))
<1>1. /\ Completes(s) /\ rx[s].call = API_REQUEST_CONNECTION /\ Handled(s)
      /\ task' = [task EXCEPT ![s] = b] /\ task[s] = Quiet
      /\ UNCHANGED <<net, conns, left, threads, stopped, freed, torn, broken, sent>>
  BY DEF RequestConnection, Completes, InLoop, ends
<1>a. Genuine(s)
  <2>1. Call(s).call = API_REQUEST_CONNECTION
    BY <1>1 DEF Call
  <2>2. ~Genuine(s) => ~Whole(s) /\ Call(s) = Garbage(s)
    BY <1>1, CallIs
  <2>3. QED
    BY <2>1, <2>2, ScriptIs DEF API_REQUEST_CONNECTION, API_ANSWER_REQUEST_CONNECTION
<1>2. /\ Serves(s) /\ net[s] # None
      /\ Len(handled[s]) + 1 \in 1 .. Len(sent[s]) /\ Call(s) = sent[s][Len(handled[s]) + 1]
      /\ Call(s) \in Msgs /\ d \in Seq(Msgs) /\ z \in ReaderRecords /\ Bounded(z)
      /\ \A o \in Seq(Bytes) :
            Carried(Script(s), handled[s], rx[s], Remaining(s), o, net[s].up, Whole(s)) =>
            Carried(Script(s), d, z, (z.chunk \o net[s].here) \o net[s].flight, o, net[s].up, Whole(s))
  BY <1>1, <1>a, CallIs
<1>3. rx' = [rx EXCEPT ![s] = z] /\ handled' = [handled EXCEPT ![s] = d]
  BY <1>1 DEF Handled, After, Call
<1>4. /\ Body(s)[1] \in Ids /\ Temporary(net[s].from, Body(s)[1])
      /\ Body(s) = Word(Body(s)[1]) /\ Body(s) \in Seq(Bytes)
  <2>1. Call(s).call = API_REQUEST_CONNECTION /\ Call(s).body = Body(s)
    BY <1>1 DEF Call
  <2>2. Names(s, Call(s))
    BY <1>2 DEF Named
  <2> DEFINE m == Call(s)
  <2>3. m \in Msgs /\ m.call = API_REQUEST_CONNECTION
    BY <1>2, <2>1
  <2> HIDE DEF m
  <2>4. m.body[1] \in Ids /\ m = [call |-> m.call, body |-> Word(m.body[1])]
    BY <2>3, MessageIs
  <2>5. m.body = Word(m.body[1]) /\ m.body \in Seq(Bytes)
    BY <2>4, WordIs
  <2>6. QED
    BY <2>1, <2>2, <2>4, <2>5 DEF Names, m
<1>5. b \in [pc : Pcs, id : Seq(Bytes)] /\ b # Quiet /\ b.pc = "connect" /\ b.id = Body(s)
  <2>1. b.pc = "connect" /\ b.id = Body(s) /\ Quiet.pc = "none"
    BY DEF Quiet
  <2>2. QED
    BY <1>4, <2>1 DEF Pcs
<1> HIDE DEF b, z, d
<1>6. /\ rx'[s] = z /\ handled'[s] = d /\ task'[s] = b
      /\ \A t \in Sockets \ {s} : rx'[t] = rx[t] /\ handled'[t] = handled[t] /\ task'[t] = task[t]
      /\ rx' \in [Sockets -> ReaderRecords] /\ task' \in [Sockets -> [pc : Pcs, id : Seq(Bytes)]]
      /\ handled' \in [Sockets -> Seq(Msgs)]
  BY <1>1, <1>2, <1>3, <1>5 DEF TypeOK, Logs, ReaderRecords
<1>7. TypeOK'
  <2>1. \A t \in Sockets : Bounded(rx'[t])
    BY <1>2, <1>6, ReaderIs
  <2>2. QED
    BY <1>1, <1>6, <2>1 DEF TypeOK, ReaderRecords, Bounded
<1>8. Logs'
  BY <1>1, <1>6 DEF Logs
<1>9. Remaining(s)' = (z.chunk \o net[s].here) \o net[s].flight
  BY <1>1, <1>6 DEF Remaining
<1>10. \A o \in Seq(Bytes) :
            Carried(Script(s), handled[s], rx[s], Remaining(s), o, net[s].up, Whole(s)) =>
            Carried(Script(s), handled'[s], rx'[s], Remaining(s)', o, net[s].up, Whole(s))
  BY <1>2, <1>6, <1>9
<1>11. Answerer(s)'
  <2>1. Joined(net[s].to, OfSocket(s), s) /\ OfSocket(s) \in Ids
    BY <1>2, ServedIs
  <2>2. \A h, i, t : Joined(h, i, t)' <=> Joined(h, i, t)
    BY <1>1 DEF Joined
  <2>3. QED
    BY <1>1, <1>2, <1>4, <1>5, <1>6, <2>1, <2>2 DEF Answerer, Temporary
<1>12. net[s].accepted /\ task[s].pc # "body" /\ task'[s].pc # "body"
       /\ task'[s].id = Word(task'[s].id[1])
  BY <1>1, <1>2, <1>4, <1>5, <1>6, ServedIs DEF Quiet
<1>13. QED
  BY <1>1, <1>2, <1>6, <1>7, <1>8, <1>10, <1>11, <1>12, SameTable

LEMMA StableWrite ==
  ASSUME NEW h \in Hives, NEW i \in Ids, NEW c, Wrote(h, i, c), c # None,
         conns[h][i] # None /\ conns[h][i].ctx = None => c.ctx = None
  PROVE  Stable
  BY DEF Stable, Temporary, Joined, Wrote

LEMMA AnswererKept ==
  ASSUME TypeOK, NEW h \in Hives, NEW i \in Ids, NEW c, Wrote(h, i, c), Grows, Stable,
         NEW r \in Sockets, Answerer(r), task'[r] = task[r],
         conns[h][i] # None => conns[h][i].ctx # r
  PROVE  Answerer(r)'
<1>1. net[r] # None /\ net[r].from \in Hives /\ net[r].to \in Hives
  BY SocketIs DEF Answerer
<1>2. net'[r] # None /\ net'[r].from = net[r].from /\ net'[r].to = net[r].to
  BY <1>1 DEF Grows
<1>3. Temporary(net[r].from, task[r].id[1])'
  <2>1. Temporary(net[r].from, task[r].id[1])
    BY DEF Answerer
  <2> DEFINE g == net[r].from
             k == task[r].id[1]
  <2>2. g \in Hives /\ Temporary(g, k) /\ net'[r].from = g /\ task'[r].id[1] = k
    BY <1>1, <1>2, <2>1
  <2> HIDE DEF g, k
  <2>3. QED
    BY <2>2 DEF Stable, Temporary, Joined
<1>4. PICK j \in Ids : /\ Joined(net[r].to, j, r)
                       /\ task[r].pc \in {"header", "body"} => conns[net[r].to][j].out # None
  BY DEF Answerer
<1>5. conns'[net[r].to][j] = conns[net[r].to][j]
  BY <1>1, <1>4 DEF Wrote, Joined
<1>6. QED
  BY <1>2, <1>3, <1>4, <1>5 DEF Answerer, Joined

\* Who owes does not change when the connection written is not of who owes.
LEMMA OwesWrite ==
  ASSUME TypeOK, Untouched, Grows, NEW h \in Hives, NEW i \in Ids, NEW c, Wrote(h, i, c),
         \A r \in Sockets : task[r].pc = "body" => task'[r] = task[r],
         \A r \in Sockets : task'[r].pc = "body" => task'[r] = task[r],
         \A r \in Sockets : task[r].pc = "body" =>
            (conns[h][i] # None => conns[h][i].ctx # r) /\ c.ctx # r
  PROVE  \A r, t \in Sockets : /\ Owes(r, t)' <=> Owes(r, t)
                               /\ Owes(r, t) => task'[r].id = task[r].id
<1>1. ASSUME NEW r \in Sockets, NEW t \in Sockets
      PROVE  (Owes(r, t)' <=> Owes(r, t)) /\ (Owes(r, t) => task'[r].id = task[r].id)
  <2>1. CASE task[r].pc # "body"
    BY <2>1 DEF Owes, Joined
  <2>2. CASE task[r].pc = "body"
    <3>1. net[r] # None /\ task'[r] = task[r]
      BY <2>2 DEF Untouched, Quiet
    <3>2. net'[r].to = net[r].to /\ net[r].to \in Hives
      BY <3>1, SocketIs DEF Grows
    <3>3. \A j \in Ids : Joined(net[r].to, j, r) =>
             Joined(net[r].to, j, r)' /\ conns'[net[r].to][j] = conns[net[r].to][j]
      BY <2>2, <3>2 DEF Joined, Wrote
    <3>4. \A j \in Ids : conns'[net[r].to][j] # None /\ conns'[net[r].to][j].ctx = r =>
             Joined(net[r].to, j, r) /\ conns'[net[r].to][j] = conns[net[r].to][j]
      BY <2>2, <3>2 DEF Joined, Wrote
    <3>5. \A j \in Ids : Joined(net[r].to, j, r)' <=>
             conns'[net[r].to][j] # None /\ conns'[net[r].to][j].ctx = r
      BY <3>2 DEF Joined
    <3> DEFINE g == net[r].to
    <3>6. (\E j \in Ids : conns'[g][j] # None /\ conns'[g][j].ctx = r /\ conns'[g][j].out = t)
            <=> \E j \in Ids : Joined(g, j, r) /\ conns[g][j].out = t
      BY <3>2, <3>3, <3>4 DEF Joined
    <3>7. QED
      BY <2>2, <3>1, <3>2, <3>6 DEF Owes, Joined
  <2>3. QED
    BY <2>1, <2>2
<1>2. QED
  BY <1>1

LEMMA TypesWritten ==
  ASSUME TypeOK, NEW h \in Hives, NEW i \in Ids, NEW c \in [ctx : Ends, out : Ends, listed : BOOLEAN],
         conns' = [conns EXCEPT ![h][i] = c]
  PROVE  /\ conns' \in [Hives -> [Ids -> {None} \cup [ctx : Ends, out : Ends, listed : BOOLEAN]]]
         /\ Wrote(h, i, c)
<1> DEFINE R == [ctx : Ends, out : Ends, listed : BOOLEAN]
<1>1. conns \in [Hives -> [Ids -> {None} \cup R]] /\ c \in R
  BY DEF TypeOK
<1> HIDE DEF R
<1>2. QED
  BY <1>1 DEF Wrote, R

LEMMA HandleNewConnectionKeeps ==
  ASSUME IInv, NEW s \in Sockets, HandleNewConnection(s)
  PROVE  IInv'
<1> USE DEF IInv
<1>a. net[s] # None /\ HasId(net[s].to) /\ net[s].to \in Hives
  BY SocketIs DEF HandleNewConnection
<1>b. PICK h \in Hives : h = net[s].to
  BY <1>a
<1>c. PICK i \in Ids : i = NewId(h) /\ conns[h][i] = None
  BY <1>a, <1>b, NewIdIs
<1> DEFINE c == [ctx |-> s, out |-> None, listed |-> TRUE]
           p == [net[s] EXCEPT !.accepted = TRUE, !.posted = TRUE]
<1>1. /\ net[s] # None /\ ~net[s].accepted
      /\ conns' = [conns EXCEPT ![h][i] = c]
      /\ UNCHANGED <<rx, task, left, threads, stopped, freed, torn, broken, sent, handled>>
  BY <1>b, <1>c DEF HandleNewConnection, ends
<1>2. net[s] \in SocketRecords /\ h \in Hives /\ s # None /\ h = net[s].to
  BY <1>1, <1>b, SocketIs, NoneApart
<1>3. i \in Ids /\ conns[h][i] = None
  BY <1>c
<1>4. net' = [net EXCEPT ![s] = p]
  <2>1. net' = [net EXCEPT ![s].accepted = TRUE, ![s].posted = TRUE]
    BY DEF HandleNewConnection
  <2>2. net = [t \in Sockets |-> net[t]]
    BY DEF TypeOK
  <2>3. QED
    BY <2>1, <2>2
<1>5. /\ p \in SocketRecords /\ p.from = net[s].from /\ p.to = h /\ p.accepted = TRUE
      /\ p.flight = net[s].flight /\ p.here = net[s].here /\ p.up = net[s].up /\ p # None
  <2>1. p \in SocketRecords
    <3>1. <<>> \in Seq(Bytes) /\ TRUE \in BOOLEAN
      OBVIOUS
    <3>2. QED
      BY <1>2, <3>1, RecordWith
  <2>2. QED
    BY <1>2, <2>1, NoneApart DEF SocketRecords
<1>6. c \in [ctx : Ends, out : Ends, listed : BOOLEAN] /\ c.ctx = s /\ c.out = None /\ c.listed = TRUE
      /\ c # None
  BY NoneApart DEF Ends
<1> HIDE DEF c, p
<1>7. /\ net'[s] = p /\ \A t \in Sockets \ {s} : net'[t] = net[t]
      /\ net' \in [Sockets -> {None} \cup SocketRecords]
  BY <1>4, <1>5 DEF TypeOK, SocketRecords
<1>8. /\ conns' \in [Hives -> [Ids -> {None} \cup [ctx : Ends, out : Ends, listed : BOOLEAN]]]
      /\ Wrote(h, i, c)
  BY <1>1, <1>2, <1>3, <1>6, TypesWritten
<1>9. TypeOK' /\ Logs'
  BY <1>1, <1>7, <1>8 DEF TypeOK, SocketRecords, Logs
<1>10. Grows
  BY <1>1, <1>2, <1>5, <1>7 DEF Grows
<1>11. Stable
  BY <1>2, <1>3, <1>6, <1>8, StableWrite
<1>12. Facing'
  BY <1>1, <1>7, <1>10, FacingKept
<1>13. Untouched'
  BY <1>1, <1>5, <1>7 DEF Untouched
<1>14. Table'
  <2>1. Row(h, i)'
    BY <1>2, <1>5, <1>6, <1>7, <1>8 DEF Row, Wrote
  <2>2. \A j \in Ids \ {i} : conns[h][j] # None => conns[h][j].ctx # s
    BY <1>1, <1>2 DEF Table, Row
  <2>3. QED
    BY <1>1, <1>2, <1>3, <1>6, <1>8, <1>10, <2>1, <2>2, TableWrite
<1>15. Working'
  <2>1. ASSUME NEW r \in Sockets, task'[r] # Quiet PROVE Answerer(r)'
    <3>1. Answerer(r)
      BY <1>1, <2>1 DEF Working
    <3>2. task'[r] = task[r]
      BY <1>1
    <3>3. QED
      BY <1>2, <1>3, <1>8, <1>10, <1>11, <3>1, <3>2, AnswererKept
  <2>2. QED
    BY <2>1 DEF Working
<1>16. Named'
  BY <1>1, <1>10, <1>11, NamedKept
<1>17. \A r, t \in Sockets : /\ Owes(r, t)' <=> Owes(r, t)
                             /\ Owes(r, t) => task'[r].id = task[r].id
  <2>1. task[s] = Quiet /\ Quiet.pc # "body"
    BY <1>1 DEF Untouched, Quiet
  <2>2. \A r \in Sockets : task[r].pc = "body" => c.ctx # r
    BY <1>6, <2>1
  <2>3. QED
    BY <1>1, <1>2, <1>3, <1>8, <1>10, <2>2, OwesWrite
<1>18. Streams'
  <2>1. ASSUME NEW t \in Sockets, net'[t] # None PROVE Stream(t)'
    <3>1. net[t] # None /\ Stream(t)
      BY <1>1, <1>7, <2>1 DEF Streams
    <3>2. CASE t # s
      BY <1>1, <1>7, <1>17, <3>1, <3>2, StreamKept
    <3>3. CASE t = s
      <4>1. Remaining(s)' = Remaining(s) /\ net'[s].up = net[s].up
        BY <1>1, <1>5, <1>7 DEF Remaining
      <4>2. Script(s)' = Script(s) /\ Whole(s)' = Whole(s)
        BY <1>1 DEF Script, Garbage, Whole
      <4>3. \A o \in Seq(Bytes) : Flows(s, o) => Flows(s, o)'
        BY <1>1, <4>1, <4>2 DEF Flows
      <4>4. QED
        BY <1>1, <1>17, <3>1, <3>3, <4>1, <4>3, StreamMoves
    <3>4. QED
      BY <3>2, <3>3
  <2>2. QED
    BY <2>1 DEF Streams
<1>19. Words' /\ Tears'
  BY <1>1 DEF Words, Tears, Whole
<1>20. QED
  BY <1>9, <1>12, <1>13, <1>14, <1>15, <1>16, <1>18, <1>19

LEMMA OpenedIs ==
  ASSUME NEW h \in Hives, NEW b \in Seq(Bytes)
  PROVE  /\ Opened(h, b) \in SocketRecords /\ Opened(h, b) # None
         /\ Opened(h, b).from = h /\ Opened(h, b).to = Other(h) /\ Opened(h, b).up = TRUE
         /\ Opened(h, b).accepted = FALSE /\ Opened(h, b).here = <<>> /\ Opened(h, b).flight = b
<1>1. Other(h) \in Hives /\ <<>> \in Seq(Bytes)
  BY OtherIs
<1>2. Opened(h, b) \in SocketRecords
  BY <1>1 DEF Opened, SocketRecords
<1>3. Opened(h, b) # None
  BY <1>2, NoneApart DEF SocketRecords
<1>4. QED
  BY <1>2, <1>3 DEF Opened

\* A socket that was free and is opened for h with the bytes b under way.
LEMMA OpenedStream ==
  ASSUME IInv, NEW t \in Sockets, net[t] = None, NEW h \in Hives, NEW b \in Seq(Bytes),
         net'[t] = Opened(h, b), rx'[t] = rx[t], handled'[t] = handled[t],
         \A r \in Sockets : ~Owes(r, t)',
         Carried(Script(t)', <<>>, Fresh, b, <<>>, TRUE, Whole(t)')
  PROVE  Stream(t)'
<1>1. rx'[t] = Fresh /\ handled'[t] = <<>>
  BY DEF IInv, Untouched
<1>2. Remaining(t)' = b /\ net'[t].up = TRUE
  <2>1. Remaining(t)' = (<<>> \o <<>>) \o b /\ net'[t].up = TRUE
    <3>1. /\ net'[t].here = <<>> /\ net'[t].flight = b /\ net'[t].up = TRUE
          /\ rx'[t].chunk = <<>>
      <4>1. Opened(h, b).here = <<>> /\ Opened(h, b).flight = b /\ Opened(h, b).up = TRUE
        BY DEF Opened
      <4>2. Fresh.chunk = <<>>
        BY DEF Fresh
      <4>3. QED
        BY <1>1, <4>1, <4>2
    <3>2. QED
      BY <3>1 DEF Remaining
  <2>2. (<<>> \o <<>>) \o b = b
    <3>1. <<>> \o <<>> = <<>>
      OBVIOUS
    <3>2. QED
      BY <3>1, ConcatEmptySeq
  <2>3. QED
    BY <2>1, <2>2
<1>3. Flows(t, <<>>)'
  BY <1>1, <1>2 DEF Flows
<1>4. QED
  BY <1>3 DEF Stream

\* Nothing was sent into a socket that is free.
LEMMA FreeBlank ==
  ASSUME IInv, NEW t \in Sockets, net[t] = None
  PROVE  sent[t] = <<>> /\ torn[t] = 0
<1>1. sent[t] = <<>> /\ torn[t] \in Nat
  BY SocketIs DEF IInv, Untouched
<1>2. torn[t] = 0 \/ torn[t] < Len(sent[t])
  BY DEF IInv, Tears, Whole
<1>3. Len(sent[t]) = 0
  BY <1>1
<1>4. QED
  BY <1>1, <1>2, <1>3

LEMMA InitiateConnectionKeeps ==
  ASSUME IInv, NEW h \in Hives, InitiateConnection(h)
  PROVE  IInv'
<1> USE DEF IInv
<1>a. PICK s \in Sockets : s = FreeSocket /\ net[s] = None
  BY FreeSocketIs DEF InitiateConnection
<1>b. PICK i \in Ids : i = NewId(h) /\ conns[h][i] = None
  BY NewIdIs DEF InitiateConnection
<1> DEFINE m == [call |-> API_REQUEST_CONNECTION, body |-> Word(i)]
           b == Encode(m)
           p == Opened(h, b)
           c == [ctx |-> None, out |-> s, listed |-> TRUE]
<1>1. /\ net' = [net EXCEPT ![s] = p]
      /\ conns' = [conns EXCEPT ![h][i] = c]
      /\ sent' = [sent EXCEPT ![s] = <<m>>]
      /\ left.initiates > 0 /\ left' = [left EXCEPT !.initiates = @ - 1]
      /\ UNCHANGED <<rx, task, threads, stopped, freed, torn, broken, handled>>
  BY <1>a, <1>b DEF InitiateConnection, ends
<1>2. m \in Msgs /\ b \in Seq(Bytes) /\ m.call = API_REQUEST_CONNECTION /\ m.body = Word(i)
      /\ m \in Frames
  <2>1. m \in Msgs /\ m.call = API_REQUEST_CONNECTION /\ m.body = Word(i)
    BY DEF Msgs
  <2> HIDE DEF m
  <2>2. m \in Frames
    BY <2>1, MessageIs
  <2>3. QED
    BY <2>1, <2>2, EncodeIs
<1>3. /\ p \in SocketRecords /\ p # None
      /\ p.from = h /\ p.to = Other(h) /\ p.up = TRUE /\ p.accepted = FALSE
  BY <1>2, OpenedIs
<1>4. c \in [ctx : Ends, out : Ends, listed : BOOLEAN] /\ c.ctx = None /\ c.out = s /\ c.listed = TRUE
      /\ c # None /\ s # None
  BY NoneApart DEF Ends
<1>5. Carried(<<m>>, <<>>, Fresh, b, <<>>, TRUE, TRUE)
  <2>1. Joins(Encode(m), b, <<>>) /\ <<>> \in Seq(Bytes) /\ <<>> \in Seq(Frames) /\ Fresh \in Contexts
    <3>1. Joins(b, b, <<>>)
      BY <1>2 DEF Joins
    <3>2. Fresh \in Contexts
      BY Widths DEF Fresh, Contexts, WAITING_MESSAGE, Bytes
    <3>3. QED
      BY <3>1, <3>2
  <2> HIDE DEF m, b
  <2>2. Carried(Append(<<>>, m), <<>>, Fresh, <<>> \o b, <<>>, TRUE, TRUE)
    BY <1>2, <2>1, Blank, Sent
  <2>3. <<>> \o b = b /\ Append(<<>>, m) = <<m>>
    BY <1>2, ConcatEmptySeq
  <2>4. QED
    BY <2>2, <2>3
<1>6. left' \in Amounts
  <2>1. left \in Amounts
    BY DEF TypeOK, Amounts
  <2>2. QED
    BY <1>1, <2>1, AmountsLess
<1> HIDE DEF c, p, m, b
<1>7. /\ net'[s] = p /\ \A t \in Sockets \ {s} : net'[t] = net[t]
      /\ net' \in [Sockets -> {None} \cup SocketRecords]
  BY <1>1, <1>3 DEF TypeOK, SocketRecords
<1>8. /\ conns' \in [Hives -> [Ids -> {None} \cup [ctx : Ends, out : Ends, listed : BOOLEAN]]]
      /\ Wrote(h, i, c)
  BY <1>1, <1>4, TypesWritten
<1>9. /\ sent' \in [Sockets -> Seq(Msgs)]
      /\ sent'[s] = <<m>> /\ \A t \in Sockets \ {s} : sent'[t] = sent[t]
  BY <1>1, <1>2 DEF Logs
<1>10. TypeOK' /\ Logs'
  BY <1>1, <1>6, <1>7, <1>8, <1>9 DEF TypeOK, SocketRecords, Logs, Amounts
<1>11. Grows
  BY <1>a, <1>7 DEF Grows
<1>12. Stable
  BY <1>4, <1>8, <1>b, StableWrite
<1>13. Facing'
  BY <1>3, <1>7, <1>11, FacingKept
<1>14. Untouched'
  BY <1>1, <1>3, <1>7, <1>9, <1>a DEF Untouched
<1>15. Table'
  <2>1. Row(h, i)'
    BY <1>3, <1>4, <1>7, <1>8 DEF Row, Wrote
  <2>2. \A j \in Ids \ {i} : conns[h][j] # None => conns[h][j].out # s
    BY <1>a, <1>4 DEF Table, Row
  <2>3. QED
    BY <1>4, <1>8, <1>11, <2>1, <2>2, TableWrite
<1>16. Working'
  <2>1. ASSUME NEW r \in Sockets, task'[r] # Quiet PROVE Answerer(r)'
    <3>1. Answerer(r)
      BY <1>1, <2>1 DEF Working
    <3>2. task'[r] = task[r]
      BY <1>1
    <3>3. QED
      BY <1>b, <1>8, <1>11, <1>12, <3>1, <3>2, AnswererKept
  <2>2. QED
    BY <2>1 DEF Working
<1>17. Named'
  <2>1. Names(s, m)'
    <3>1. Temporary(h, i)'
      BY <1>4, <1>8 DEF Temporary, Joined, Wrote
    <3>a. Word(i)[1] = i
      BY WordIs
    <3>2. m.body[1] = i /\ m' = m /\ net'[s].from = h /\ API_REQUEST_CONNECTION # API_ANSWER_REQUEST_CONNECTION
      BY <1>2, <1>3, <1>7, <3>a DEF API_REQUEST_CONNECTION, API_ANSWER_REQUEST_CONNECTION, m
    <3>3. QED
      BY <1>2, <3>1, <3>2 DEF Names
  <2>2. ASSUME NEW t \in Sockets, NEW k \in 1 .. Len(sent'[t])
        PROVE  (k \in 1 .. Len(sent[t]) /\ sent'[t][k] = sent[t][k]) \/ Names(t, sent[t][k])'
    <3>1. CASE t # s
      BY <1>9, <3>1
    <3>2. CASE t = s
      <4>1. sent'[t][k] = m
        BY <1>9, <3>2
      <4>2. QED
        BY <2>1, <3>2, <4>1 DEF m
    <3>3. QED
      BY <3>1, <3>2
  <2>3. QED
    BY <1>11, <1>12, <2>2, NamedKept
<1>18. \A r, t \in Sockets : /\ Owes(r, t)' <=> Owes(r, t)
                             /\ Owes(r, t) => task'[r].id = task[r].id
  <2>1. \A r \in Sockets : c.ctx # r
    BY <1>4, NoneApart
  <2>2. QED
    BY <1>1, <1>b, <1>8, <1>11, <2>1, OwesWrite
<1>19. Streams'
  <2>1. ASSUME NEW t \in Sockets, net'[t] # None PROVE Stream(t)'
    <3>1. CASE t # s
      <4>1. net[t] # None /\ Stream(t)
        BY <1>7, <2>1, <3>1 DEF Streams
      <4>2. QED
        BY <1>1, <1>7, <1>9, <1>18, <3>1, <4>1, StreamKept
    <3>2. CASE t = s
      <4>1. \A r \in Sockets : ~Owes(r, s)
        <5>1. ASSUME NEW r \in Sockets, Owes(r, s) PROVE FALSE
          <6>1. PICK j \in Ids : Joined(net[r].to, j, r) /\ conns[net[r].to][j].out = s
            BY <5>1 DEF Owes, Joined
          <6>2. net[r] # None
            BY <5>1 DEF Owes, Joined, Untouched, Quiet
          <6>3. QED
            BY <1>a, <1>4, <6>1, <6>2, SocketIs DEF Table, Row, Joined
        <5>2. QED
          BY <5>1
      <4>2. net'[s] = Opened(h, b) /\ rx'[s] = rx[s] /\ handled'[s] = handled[s] /\ b \in Seq(Bytes)
        BY <1>1, <1>2, <1>7 DEF p
      <4>3. Script(s)' = <<m>> /\ Whole(s)' = TRUE
        BY <1>1, <1>9, <1>a, FreeBlank DEF Script, Whole
      <4>4. \A r \in Sockets : ~Owes(r, s)'
        BY <1>18, <4>1
      <4>5. QED
        BY <1>5, <1>a, <3>2, <4>2, <4>3, <4>4, OpenedStream
    <3>3. QED
      BY <3>1, <3>2
  <2>2. QED
    BY <2>1 DEF Streams
<1>20. Words' /\ Tears'
  <2>1. torn[s] = 0
    BY <1>a, FreeBlank
  <2>2. \A t \in Sockets : t # s => torn'[t] = torn[t] /\ sent'[t] = sent[t]
    BY <1>1, <1>9
  <2>3. QED
    BY <1>1, <2>1, <2>2 DEF Words, Tears, Whole
<1>21. QED
  BY <1>10, <1>13, <1>14, <1>15, <1>16, <1>17, <1>19, <1>20

\* Nobody owes to a socket that is free.
LEMMA FreeUnowed ==
  ASSUME IInv, NEW t \in Sockets, net[t] = None
  PROVE  \A r \in Sockets : ~Owes(r, t)
<1> SUFFICES ASSUME NEW r \in Sockets, Owes(r, t) PROVE FALSE
  OBVIOUS
<1> USE DEF IInv
<1>1. PICK j \in Ids : Joined(net[r].to, j, r) /\ conns[net[r].to][j].out = t
  BY DEF Owes, Joined
<1>2. net[r] # None /\ t # None
  BY NoneApart DEF Owes, Joined, Untouched, Quiet
<1>3. QED
  BY <1>1, <1>2, SocketIs DEF Table, Row, Joined

\* The connection of a socket whose answer is due.
LEMMA AnswererIs ==
  ASSUME IInv, NEW s \in Sockets, task[s] # Quiet
  PROVE  /\ net[s] # None /\ net[s].to \in Hives /\ net[s].accepted
         /\ Joined(net[s].to, OfSocket(s), s) /\ OfSocket(s) \in Ids
         /\ conns[net[s].to][OfSocket(s)] \in [ctx : Ends, out : Ends, listed : BOOLEAN]
         /\ task[s].pc \in {"header", "body"} => conns[net[s].to][OfSocket(s)].out # None
         /\ Temporary(net[s].from, task[s].id[1]) /\ net[s].from \in Hives
<1> USE DEF IInv
<1>1. Answerer(s)
  BY DEF Working
<1>2. net[s] # None /\ net[s].to \in Hives /\ net[s].from \in Hives
  BY <1>1, SocketIs DEF Answerer
<1>3. PICK i \in Ids : /\ Joined(net[s].to, i, s)
                       /\ task[s].pc \in {"header", "body"} => conns[net[s].to][i].out # None
  BY <1>1 DEF Answerer
<1>4. OfSocket(s) = i
  BY <1>2, <1>3, OfSocketIs
<1>5. net[s].accepted
  BY DEF Untouched
<1>6. QED
  BY <1>1, <1>2, <1>3, <1>4, <1>5, RowIs DEF Answerer, Joined

LEMMA ConnectBackKeeps ==
  ASSUME IInv, NEW s \in Sockets, ConnectBack(s)
  PROVE  IInv'
<1> USE DEF IInv
<1>a. task[s].pc = "connect" /\ task[s] # Quiet /\ HasSocket
  BY DEF ConnectBack, Quiet
<1>b. PICK h \in Hives : h = net[s].to
  BY <1>a, AnswererIs
<1>c. PICK i \in Ids : i = OfSocket(s) /\ Joined(h, i, s)
  BY <1>a, <1>b, AnswererIs
<1>d. PICK t \in Sockets : t = FreeSocket /\ net[t] = None
  BY <1>a, FreeSocketIs
<1>e. /\ net[s] # None /\ net[s].to = h /\ net[s].accepted /\ s # t
      /\ Temporary(net[s].from, task[s].id[1]) /\ net[s].from \in Hives
      /\ conns[h][i] \in [ctx : Ends, out : Ends, listed : BOOLEAN]
      /\ conns[h][i] # None /\ conns[h][i].ctx = s /\ conns[h][i].listed
      /\ s # None /\ t # None
  <2>1. /\ net[s] # None /\ net[s].to = h /\ net[s].accepted /\ s # t /\ s # None /\ t # None
        /\ Temporary(net[s].from, task[s].id[1]) /\ net[s].from \in Hives
        /\ conns[h][i] \in [ctx : Ends, out : Ends, listed : BOOLEAN]
    BY <1>a, <1>b, <1>c, <1>d, AnswererIs, NoneApart
  <2>2. conns[h][i] # None /\ conns[h][i].ctx = s
    BY <1>c DEF Joined
  <2>3. conns[h][i].listed
    BY <2>1, <2>2 DEF Table, Row
  <2>4. QED
    BY <2>1, <2>2, <2>3
<1> DEFINE c == [conns[h][i] EXCEPT !.out = t]
           p == Opened(h, <<>>)
           b == [task[s] EXCEPT !.pc = "header"]
<1>1. /\ net' = [net EXCEPT ![t] = p]
      /\ conns' = [conns EXCEPT ![h][i] = c]
      /\ task' = [task EXCEPT ![s] = b]
      /\ UNCHANGED <<rx, left, threads, stopped, freed, torn, broken, sent, handled>>
  <2>1. /\ net' = [net EXCEPT ![t] = p] /\ conns' = [conns EXCEPT ![h][i].out = t]
        /\ task' = [task EXCEPT ![s].pc = "header"]
        /\ UNCHANGED <<rx, left, threads, stopped, freed, torn, broken, sent, handled>>
    BY <1>b, <1>c, <1>d DEF ConnectBack, ends
  <2>2. QED
    BY <2>1
<1>2. <<>> \in Seq(Bytes)
  OBVIOUS
<1>3. /\ p \in SocketRecords /\ p # None
      /\ p.from = h /\ p.to = Other(h) /\ p.up = TRUE /\ p.accepted = FALSE
  BY <1>2, OpenedIs
<1>4. c \in [ctx : Ends, out : Ends, listed : BOOLEAN] /\ c.ctx = s /\ c.out = t /\ c.listed = TRUE
      /\ c # None
  <2>1. c \in [ctx : Ends, out : Ends, listed : BOOLEAN] /\ c.ctx = s /\ c.out = t /\ c.listed = TRUE
    BY <1>e DEF Ends
  <2>2. QED
    BY <2>1, NoneApart
<1>5. b \in [pc : Pcs, id : Seq(Bytes)] /\ b.pc = "header" /\ b.id = task[s].id
  BY DEF TypeOK, Pcs
<1> HIDE DEF c, p, b
<1>7. /\ net'[t] = p /\ \A u \in Sockets \ {t} : net'[u] = net[u]
      /\ net' \in [Sockets -> {None} \cup SocketRecords]
  BY <1>1, <1>3 DEF TypeOK, SocketRecords
<1>8. /\ conns' \in [Hives -> [Ids -> {None} \cup [ctx : Ends, out : Ends, listed : BOOLEAN]]]
      /\ Wrote(h, i, c)
  BY <1>1, <1>4, TypesWritten
<1>9. /\ task' \in [Sockets -> [pc : Pcs, id : Seq(Bytes)]]
      /\ task'[s] = b /\ \A u \in Sockets \ {s} : task'[u] = task[u]
  BY <1>1, <1>5 DEF TypeOK
<1>10. TypeOK' /\ Logs'
  BY <1>1, <1>7, <1>8, <1>9 DEF TypeOK, SocketRecords, Logs
<1>11. Grows
  BY <1>d, <1>7 DEF Grows
<1>12. Stable
  BY <1>e, <1>4, <1>8, StableWrite
<1>13. Facing'
  BY <1>3, <1>7, <1>11, FacingKept
<1>14. Untouched'
  BY <1>1, <1>3, <1>7, <1>9, <1>d, <1>e DEF Untouched
<1>15. Table'
  <2>1. Row(h, i)'
    <3>1. net'[s] = net[s]
      BY <1>7, <1>e
    <3>2. QED
      BY <1>3, <1>4, <1>7, <1>8, <1>e, <3>1 DEF Row, Wrote
  <2>2. \A j \in Ids \ {i} : conns[h][j] # None => conns[h][j].out # t /\ conns[h][j].ctx # s
    BY <1>d, <1>e DEF Table, Row, Apart
  <2>3. QED
    BY <1>4, <1>8, <1>11, <2>1, <2>2, TableWrite
<1>16. Working'
  <2>1. ASSUME NEW r \in Sockets, task'[r] # Quiet PROVE Answerer(r)'
    <3>1. CASE r # s
      <4>1. Answerer(r) /\ task'[r] = task[r]
        BY <1>9, <2>1, <3>1 DEF Working
      <4>2. QED
        BY <1>e, <1>8, <1>11, <1>12, <3>1, <4>1, AnswererKept
    <3>2. CASE r = s
      <4>1. net'[s] = net[s] /\ task'[s].id = task[s].id
        BY <1>5, <1>7, <1>9, <1>e
      <4> DEFINE g == net[s].from
                 k == task[s].id[1]
      <4>2. Temporary(g, k) /\ g \in Hives /\ net'[s].from = g /\ task'[s].id[1] = k /\ net'[s].to = h
            /\ net'[s] # None
        BY <1>e, <4>1
      <4> HIDE DEF g, k
      <4>3. Temporary(net[s].from, task[s].id[1])'
        BY <1>12, <4>2 DEF Stable, Temporary, Joined
      <4>4. Joined(net[s].to, i, s)' /\ conns'[net'[s].to][i].out # None
        BY <1>4, <1>8, <1>e, <4>2 DEF Joined, Wrote
      <4>5. QED
        BY <3>2, <4>2, <4>3, <4>4 DEF Answerer
    <3>3. QED
      BY <3>1, <3>2
  <2>2. QED
    BY <2>1 DEF Working
<1>17. Named'
  BY <1>1, <1>11, <1>12, NamedKept
<1>18. \A r, u \in Sockets : /\ Owes(r, u)' <=> Owes(r, u)
                             /\ Owes(r, u) => task'[r].id = task[r].id
  <2>1. \A r \in Sockets : task[r].pc = "body" => c.ctx # r /\ conns[h][i].ctx # r /\ task'[r] = task[r]
    BY <1>a, <1>4, <1>9, <1>e
  <2>2. \A r \in Sockets : task'[r].pc = "body" => task'[r] = task[r]
    BY <1>5, <1>9
  <2>3. QED
    BY <1>8, <1>11, <2>1, <2>2, OwesWrite
<1>19. Streams'
  <2>1. ASSUME NEW u \in Sockets, net'[u] # None PROVE Stream(u)'
    <3>1. CASE u # t
      <4>1. net[u] # None /\ Stream(u)
        BY <1>7, <2>1, <3>1 DEF Streams
      <4>2. QED
        BY <1>1, <1>7, <1>18, <3>1, <4>1, StreamKept
    <3>2. CASE u = t
      <4>1. \A r \in Sockets : ~Owes(r, t)
        BY <1>d, FreeUnowed
      <4>2. net'[t] = Opened(h, <<>>) /\ rx'[t] = rx[t] /\ handled'[t] = handled[t]
            /\ sent'[t] = <<>>
        BY <1>1, <1>7, <1>d DEF p, Untouched
      <4>3. Script(t)' = <<>> /\ Whole(t)' = TRUE
        BY <1>1, <1>d, FreeBlank DEF Script, Whole
      <4>4. \A r \in Sockets : ~Owes(r, t)'
        BY <1>18, <4>1
      <4>5. QED
        BY <1>2, <1>d, <3>2, <4>2, <4>3, <4>4, Blank, OpenedStream
    <3>3. QED
      BY <3>1, <3>2
  <2>2. QED
    BY <2>1 DEF Streams
<1>20. Words' /\ Tears'
  <2>1. ASSUME NEW u \in Sockets, task'[u] # Quiet PROVE task'[u].id = Word(task'[u].id[1])
    <3>1. task[u] # Quiet /\ task'[u].id = task[u].id
      BY <1>5, <1>9, <1>a, <2>1
    <3>2. QED
      BY <3>1 DEF Words
  <2>2. QED
    BY <1>1, <2>1 DEF Words, Tears, Whole
<1>21. QED
  BY <1>10, <1>13, <1>14, <1>15, <1>16, <1>17, <1>19, <1>20

\* The socket that an answer goes to.
LEMMA OutOfIs ==
  ASSUME IInv, NEW s \in Sockets, task[s].pc \in {"header", "body"}
  PROVE  /\ OutOf(s) \in Sockets /\ net[OutOf(s)] # None /\ net[OutOf(s)] \in SocketRecords
         /\ net[OutOf(s)].from = net[s].to /\ net[s] # None /\ net[s].accepted
         /\ Answer(s) \in Msgs /\ Answer(s).body = task[s].id
         /\ Answer(s).call = API_ANSWER_REQUEST_CONNECTION
         /\ Names(OutOf(s), Answer(s))
         /\ \A r \in Sockets : Owes(r, OutOf(s)) => r = s
         /\ \A u : Owes(s, u) => u = OutOf(s)
         /\ Owes(s, OutOf(s)) <=> task[s].pc = "body"
<1> USE DEF IInv
<1>1. task[s] # Quiet
  BY DEF Quiet
<1> DEFINE h == net[s].to
           i == OfSocket(s)
           o == conns[h][i].out
<1>2. /\ net[s] # None /\ h \in Hives /\ net[s].accepted /\ Joined(h, i, s) /\ i \in Ids
      /\ conns[h][i] \in [ctx : Ends, out : Ends, listed : BOOLEAN]
      /\ o # None /\ Temporary(net[s].from, task[s].id[1]) /\ net[s].from \in Hives
  BY <1>1, AnswererIs
<1>3. OutOf(s) = o
  BY DEF OutOf
<1>4. o \in Sockets /\ net[o] # None /\ net[o].from = h
  BY <1>2 DEF Ends, Table, Row, Joined
<1>5. net[o] \in SocketRecords
  BY <1>4, SocketIs
<1>6. task[s].id[1] \in Ids /\ task[s].id = Word(task[s].id[1])
  BY <1>1, <1>2 DEF Temporary, Joined, Words
<1>7. /\ Answer(s) \in Msgs /\ Answer(s).body = task[s].id
      /\ Answer(s).call = API_ANSWER_REQUEST_CONNECTION
  BY <1>6 DEF Answer, Msgs
<1>8. Names(o, Answer(s))
  <2>1. net[s].to = Other(net[s].from) /\ net[o].to = Other(h)
    BY <1>2, <1>4 DEF Facing
  <2>2. net[o].to = net[s].from
    BY <1>2, <2>1, OtherIs
  <2>3. Temporary(net[o].to, Answer(s).body[1])
    BY <1>2, <1>7, <2>2
  <2>4. QED
    BY <1>7, <2>3 DEF Names, API_REQUEST_CONNECTION, API_ANSWER_REQUEST_CONNECTION
<1>9. ASSUME NEW r \in Sockets, Owes(r, o) PROVE r = s
  BY <1>2, <1>4, <1>9, OwesOnce
<1>10. ASSUME NEW u, Owes(s, u) PROVE u = o
  <2>1. PICK j \in Ids : Joined(h, j, s) /\ conns[h][j].out = u
    BY <1>10 DEF Owes, Joined
  <2>2. j = i
    BY <1>2, <2>1, OfSocketIs
  <2>3. QED
    BY <2>1, <2>2
<1>11. Owes(s, o) <=> task[s].pc = "body"
  BY <1>2 DEF Owes, Joined
<1>12. QED
  BY <1>2, <1>3, <1>4, <1>5, <1>7, <1>8, <1>9, <1>10, <1>11

\* A step of an answer: s goes on, and the socket o that it writes to.
LEMMA AnswerStep ==
  ASSUME IInv, NEW s \in Sockets, task[s].pc \in {"header", "body"},
         NEW o \in Sockets, o = OutOf(s),
         TypeOK', Logs', Named', Tears', Stream(o)', UNCHANGED <<conns, rx, torn, handled>>,
         \A u \in Sockets \ {s} : task'[u] = task[u],
         task'[s] # Quiet => task'[s].pc = "body" /\ task'[s].id = task[s].id,
         \A u \in Sockets \ {o} : net'[u] = net[u] /\ sent'[u] = sent[u],
         net'[o] # None, net'[o].from = net[o].from, net'[o].to = net[o].to,
         net'[o].accepted = net[o].accepted
  PROVE  IInv'
<1> USE DEF IInv
<1>1. /\ net[o] # None /\ net[s] # None /\ net[s].accepted
      /\ \A u : Owes(s, u) => u = o
  BY OutOfIs
<1>2. /\ Grows
      /\ \A u \in Sockets : net'[u] = None <=> net[u] = None
      /\ \A u \in Sockets : net[u] # None => net'[u].accepted = net[u].accepted
  <2>1. ASSUME NEW u \in Sockets
        PROVE  /\ net'[u] = None <=> net[u] = None
               /\ net[u] # None => /\ net'[u].from = net[u].from /\ net'[u].to = net[u].to
                                  /\ net'[u].accepted = net[u].accepted
    <3>1. CASE u = o
      BY <1>1, <3>1
    <3>2. CASE u # o
      BY <3>2
    <3>3. QED
      BY <3>1, <3>2
  <2>2. QED
    BY <2>1 DEF Grows
<1>3. Facing'
  BY <1>2, FacingKept
<1>4. Untouched'
  BY <1>1, <1>2 DEF Untouched
<1>5. Table'
  <2>1. ASSUME NEW h \in Hives, NEW i \in Ids PROVE Row(h, i)'
    <3>1. conns[h][i] # None => conns[h][i].ctx \in Sockets \cup {None} /\ conns[h][i].out \in Sockets \cup {None}
      BY RowIs
    <3>2. QED
      BY <1>2, <3>1 DEF Table, Row, Grows
  <2>2. QED
    BY <2>1 DEF Table, Apart
<1>6. \A h, i, t : Joined(h, i, t)' <=> Joined(h, i, t)
  BY DEF Joined
<1>7. Working'
  <2>1. ASSUME NEW u \in Sockets, task'[u] # Quiet PROVE Answerer(u)'
    <3>1. task'[u].id = task[u].id /\ Answerer(u)
          /\ (task'[u].pc \in {"header", "body"} => task[u].pc \in {"header", "body"})
      BY <2>1 DEF Working, Quiet
    <3>2. net[u] # None /\ net'[u] # None /\ net'[u].from = net[u].from /\ net'[u].to = net[u].to
      BY <1>2, <3>1 DEF Answerer, Grows
    <3>3. QED
      BY <1>6, <3>1, <3>2 DEF Answerer, Temporary
  <2>2. QED
    BY <2>1 DEF Working
<1>8. Streams'
  <2>1. ASSUME NEW u \in Sockets, u # o, net'[u] # None PROVE Stream(u)'
    <3>1. ASSUME NEW r \in Sockets
          PROVE  (Owes(r, u)' <=> Owes(r, u)) /\ (Owes(r, u) => task'[r].id = task[r].id)
      <4>1. CASE r = s
        <5>1. ~Owes(s, u)
          BY <1>1, <2>1
        <5>2. ~Owes(s, u)'
          <6>1. ASSUME Owes(s, u)' PROVE FALSE
            <7>1. PICK j \in Ids : Joined(net'[s].to, j, s) /\ conns[net'[s].to][j].out = u
              BY <6>1 DEF Owes, Joined
            <7>2. net'[s].to = net[s].to
              BY <1>1, <1>2 DEF Grows
            <7>3. OfSocket(s) = j
              BY <1>1, <7>1, <7>2, OfSocketIs
            <7>4. QED
              BY <2>1, <7>1, <7>2, <7>3 DEF OutOf
          <6>2. QED
            BY <6>1
        <5>3. QED
          BY <4>1, <5>1, <5>2
      <4>2. CASE r # s
        <5>1. CASE task[r].pc # "body"
          BY <4>2, <5>1 DEF Owes, Joined
        <5>2. CASE task[r].pc = "body"
          <6>1. net[r] # None /\ net'[r].to = net[r].to
            BY <1>2, <5>2 DEF Untouched, Quiet, Grows
          <6>2. QED
            BY <1>6, <4>2, <6>1 DEF Owes, Joined
        <5>3. QED
          BY <5>1, <5>2
      <4>3. QED
        BY <4>1, <4>2
    <3>2. Stream(u)
      BY <1>2, <2>1 DEF Streams
    <3>3. QED
      BY <2>1, <3>1, <3>2, StreamKept
  <2>2. QED
    BY <2>1 DEF Streams
<1>9. Words'
  <2>1. ASSUME NEW u \in Sockets, task'[u] # Quiet PROVE task'[u].id = Word(task'[u].id[1])
    <3>1. task[u] # Quiet /\ task'[u].id = task[u].id
      BY <2>1 DEF Quiet
    <3>2. QED
      BY <3>1 DEF Words
  <2>2. QED
    BY <2>1 DEF Words
<1>10. QED
  BY <1>3, <1>4, <1>5, <1>7, <1>8, <1>9

---------------------------------------------------------------------------
(* Bytes written to a socket *)

\* q is the socket p after the bytes b were written to it.
Writes(p, q, b) ==
    /\ q # None /\ q.from = p.from /\ q.to = p.to /\ q.accepted = p.accepted
    /\ q.up = p.up /\ q.here = p.here
    /\ q.flight = IF p.up THEN p.flight \o b ELSE p.flight

LEMMA WrittenIs ==
  ASSUME TypeOK, NEW o \in Sockets, net[o] # None, NEW b \in Seq(Bytes)
  PROVE  /\ Written(net, o, b) \in [Sockets -> {None} \cup SocketRecords]
         /\ \A u \in Sockets \ {o} : Written(net, o, b)[u] = net[u]
         /\ Writes(net[o], Written(net, o, b)[o], b)
<1> DEFINE p == net[o]
           f == p.flight \o b
           q == [p EXCEPT !.flight = f]
           n == Written(net, o, b)
<1>1. p \in SocketRecords /\ p.flight \in Seq(Bytes) /\ f \in Seq(Bytes)
      /\ net \in [Sockets -> {None} \cup SocketRecords]
  <2>1. p \in SocketRecords /\ p.flight \in Seq(Bytes)
    BY SocketIs
  <2>2. net \in [Sockets -> {None} \cup SocketRecords]
    BY DEF TypeOK, SocketRecords
  <2>3. QED
    BY <2>1, <2>2
<1> HIDE DEF f
<1>2. n = IF p.up THEN [net EXCEPT ![o] = q] ELSE net
  BY <1>1 DEF Written, f
<1>3. q \in SocketRecords
  <2> HIDE DEF p
  <2>1. QED
    BY <1>1, RecordWith
<1>4. q # None /\ p # None
  BY <1>1, <1>3, NoneApart DEF SocketRecords
<1>5. /\ q.from = p.from /\ q.to = p.to /\ q.accepted = p.accepted
      /\ q.up = p.up /\ q.here = p.here /\ q.flight = f
  <2> HIDE DEF p
  <2>1. QED
    BY <1>1 DEF SocketRecords
<1> HIDE DEF q, n
<1>6. n \in [Sockets -> {None} \cup SocketRecords] /\ \A u \in Sockets \ {o} : n[u] = net[u]
  BY <1>1, <1>2, <1>3
<1>7. n[o] = IF p.up THEN q ELSE p
  BY <1>1, <1>2
<1>8. Writes(p, n[o], b)
  BY <1>4, <1>5, <1>7 DEF Writes, f
<1>9. QED
  BY <1>6, <1>8 DEF n

LEMMA RemainingWritten ==
  ASSUME TypeOK, NEW s \in Sockets, net[s] # None, rx'[s] = rx[s], NEW b \in Seq(Bytes),
         Writes(net[s], net'[s], b)
  PROVE  /\ Remaining(s) \in Seq(Bytes)
         /\ ~net[s].up => Remaining(s)' = Remaining(s)
         /\ net[s].up => Remaining(s)' = Remaining(s) \o b
<1> DEFINE r == rx[s].chunk \o net[s].here
           f == net[s].flight
<1>1. r \in Seq(Bytes) /\ f \in Seq(Bytes)
  BY SocketIs
<1>2. Remaining(s) = r \o f
  BY DEF Remaining
<1>3. Remaining(s)' = r \o net'[s].flight
  BY DEF Remaining, Writes
<1>4. net'[s].flight = IF net[s].up THEN f \o b ELSE f
  BY DEF Writes
<1> HIDE DEF r, f
<1>5. r \o f \in Seq(Bytes)
  BY <1>1
<1>6. r \o (f \o b) = (r \o f) \o b
  BY <1>1, ConcatAssociative
<1>7. QED
  BY <1>2, <1>3, <1>4, <1>5, <1>6

\* A message that is written belongs to the script, unless something was torn
\* before it.
LEMMA ScriptGrows ==
  ASSUME TypeOK, Logs, Tears, NEW s \in Sockets, NEW m \in Msgs,
         sent'[s] = Append(sent[s], m), torn'[s] = torn[s]
  PROVE  /\ Whole(s)' <=> Whole(s)
         /\ Whole(s) => Script(s)' = Append(Script(s), m)
         /\ ~Whole(s) => /\ Script(s)' = Script(s)
                         /\ torn'[s] < Len(sent'[s])
                         /\ sent'[s][torn'[s] + 1].call = API_ANSWER_REQUEST_PATH
         /\ sent'[s] # <<>> /\ Last(s)' = m
<1> DEFINE q == sent[s]
           v == Append(q, m)
           n == torn[s]
<1>1. q \in Seq(Msgs) /\ n \in Nat
  BY ScriptIs, SocketIs
<1>2. /\ v \in Seq(Msgs) /\ v # <<>> /\ Len(v) = Len(q) + 1 /\ v[Len(q) + 1] = m
      /\ \A k \in 1 .. Len(q) : v[k] = q[k]
  <2> HIDE DEF q
  <2>1. QED
    BY <1>1, AppendProperties
<1>3. sent'[s] = v /\ sent[s] = q /\ torn'[s] = n
  OBVIOUS
<1> HIDE DEF v, q
<1>4. Whole(s)' <=> Whole(s)
  BY DEF Whole
<1>5. sent'[s] # <<>> /\ Last(s)' = m
  BY <1>2, <1>3 DEF Last
<1>6. CASE Whole(s)
  BY <1>3, <1>4, <1>5, <1>6 DEF Script, v, q
<1>7. CASE ~Whole(s)
  <2>1. n \in 1 .. Len(q) - 1 /\ q[n + 1].call = API_ANSWER_REQUEST_PATH
    BY <1>3, <1>7, ScriptIs DEF Tears
  <2>2. Len(q) \in Nat
    BY <1>1
  <2> HIDE DEF n
  <2>3. v[n + 1] = q[n + 1] /\ n < Len(v)
    BY <1>2, <2>1, <2>2
  <2>4. SubSeq(v, 1, n - 1) = SubSeq(q, 1, n - 1)
    <3> DEFINE a == SubSeq(q, 1, n - 1)
               b == SubSeq(v, 1, n - 1)
    <3>1. a \in Seq(Msgs) /\ Len(a) = n - 1 /\ \A k \in 1 .. n - 1 : a[k] = q[k]
      BY <1>1, <2>1, <2>2
    <3>2. b \in Seq(Msgs) /\ Len(b) = n - 1 /\ \A k \in 1 .. n - 1 : b[k] = v[k]
      BY <1>2, <2>1, <2>2
    <3>3. \A k \in 1 .. n - 1 : v[k] = q[k]
      BY <1>2, <2>1, <2>2
    <3> HIDE DEF a, b
    <3>4. Len(a) = Len(b) /\ \A k \in 1 .. Len(a) : a[k] = b[k]
      BY <3>1, <3>2, <3>3
    <3>5. a = b
      BY <3>1, <3>2, <3>4, SeqEqual
    <3>6. QED
      BY <3>5 DEF a, b
  <2>5. torn[s] = n
    BY DEF n
  <2>6. Garbage(s)' = Garbage(s)
    BY <1>3, <2>3, <2>5 DEF Garbage
  <2>7. Script(s)' = Script(s)
    BY <1>3, <1>4, <1>7, <2>4, <2>5, <2>6 DEF Script
  <2>8. QED
    BY <1>3, <1>4, <1>5, <1>7, <2>1, <2>3, <2>5, <2>7
<1>8. QED
  BY <1>6, <1>7

\* A message is put into a socket, of which the bytes o are owed.
LEMMA StreamSent ==
  ASSUME TypeOK, Logs, Tears, NEW s \in Sockets, net[s] # None, rx'[s] = rx[s], handled'[s] = handled[s],
         NEW b \in Seq(Bytes), Writes(net[s], net'[s], b),
         NEW m \in Frames, NEW o \in Seq(Bytes), Joins(Encode(m), b, o),
         Whole(s), Whole(s)', Script(s)' = Append(Script(s), m), NEW z, Flows(s, z),
         net[s].up => z = <<>>
  PROVE  Flows(s, o)'
<1> DEFINE ms == Script(s)
           hd == handled[s]
           x == rx[s]
           r == Remaining(s)
           q == Remaining(s)'
           up == net[s].up
<1>1. /\ ms \in Seq(Frames) /\ hd \in Seq(Frames) /\ x \in Contexts /\ r \in Seq(Bytes)
      /\ up \in BOOLEAN /\ net'[s].up = up
      /\ up => q = r \o b
      /\ ~up => q = r
  <2>1. net[s].up \in BOOLEAN
    BY SocketIs DEF SocketRecords
  <2>2. QED
    BY <2>1, SocketIs, ScriptIs, RemainingWritten DEF Writes
<1>2. Carried(ms, hd, x, r, z, up, TRUE)
  <2>1. Whole(s) = TRUE
    BY DEF Whole
  <2>2. QED
    BY <2>1, Zenon DEF Flows
<1> HIDE DEF ms, hd, x, r, q, up
<1>3. Carried(Append(ms, m), hd, x, q, o, up, TRUE)
  <2>1. CASE up
    <3>1. Carried(ms, hd, x, r, <<>>, TRUE, TRUE)
      BY <1>1, <1>2, <2>1 DEF up
    <3>2. Carried(Append(ms, m), hd, x, r \o b, o, TRUE, TRUE)
      BY <1>1, <3>1, Sent
    <3>3. QED
      BY <1>1, <2>1, <3>2
  <2>2. CASE ~up
    <3>1. Carried(ms, hd, x, r, z, FALSE, TRUE)
      BY <1>1, <1>2, <2>2
    <3>2. Carried(Append(ms, m), hd, x, r, o, FALSE, TRUE)
      BY <1>1, <3>1, SentDown
    <3>3. QED
      BY <1>1, <2>2, <3>2
  <2>3. QED
    BY <1>1, <2>1, <2>2
<1>4. Whole(s)' = TRUE
  BY DEF Whole
<1>5. Carried(Script(s)', handled'[s], rx'[s], Remaining(s)', o, net'[s].up, TRUE)
  BY <1>1, <1>3 DEF ms, hd, x, r, q, up
<1>6. QED
  BY <1>4, <1>5, Zenon DEF Flows

\* The bytes that were owed are put into a socket.
LEMMA StreamPaid ==
  ASSUME TypeOK, Logs, Tears, NEW s \in Sockets, net[s] # None, rx'[s] = rx[s], handled'[s] = handled[s],
         NEW o \in Seq(Bytes), Writes(net[s], net'[s], o),
         Whole(s), Whole(s)', Script(s)' = Script(s), Flows(s, o)
  PROVE  Flows(s, <<>>)'
<1> DEFINE ms == Script(s)
           hd == handled[s]
           x == rx[s]
           r == Remaining(s)
           q == Remaining(s)'
           up == net[s].up
<1>1. /\ ms \in Seq(Frames) /\ hd \in Seq(Frames) /\ x \in Contexts /\ r \in Seq(Bytes)
      /\ up \in BOOLEAN /\ net'[s].up = up
      /\ up => q = r \o o
      /\ ~up => q = r
  <2>1. net[s].up \in BOOLEAN
    BY SocketIs DEF SocketRecords
  <2>2. QED
    BY <2>1, SocketIs, ScriptIs, RemainingWritten DEF Writes
<1>2. Carried(ms, hd, x, r, o, up, TRUE)
  <2>1. Whole(s) = TRUE
    BY DEF Whole
  <2>2. QED
    BY <2>1, Zenon DEF Flows
<1> HIDE DEF ms, hd, x, r, q, up
<1>3. Carried(ms, hd, x, q, <<>>, up, TRUE)
  <2>1. CASE up
    <3>1. Carried(ms, hd, x, r, o, TRUE, TRUE)
      BY <1>1, <1>2, <2>1
    <3>2. Carried(ms, hd, x, r \o o, <<>>, TRUE, TRUE)
      BY <1>1, <3>1, Paid
    <3>3. QED
      BY <1>1, <2>1, <3>2
  <2>2. CASE ~up
    <3> DEFINE z == <<>>
    <3>1. z \in Seq(Bytes) /\ r \o z = r
      BY <1>1, ConcatEmptySeq
    <3> HIDE DEF z
    <3>2. Joins(r, r, z)
      <4>1. Joins(r \o z, r, z)
        BY <1>1, <3>1, Joint
      <4>2. QED
        BY <3>1, <4>1
    <3>3. Carried(ms, hd, x, r, <<>>, FALSE, TRUE)
      BY <1>1, <1>2, <2>2, <3>1, <3>2, BrokenOff
    <3>4. QED
      BY <1>1, <2>2, <3>3
  <2>3. QED
    BY <1>1, <2>1, <2>2
<1>4. Whole(s)' = TRUE
  BY DEF Whole
<1>5. Carried(Script(s)', handled'[s], rx'[s], Remaining(s)', <<>>, net'[s].up, TRUE)
  BY <1>1, <1>3 DEF ms, hd, x, r, q, up
<1>6. QED
  BY <1>4, <1>5, Zenon DEF Flows

\* Bytes are put into a socket behind a message that was torn.
LEMMA StreamTrails ==
  ASSUME TypeOK, Logs, Tears, NEW s \in Sockets, net[s] # None, rx'[s] = rx[s], handled'[s] = handled[s],
         NEW b \in Seq(Bytes), Writes(net[s], net'[s], b),
         ~Whole(s), ~Whole(s)', Script(s)' = Script(s), Flows(s, <<>>)
  PROVE  Flows(s, <<>>)'
<1> DEFINE ms == Script(s)
           hd == handled[s]
           x == rx[s]
           r == Remaining(s)
           q == Remaining(s)'
           up == net[s].up
<1>1. /\ ms \in Seq(Frames) /\ hd \in Seq(Frames) /\ x \in Contexts /\ r \in Seq(Bytes)
      /\ up \in BOOLEAN /\ net'[s].up = up
      /\ up => q = r \o b
      /\ ~up => q = r
  <2>1. net[s].up \in BOOLEAN
    BY SocketIs DEF SocketRecords
  <2>2. QED
    BY <2>1, SocketIs, ScriptIs, RemainingWritten DEF Writes
<1>2. Carried(ms, hd, x, r, <<>>, up, FALSE)
  <2>1. Whole(s) = FALSE
    BY DEF Whole
  <2>2. QED
    BY <2>1, Zenon DEF Flows
<1> HIDE DEF ms, hd, x, r, q, up
<1>3. Carried(ms, hd, x, q, <<>>, up, FALSE)
  <2>1. CASE up
    <3>1. Carried(ms, hd, x, r, <<>>, TRUE, FALSE)
      BY <1>1, <1>2, <2>1
    <3>2. Carried(ms, hd, x, r \o b, <<>>, TRUE, FALSE)
      BY <1>1, <3>1, Trail
    <3>3. QED
      BY <1>1, <2>1, <3>2
  <2>2. CASE ~up
    BY <1>1, <1>2, <2>2
  <2>3. QED
    BY <1>1, <2>1, <2>2
<1>4. Whole(s)' = FALSE
  BY DEF Whole
<1>5. Carried(Script(s)', handled'[s], rx'[s], Remaining(s)', <<>>, net'[s].up, FALSE)
  BY <1>1, <1>3 DEF ms, hd, x, r, q, up
<1>6. QED
  BY <1>4, <1>5, Zenon DEF Flows

\* A flood comes into the middle of the answer of r: the reader will take its
\* header for the body of the answer.
LEMMA StreamTorn ==
  ASSUME TypeOK, Logs, Tears, NEW s \in Sockets, net[s] # None, rx'[s] = rx[s], handled'[s] = handled[s],
         NEW m \in Msgs, m.call = API_ANSWER_REQUEST_PATH,
         Writes(net[s], net'[s], Encode(m)), net[s].up,
         sent'[s] = Append(sent[s], m), torn'[s] = Len(sent[s]), Whole(s),
         NEW a \in Msgs, a.call = API_ANSWER_REQUEST_CONNECTION,
         sent[s] # <<>>, Last(s) = a, Flows(s, a.body)
  PROVE  /\ ~Whole(s)' /\ Flows(s, <<>>)'
         /\ torn'[s] < Len(sent'[s]) /\ sent'[s][torn'[s] + 1].call = API_ANSWER_REQUEST_PATH
<1> DEFINE ms == sent[s]
           v == Append(ms, m)
           n == Len(ms)
           q == SubSeq(ms, 1, n - 1)
           g == [call |-> API_ANSWER_REQUEST_CONNECTION, body |-> Header(m)]
           hd == handled[s]
           x == rx[s]
           r == Remaining(s)
           e == Encode(m)
<1>1. /\ ms \in Seq(Msgs) /\ ms # <<>> /\ hd \in Seq(Frames) /\ x \in Contexts /\ r \in Seq(Bytes)
      /\ Msgs \subseteq Frames /\ m \in Frames /\ a \in Frames /\ e \in Seq(Bytes)
      /\ Script(s) = ms
  <2>1. Msgs \subseteq Frames
    BY MessageIs
  <2>2. m \in Frames /\ a \in Frames /\ e \in Seq(Bytes)
    BY <2>1, EncodeIs
  <2>3. QED
    BY <2>1, <2>2, SocketIs, ScriptIs, RemainingWritten
<1>2. Remaining(s)' = r \o e /\ net'[s].up = TRUE
  <2>1. net[s].up \in BOOLEAN
    BY SocketIs DEF SocketRecords
  <2>2. QED
    BY <1>1, <2>1, RemainingWritten DEF Writes
<1>3. n \in Nat /\ n >= 1 /\ ms[n] = a
  <2>1. ms[n] = a
    BY DEF Last
  <2> HIDE DEF ms
  <2>2. n \in Nat /\ n >= 1
    BY <1>1
  <2>3. QED
    BY <2>1, <2>2
<1>4. /\ v \in Seq(Msgs) /\ Len(v) = n + 1 /\ v[n + 1] = m /\ \A k \in 1 .. n : v[k] = ms[k]
  <2> HIDE DEF ms
  <2>1. QED
    BY <1>1, AppendProperties
<1>5. sent'[s] = v /\ torn'[s] = n
  OBVIOUS
<1> HIDE DEF ms, v, n
<1>6. q \in Seq(Msgs) /\ Len(q) = n - 1 /\ \A k \in 1 .. n - 1 : q[k] = ms[k]
  <2>1. n = Len(ms)
    BY DEF n
  <2>2. \A k \in 1 .. n - 1 : ms[k] \in Msgs
    BY <1>1, <1>3, <2>1
  <2>3. QED
    BY <1>3, <2>2, SubSeqProperties
<1>7. SubSeq(v, 1, n - 1) = q
  <2> DEFINE b == SubSeq(v, 1, n - 1)
  <2>1. b \in Seq(Msgs) /\ Len(b) = n - 1 /\ \A k \in 1 .. n - 1 : b[k] = v[k]
    BY <1>3, <1>4
  <2> HIDE DEF b, q
  <2>2. Len(b) = Len(q) /\ \A k \in 1 .. Len(b) : b[k] = q[k]
    BY <1>3, <1>4, <1>6, <2>1
  <2>3. b = q
    BY <1>6, <2>1, <2>2, SeqEqual
  <2>4. QED
    BY <2>3 DEF b
<1>8. ms = Append(q, a)
  <2> DEFINE b == Append(q, a)
  <2> HIDE DEF q
  <2>1. b \in Seq(Msgs) /\ Len(b) = n /\ b[n] = a /\ \A k \in 1 .. n - 1 : b[k] = q[k]
    <3>1. b \in Seq(Msgs) /\ Len(b) = Len(q) + 1 /\ b[Len(q) + 1] = a /\ \A k \in 1 .. Len(q) : b[k] = q[k]
      BY <1>6, AppendProperties
    <3>2. Len(q) + 1 = n
      BY <1>3, <1>6
    <3>3. QED
      BY <1>6, <3>1, <3>2
  <2> HIDE DEF b
  <2>2. Len(ms) = Len(b) /\ \A k \in 1 .. Len(ms) : ms[k] = b[k]
    <3>1. Len(ms) = n
      BY DEF n
    <3>2. ASSUME NEW k \in 1 .. n PROVE ms[k] = b[k]
      <4>1. k \in 1 .. n - 1 \/ k = n
        BY <1>3
      <4>2. QED
        BY <1>3, <1>6, <2>1, <4>1
    <3>3. QED
      BY <2>1, <3>1, <3>2
  <2>3. QED
    BY <1>1, <2>1, <2>2, SeqEqual DEF b
<1> HIDE DEF q
<1>9. /\ g \in Frames /\ g.body = Header(m) /\ Alike(a, g) /\ q \in Seq(Frames)
  <2>1. Header(m) \in Seq(Bytes) /\ Len(Header(m)) = 1 + LengthBytes
    BY <1>1, HeaderIs
  <2>2. g \in Frames
    BY <2>1, Widths DEF Frames, API_ANSWER_REQUEST_CONNECTION
  <2>3. Len(a.body) = 1 + LengthBytes
    <3>1. a.body[1] \in Ids /\ a = [call |-> a.call, body |-> Word(a.body[1])]
      BY MessageIs
    <3>2. a.body = Word(a.body[1])
      BY <3>1
    <3>3. QED
      BY <3>1, <3>2, WordIs
  <2>4. q \in Seq(Frames)
    BY <1>1, <1>6, SeqMonotonic
  <2>5. QED
    BY <2>1, <2>2, <2>3, <2>4 DEF Alike
<1>10. Carried(Append(q, a), hd, x, r, a.body, TRUE, TRUE)
  <2>1. Whole(s) = TRUE
    BY DEF Whole
  <2>2. net[s].up = TRUE
    BY SocketIs DEF SocketRecords
  <2>3. Carried(Script(s), hd, x, r, a.body, TRUE, TRUE)
    BY <2>1, <2>2, Zenon DEF Flows
  <2>4. QED
    BY <1>1, <1>8, <2>3
<1>11. Whole(s)' = FALSE /\ ~Whole(s)'
  BY <1>3, <1>5 DEF Whole
<1>12. Garbage(s)' = g
  BY <1>4, <1>5 DEF Garbage
<1> HIDE DEF g, hd, x, r, e
<1>13. Carried(Append(q, g), hd, x, r \o e, <<>>, TRUE, FALSE)
  BY <1>1, <1>9, <1>10, Tear DEF e
<1>14. Script(s)' = Append(q, g)
  BY <1>5, <1>7, <1>11, <1>12 DEF Script
<1>15. Carried(Script(s)', handled'[s], rx'[s], Remaining(s)', <<>>, net'[s].up, FALSE)
  BY <1>2, <1>13, <1>14 DEF hd, x
<1>16. Flows(s, <<>>)'
  BY <1>11, <1>15, Zenon DEF Flows
<1>17. QED
  BY <1>3, <1>4, <1>5, <1>11, <1>16

\* Who owes bytes to the socket that the answer of s goes to: nobody but s.
LEMMA AnswerOwed ==
  ASSUME IInv, NEW s \in Sockets, task[s].pc \in {"header", "body"}, NEW o \in Sockets, o = OutOf(s),
         conns' = conns, \A u \in Sockets \ {s} : task'[u] = task[u],
         \A u \in Sockets : net[u] # None => net'[u].to = net[u].to
  PROVE  /\ \A r \in Sockets \ {s} : ~Owes(r, o) /\ ~Owes(r, o)'
         /\ Owes(s, o)' <=> task'[s].pc = "body"
<1> USE DEF IInv
<1>1. /\ net[s] # None /\ \A r \in Sockets : Owes(r, o) => r = s
  BY OutOfIs
<1>2. \A h, i, t : Joined(h, i, t)' <=> Joined(h, i, t)
  BY DEF Joined
<1>4. ASSUME NEW r \in Sockets, r # s, Owes(r, o)' PROVE FALSE
  <2>1. task[r] = task'[r] /\ task[r].pc = "body"
    BY <1>4 DEF Owes, Joined
  <2>2. net[r] # None /\ net'[r].to = net[r].to
    BY <2>1 DEF Untouched, Quiet
  <2>3. PICK i \in Ids : Joined(net'[r].to, i, r) /\ conns[net'[r].to][i].out = o
    BY <1>4 DEF Owes, Joined
  <2>4. Owes(r, o)
    BY <2>1, <2>2, <2>3 DEF Owes, Joined
  <2>5. QED
    BY <1>1, <1>4, <2>4
<1>5. Owes(s, o)' <=> task'[s].pc = "body"
  <2>1. task[s] # Quiet
    BY DEF Quiet
  <2>2. Joined(net[s].to, OfSocket(s), s) /\ OfSocket(s) \in Ids /\ net'[s].to = net[s].to
        /\ conns[net[s].to][OfSocket(s)].out = o
    BY <1>1, <2>1, AnswererIs DEF OutOf
  <2> DEFINE h == net[s].to
  <2>3. PICK i \in Ids : Joined(h, i, s) /\ conns[h][i].out = o
    BY <2>2
  <2>4. Joined(net[s].to, i, s)' /\ conns'[net'[s].to][i].out = o
    BY <2>2, <2>3 DEF Joined
  <2>5. QED
    BY <2>4 DEF Owes, Joined
<1>6. QED
  BY <1>1, <1>4, <1>5

LEMMA SendAnswerHeaderKeeps ==
  ASSUME IInv, NEW s \in Sockets, SendAnswerHeader(s)
  PROVE  IInv'
<1> USE DEF IInv
<1>1. /\ task[s].pc = "header" /\ conns' = conns /\ rx' = rx /\ handled' = handled
      /\ left' = left /\ broken' = broken /\ UNCHANGED <<threads, stopped, freed, torn>>
      /\ task' = [task EXCEPT ![s].pc = "body"]
      /\ net' = Written(net, OutOf(s), Header(Answer(s)))
      /\ sent' = [sent EXCEPT ![OutOf(s)] = Append(@, Answer(s))]
  BY DEF SendAnswerHeader, ends
<1>2. task[s].pc \in {"header", "body"}
  BY <1>1
<1>3. PICK o \in Sockets, m \in Msgs, b \in Seq(Bytes) :
         o = OutOf(s) /\ m = Answer(s) /\ b = Header(m)
  <2>1. Answer(s) \in Msgs /\ OutOf(s) \in Sockets
    BY <1>2, OutOfIs
  <2>2. Header(Answer(s)) \in Seq(Bytes)
    BY <2>1, MessageIs, HeaderIs
  <2>3. QED
    BY <2>1, <2>2
<1>4. /\ net[o] # None /\ net[s] # None /\ m.body = task[s].id /\ Names(o, m)
  BY <1>2, <1>3, OutOfIs
<1>5. Header(m) = b /\ Encode(m) = b \o m.body /\ m.body \in Seq(Bytes) /\ m \in Frames
  <2>1. m \in Frames
    BY MessageIs
  <2>2. QED
    BY <1>3, <2>1, EncodeIs, FrameIs
<1>6. /\ net' \in [Sockets -> {None} \cup SocketRecords]
      /\ \A u \in Sockets \ {o} : net'[u] = net[u]
      /\ Writes(net[o], net'[o], b)
  BY <1>1, <1>3, <1>4, WrittenIs
<1>7. sent' = [sent EXCEPT ![o] = Append(sent[o], m)] /\ sent[o] \in Seq(Msgs)
  BY <1>1, <1>3 DEF Logs
<1>8. sent'[o] = Append(sent[o], m) /\ \A u \in Sockets \ {o} : sent'[u] = sent[u]
  BY <1>7 DEF Logs
<1>9. Logs'
  <2>1. Append(sent[o], m) \in Seq(Msgs)
    BY <1>7, AppendProperties
  <2>2. QED
    BY <1>1, <1>7, <2>1 DEF Logs
<1>10. /\ \A u \in Sockets \ {s} : task'[u] = task[u]
       /\ task'[s].pc = "body" /\ task'[s].id = task[s].id
       /\ task' \in [Sockets -> [pc : Pcs, id : Seq(Bytes)]]
  <2>1. task \in [Sockets -> [pc : Pcs, id : Seq(Bytes)]]
    BY DEF TypeOK
  <2>2. QED
    BY <1>1, <2>1 DEF Pcs
<1>11. TypeOK'
  BY <1>1, <1>6, <1>10 DEF TypeOK, SocketRecords
<1>12. \A u \in Sockets : net[u] # None => net'[u] # None /\ net'[u].from = net[u].from
         /\ net'[u].to = net[u].to /\ net'[u].accepted = net[u].accepted
  BY <1>4, <1>6 DEF Writes
<1>13. Grows /\ Stable
  BY <1>1, <1>12 DEF Grows, Stable, Temporary, Joined
<1>14. Named'
  <2>1. ASSUME NEW t \in Sockets, NEW k \in 1 .. Len(sent'[t])
        PROVE  (k \in 1 .. Len(sent[t]) /\ sent'[t][k] = sent[t][k]) \/ Names(t, sent[t][k])'
    <3>1. CASE t # o
      BY <1>8, <2>1, <3>1
    <3>2. CASE t = o
      <4>1. Len(sent'[o]) = Len(sent[o]) + 1 /\ sent'[o][Len(sent[o]) + 1] = m
            /\ \A j \in 1 .. Len(sent[o]) : sent'[o][j] = sent[o][j]
        BY <1>7, <1>8, AppendProperties
      <4>2. CASE k \in 1 .. Len(sent[o])
        BY <3>2, <4>1, <4>2
      <4>3. CASE k = Len(sent[o]) + 1
        <5>1. sent'[t][k] = m
          BY <3>2, <4>1, <4>3
        <5>2. net[o].from \in Hives /\ net[o].to \in Hives /\ net'[o].from = net[o].from
              /\ net'[o].to = net[o].to
          BY <1>4, <1>12, SocketIs
        <5>3. Names(t, sent[t][k])'
          BY <1>4, <1>13, <3>2, <5>1, <5>2 DEF Names, Stable
        <5>4. QED
          BY <5>3
      <4>4. QED
        BY <1>7, <2>1, <3>2, <4>1, <4>2, <4>3
    <3>3. QED
      BY <3>1, <3>2
  <2>2. QED
    BY <1>13, <2>1, NamedKept
<1>15. /\ \A r \in Sockets \ {s} : ~Owes(r, o) /\ ~Owes(r, o)'
       /\ Owes(s, o)' /\ ~Owes(s, o)
  <2>1. ~Owes(s, o)
    BY <1>1 DEF Owes, Joined
  <2>2. QED
    BY <1>1, <1>2, <1>3, <1>10, <1>12, <2>1, AnswerOwed
<1>a. /\ Whole(o)' <=> Whole(o)
      /\ Whole(o) => Script(o)' = Append(Script(o), m)
      /\ ~Whole(o) => /\ Script(o)' = Script(o)
                      /\ torn'[o] < Len(sent'[o])
                      /\ sent'[o][torn'[o] + 1].call = API_ANSWER_REQUEST_PATH
      /\ sent'[o] # <<>> /\ Last(o)' = m
  BY <1>1, <1>8, ScriptGrows
<1>b. Tears'
  <2>1. ASSUME NEW u \in Sockets, ~Whole(u)'
        PROVE  torn'[u] < Len(sent'[u]) /\ sent'[u][torn'[u] + 1].call = API_ANSWER_REQUEST_PATH
    <3>1. CASE u = o
      BY <1>a, <2>1, <3>1
    <3>2. CASE u # o
      BY <1>1, <1>8, <2>1, <3>2 DEF Tears, Whole
    <3>3. QED
      BY <3>1, <3>2
  <2>2. QED
    BY <2>1 DEF Tears
<1>16. Stream(o)'
  <2>1. Flows(o, <<>>)
    BY <1>4, <1>15 DEF Streams, Stream
  <2>2. Joins(Encode(m), b, m.body)
    BY <1>5, Joint
  <2>3. rx'[o] = rx[o] /\ handled'[o] = handled[o]
    BY <1>1
  <2>4. CASE Whole(o)
    <3>1. Flows(o, m.body)'
      BY <1>4, <1>5, <1>6, <1>a, <2>1, <2>2, <2>3, <2>4, StreamSent
    <3>2. Answer(s)' = m /\ task'[s].id = m.body
      BY <1>3, <1>4, <1>10 DEF Answer
    <3>3. \A r \in Sockets : Owes(r, o)' => r = s
      BY <1>15
    <3>4. Flows(o, task[s].id)'
      BY <3>1, <3>2 DEF Flows
    <3>5. QED
      BY <1>15, <1>a, <2>4, <3>2, <3>3, <3>4 DEF Stream
  <2>5. CASE ~Whole(o)
    <3>1. Flows(o, <<>>)'
      BY <1>4, <1>6, <1>a, <2>1, <2>3, <2>5, StreamTrails
    <3>2. QED
      BY <1>a, <2>5, <3>1 DEF Stream
  <2>6. QED
    BY <2>4, <2>5
<1>17. QED
  BY <1>1, <1>2, <1>3, <1>4, <1>6, <1>8, <1>9, <1>10, <1>11, <1>12, <1>14, <1>16, <1>b, AnswerStep

LEMMA SendAnswerBodyKeeps ==
  ASSUME IInv, NEW s \in Sockets, SendAnswerBody(s)
  PROVE  IInv'
<1> USE DEF IInv
<1>1. /\ task[s].pc = "body" /\ conns' = conns /\ rx' = rx /\ handled' = handled
      /\ left' = left /\ broken' = broken /\ sent' = sent
      /\ UNCHANGED <<threads, stopped, freed, torn>>
      /\ task' = [task EXCEPT ![s] = Quiet]
      /\ net' = Written(net, OutOf(s), Answer(s).body)
  BY DEF SendAnswerBody, ends
<1>2. task[s].pc \in {"header", "body"}
  BY <1>1
<1>3. PICK o \in Sockets, b \in Seq(Bytes) : o = OutOf(s) /\ b = Answer(s).body
  <2>1. Answer(s) \in Msgs /\ OutOf(s) \in Sockets
    BY <1>2, OutOfIs
  <2>2. Answer(s).body \in Seq(Bytes)
    BY <2>1, MessageIs, FrameIs
  <2>3. QED
    BY <2>1, <2>2
<1>4. net[o] # None /\ net[s] # None /\ b = task[s].id /\ Owes(s, o)
  BY <1>1, <1>2, <1>3, OutOfIs
<1>5. net' = Written(net, o, b)
  BY <1>1, <1>3
<1>6. /\ net' \in [Sockets -> {None} \cup SocketRecords]
      /\ \A u \in Sockets \ {o} : net'[u] = net[u]
      /\ Writes(net[o], net'[o], b)
  BY <1>4, <1>5, WrittenIs
<1>9. Logs'
  BY <1>1 DEF Logs
<1>10. /\ \A u \in Sockets \ {s} : task'[u] = task[u]
       /\ task'[s] = Quiet /\ task'[s].pc # "body"
       /\ task' \in [Sockets -> [pc : Pcs, id : Seq(Bytes)]]
  <2>1. task \in [Sockets -> [pc : Pcs, id : Seq(Bytes)]]
    BY DEF TypeOK
  <2>2. Quiet \in [pc : Pcs, id : Seq(Bytes)] /\ Quiet.pc = "none"
    BY DEF Quiet, Pcs
  <2>3. QED
    BY <1>1, <2>1, <2>2
<1>11. TypeOK'
  BY <1>1, <1>6, <1>10 DEF TypeOK, SocketRecords
<1>12. \A u \in Sockets : net[u] # None => net'[u] # None /\ net'[u].from = net[u].from
         /\ net'[u].to = net[u].to /\ net'[u].accepted = net[u].accepted
  BY <1>4, <1>6 DEF Writes
<1>13. Grows /\ Stable
  BY <1>1, <1>12 DEF Grows, Stable, Temporary, Joined
<1>14. Named'
  BY <1>1, <1>13, NamedKept
<1>15. \A r \in Sockets : ~Owes(r, o)'
  BY <1>1, <1>2, <1>3, <1>10, <1>12, AnswerOwed
<1>16. Stream(o)'
  <2>1. rx'[o] = rx[o] /\ handled'[o] = handled[o]
    BY <1>1
  <2>2. Script(o)' = Script(o) /\ (Whole(o)' <=> Whole(o))
    BY <1>1 DEF Script, Garbage, Whole
  <2>3. Stream(o)
    BY <1>4 DEF Streams
  <2>4. Flows(o, <<>>)'
    <3>1. CASE Whole(o)
      <4>1. Flows(o, b)
        BY <1>4, <2>3, <3>1 DEF Stream
      <4>2. QED
        BY <1>4, <1>6, <2>1, <2>2, <3>1, <4>1, StreamPaid
    <3>2. CASE ~Whole(o)
      <4>1. Flows(o, <<>>)
        BY <2>3, <3>2 DEF Stream
      <4>2. QED
        BY <1>4, <1>6, <2>1, <2>2, <3>2, <4>1, StreamTrails
    <3>3. QED
      BY <3>1, <3>2
  <2>5. QED
    BY <1>15, <2>4 DEF Stream
<1>18. Tears'
  BY <1>1 DEF Tears, Whole
<1>17. QED
  BY <1>1, <1>2, <1>3, <1>4, <1>6, <1>9, <1>10, <1>11, <1>12, <1>14, <1>16, <1>18, AnswerStep

\* Floods, also between the two sends of an answer.
LEMMA FloodKeeps ==
  ASSUME IInv, NEW h \in Hives, Flood(h)
  PROVE  IInv'
<1> USE DEF IInv
<1>1. /\ conns' = conns /\ rx' = rx /\ task' = task /\ broken' = broken /\ handled' = handled
      /\ left.floods > 0 /\ left' = [left EXCEPT !.floods = @ - 1]
      /\ UNCHANGED <<threads, stopped, freed>>
  BY DEF Flood, ends
<1>2. PICK m \in Msgs : m = [call |-> API_ANSWER_REQUEST_PATH, body |-> [i \in 1 .. FloodSize |-> left.floods % Byte]]
  <2>1. left.floods \in Nat
    BY DEF TypeOK
  <2>2. left.floods % Byte \in Bytes
    BY <2>1, Widths DEF Bytes
  <2>3. QED
    BY <2>2 DEF Msgs
<1>a. m.call = API_ANSWER_REQUEST_PATH
  BY <1>2
<1>3. PICK outs : /\ outs = {conns[h][i].out : i \in {j \in Listed(h) : conns[h][j].ctx # None}} \ {None}
                  /\ net' = [s \in Sockets |-> IF s \in outs THEN Written(net, s, Encode(m))[s] ELSE net[s]]
                  /\ sent' = [s \in Sockets |-> IF s \in outs THEN Append(sent[s], m) ELSE sent[s]]
                  /\ torn' = [s \in Sockets |->
                        IF s \in {u \in outs : net[u].up /\ torn[u] = 0 /\ \E r \in Sockets : Owes(r, u)}
                        THEN Len(sent[s]) ELSE torn[s]]
  BY <1>2 DEF Flood
<1>4. PICK b \in Seq(Bytes) : b = Encode(m)
  BY MessageIs, EncodeIs
<1>5. ASSUME NEW t \in Sockets, t \in outs
      PROVE  net[t] # None /\ net[t].from = h
  <2>1. PICK i \in Listed(h) : conns[h][i].out = t
    BY <1>3, <1>5
  <2>2. i \in Ids /\ conns[h][i] # None /\ t # None
    BY <2>1, NoneApart DEF Listed
  <2>3. net[t] # None /\ net[t].from = h
    BY <2>1, <2>2 DEF Table, Row
  <2>4. QED
    BY <2>3
<1>6. ASSUME NEW t \in Sockets, t \in outs
      PROVE  /\ net'[t] \in {None} \cup SocketRecords
             /\ Writes(net[t], net'[t], b) /\ sent'[t] = Append(sent[t], m)
  <2>1. net'[t] = Written(net, t, b)[t] /\ sent'[t] = Append(sent[t], m)
    BY <1>3, <1>4, <1>6
  <2>2. /\ Written(net, t, b) \in [Sockets -> {None} \cup SocketRecords]
        /\ Writes(net[t], Written(net, t, b)[t], b)
    BY <1>5, <1>6, WrittenIs
  <2>3. QED
    BY <2>1, <2>2
<1>7. \A t \in Sockets : t \notin outs => net'[t] = net[t] /\ sent'[t] = sent[t]
  BY <1>3
<1>b. \A t \in Sockets :
         torn'[t] = IF t \in outs /\ net[t].up /\ torn[t] = 0 /\ \E r \in Sockets : Owes(r, t)
                    THEN Len(sent[t]) ELSE torn[t]
  BY <1>3
<1>c. torn' \in [Sockets -> Nat]
  <2>1. \A t \in Sockets : torn[t] \in Nat /\ Len(sent[t]) \in Nat
    BY DEF TypeOK, Logs
  <2>2. \A t \in Sockets : torn'[t] \in Nat
    BY <1>b, <2>1
  <2>3. torn' = [t \in Sockets |-> torn'[t]]
    BY <1>3
  <2>4. QED
    BY <2>2, <2>3
<1>8. net' \in [Sockets -> {None} \cup SocketRecords]
  <2>1. net \in [Sockets -> {None} \cup SocketRecords]
    BY DEF TypeOK, SocketRecords
  <2>2. \A t \in Sockets : net'[t] \in {None} \cup SocketRecords
    BY <1>6, <1>7, <2>1
  <2>3. net' = [t \in Sockets |-> net'[t]]
    BY <1>3
  <2>4. QED
    BY <2>2, <2>3
<1>9. left' \in Amounts
  <2>1. left \in Amounts
    BY DEF TypeOK, Amounts
  <2>2. QED
    BY <1>1, <2>1, AmountsLess
<1>10. TypeOK'
  BY <1>1, <1>8, <1>9, <1>c DEF TypeOK, SocketRecords, Amounts
<1>11. Logs'
  <2>1. \A t \in Sockets : sent'[t] \in Seq(Msgs)
    <3>1. \A t \in Sockets : sent[t] \in Seq(Msgs) /\ Append(sent[t], m) \in Seq(Msgs)
      BY AppendProperties DEF Logs
    <3>2. QED
      BY <1>6, <1>7, <3>1
  <2>2. sent' = [t \in Sockets |-> sent'[t]]
    BY <1>3
  <2>3. QED
    BY <1>1, <2>1, <2>2 DEF Logs
<1>12. ASSUME NEW u \in Sockets
       PROVE  /\ net'[u] = None <=> net[u] = None
              /\ net[u] # None => /\ net'[u].from = net[u].from /\ net'[u].to = net[u].to
                                  /\ net'[u].accepted = net[u].accepted
  <2>1. CASE u \in outs
    BY <1>5, <1>6, <2>1 DEF Writes
  <2>2. CASE u \notin outs
    BY <1>7, <2>2
  <2>3. QED
    BY <2>1, <2>2
<1>13. Grows /\ Stable
  BY <1>1, <1>12 DEF Grows, Stable, Temporary, Joined
<1>14. Facing'
  BY <1>12, <1>13, FacingKept
<1>15. Untouched'
  <2>1. \A u \in Sockets : net[u] = None => sent'[u] = sent[u]
    BY <1>5, <1>7
  <2>2. QED
    BY <1>1, <1>12, <2>1 DEF Untouched
<1>16. Table'
  <2>1. ASSUME NEW g \in Hives, NEW i \in Ids PROVE Row(g, i)'
    <3>1. conns[g][i] # None => conns[g][i].ctx \in Sockets \cup {None} /\ conns[g][i].out \in Sockets \cup {None}
      BY RowIs
    <3>2. QED
      BY <1>1, <1>12, <3>1 DEF Table, Row
  <2>2. QED
    BY <1>1, <2>1 DEF Table, Apart
<1>17. \A g, i, t : Joined(g, i, t)' <=> Joined(g, i, t)
  BY <1>1 DEF Joined
<1>18. Working'
  BY <1>1, <1>12, <1>17 DEF Working, Answerer, Temporary
<1>19. Named'
  <2>1. ASSUME NEW t \in Sockets, NEW k \in 1 .. Len(sent'[t])
        PROVE  (k \in 1 .. Len(sent[t]) /\ sent'[t][k] = sent[t][k]) \/ Names(t, sent[t][k])'
    <3>1. CASE t \notin outs
      BY <1>7, <2>1, <3>1
    <3>2. CASE t \in outs
      <4>1. /\ Len(sent'[t]) = Len(sent[t]) + 1 /\ sent'[t][Len(sent[t]) + 1] = m
            /\ \A j \in 1 .. Len(sent[t]) : sent'[t][j] = sent[t][j]
        <5>1. sent[t] \in Seq(Msgs)
          BY DEF Logs
        <5>2. sent'[t] = Append(sent[t], m)
          BY <1>6, <3>2
        <5>3. QED
          BY <5>1, <5>2, AppendProperties
      <4>2. Len(sent[t]) \in Nat
        BY DEF Logs
      <4>3. CASE k \in 1 .. Len(sent[t])
        BY <4>1, <4>3
      <4>4. CASE k = Len(sent[t]) + 1
        <5>1. sent'[t][k] = m /\ m.call = API_ANSWER_REQUEST_PATH
          BY <1>2, <4>1, <4>4
        <5>2. QED
          BY <5>1 DEF Names, API_ANSWER_REQUEST_PATH, API_REQUEST_CONNECTION, API_ANSWER_REQUEST_CONNECTION
      <4>5. QED
        BY <2>1, <4>1, <4>2, <4>3, <4>4
    <3>3. QED
      BY <3>1, <3>2
  <2>2. QED
    BY <1>13, <2>1, NamedKept
<1>20. \A r, t \in Sockets : Owes(r, t)' <=> Owes(r, t)
  <2>1. ASSUME NEW r \in Sockets, NEW t \in Sockets PROVE Owes(r, t)' <=> Owes(r, t)
    <3>1. CASE net[r] = None
      <4>1. task[r].pc # "body"
        BY <3>1 DEF Untouched, Quiet
      <4>2. QED
        BY <1>1, <4>1 DEF Owes, Joined
    <3>2. CASE net[r] # None
      BY <1>1, <1>12, <1>17, <3>2 DEF Owes, Joined
    <3>3. QED
      BY <3>1, <3>2
  <2>2. QED
    BY <2>1
<1>d. ASSUME NEW t \in Sockets, t \in outs
      PROVE  Stream(t)' /\ (~Whole(t)' => /\ torn'[t] < Len(sent'[t])
                                          /\ sent'[t][torn'[t] + 1].call = API_ANSWER_REQUEST_PATH)
  <2>1. /\ net[t] # None /\ Writes(net[t], net'[t], b) /\ sent'[t] = Append(sent[t], m)
        /\ rx'[t] = rx[t] /\ handled'[t] = handled[t] /\ Stream(t)
    BY <1>1, <1>5, <1>6, <1>d DEF Streams
  <2>2. CASE ~Whole(t)
    <3>1. torn'[t] = torn[t]
      BY <1>b, <2>2 DEF Whole
    <3>2. /\ ~Whole(t)' /\ Script(t)' = Script(t)
          /\ torn'[t] < Len(sent'[t]) /\ sent'[t][torn'[t] + 1].call = API_ANSWER_REQUEST_PATH
      BY <2>1, <2>2, <3>1, ScriptGrows
    <3>3. Flows(t, <<>>)
      BY <2>1, <2>2 DEF Stream
    <3>4. Flows(t, <<>>)'
      BY <2>1, <2>2, <3>2, <3>3, StreamTrails
    <3>5. QED
      BY <3>2, <3>4 DEF Stream
  <2>3. CASE Whole(t) /\ net[t].up /\ \E r \in Sockets : Owes(r, t)
    <3>1. torn'[t] = Len(sent[t])
      BY <1>b, <1>d, <2>3 DEF Whole
    <3>2. PICK r \in Sockets : Owes(r, t)
      BY <2>3
    <3>3. task[r].pc \in {"header", "body"} /\ Flows(t, task[r].id) /\ sent[t] # <<>> /\ Last(t) = Answer(r)
      BY <2>1, <2>3, <3>2 DEF Stream, Owes
    <3>4. /\ Answer(r) \in Msgs /\ Answer(r).call = API_ANSWER_REQUEST_CONNECTION
          /\ Answer(r).body = task[r].id
      BY <3>3, OutOfIs
    <3> DEFINE a == Answer(r)
    <3>5. a \in Msgs /\ a.call = API_ANSWER_REQUEST_CONNECTION /\ Last(t) = a /\ Flows(t, a.body)
      BY <3>3, <3>4 DEF Flows
    <3> HIDE DEF a
    <3>6. /\ ~Whole(t)' /\ Flows(t, <<>>)'
          /\ torn'[t] < Len(sent'[t]) /\ sent'[t][torn'[t] + 1].call = API_ANSWER_REQUEST_PATH
      BY <1>4, <1>a, <2>1, <2>3, <3>1, <3>3, <3>5, StreamTorn
    <3>7. QED
      BY <3>6 DEF Stream
  <2>4. CASE Whole(t) /\ ~(net[t].up /\ \E r \in Sockets : Owes(r, t))
    <3>1. torn'[t] = torn[t]
      BY <1>b, <2>4
    <3>2. Whole(t)' /\ Script(t)' = Append(Script(t), m)
      BY <2>1, <2>4, <3>1, ScriptGrows
    <3>3. ASSUME NEW o \in Seq(Bytes), NEW z, Flows(t, z), net[t].up => z = <<>> /\ o = <<>>
          PROVE  Flows(t, o)'
      <4>1. m \in Frames
        BY MessageIs
      <4> DEFINE y == IF net[t].up THEN <<>> ELSE o
      <4>2. CASE net[t].up
        <5> DEFINE w == <<>>
        <5>1. w \in Seq(Bytes) /\ Encode(m) \o w = Encode(m)
          BY <1>4, ConcatEmptySeq
        <5>2. Joins(Encode(m), b, w)
          <6> HIDE DEF w
          <6>1. Joins(b \o w, b, w)
            BY <5>1, Joint
          <6>2. QED
            BY <1>4, <5>1, <6>1
        <5>3. Flows(t, w)'
          <6>1. z = w
            BY <3>3, <4>2
          <6> HIDE DEF w
          <6>2. Flows(t, z) /\ (net[t].up => z = <<>>)
            BY <3>3
          <6>3. QED
            BY <2>1, <2>4, <3>2, <4>1, <5>1, <5>2, <6>2, StreamSent
        <5>4. QED
          BY <3>3, <4>2, <5>3 DEF Flows
      <4>3. CASE ~net[t].up
        <5>1. Carried(Script(t), handled[t], rx[t], Remaining(t), z, FALSE, TRUE)
          <6>1. net[t].up = FALSE /\ Whole(t) = TRUE
            BY <2>1, <2>4, <4>3, SocketIs DEF SocketRecords, Whole
          <6>2. QED
            BY <3>3, <6>1, Zenon DEF Flows
        <5>2. /\ Script(t) \in Seq(Frames) /\ handled[t] \in Seq(Frames) /\ rx[t] \in Contexts
              /\ Remaining(t) \in Seq(Bytes) /\ Remaining(t)' = Remaining(t)
          BY <2>1, <4>3, ScriptIs, SocketIs, RemainingWritten
        <5>3. Carried(Append(Script(t), m), handled[t], rx[t], Remaining(t), o, FALSE, TRUE)
          BY <4>1, <5>1, <5>2, SentDown
        <5>4. net'[t].up = FALSE /\ Whole(t)' = TRUE
          BY <2>1, <3>2, <4>3, SocketIs DEF Writes, SocketRecords, Whole
        <5>5. Carried(Script(t)', handled'[t], rx'[t], Remaining(t)', o, FALSE, TRUE)
          BY <2>1, <3>2, <5>2, <5>3
        <5>6. QED
          BY <5>4, <5>5, Zenon DEF Flows
      <4>4. QED
        BY <4>2, <4>3
    <3>4. (\A r \in Sockets : ~Owes(r, t)') => Flows(t, <<>>)'
      <4>1. SUFFICES ASSUME \A r \in Sockets : ~Owes(r, t)' PROVE Flows(t, <<>>)'
        OBVIOUS
      <4>2. Flows(t, <<>>)
        BY <1>20, <2>1, <4>1 DEF Stream
      <4>3. <<>> \in Seq(Bytes)
        OBVIOUS
      <4>4. QED
        BY <3>3, <4>2, <4>3
    <3>5. ASSUME NEW r \in Sockets, Owes(r, t)' PROVE Flows(t, task[r].id)' /\ ~net'[t].up
      <4>1. Owes(r, t)
        BY <1>20, <3>5
      <4>2. ~net[t].up /\ net'[t].up = net[t].up
        BY <2>1, <2>4, <4>1 DEF Writes
      <4>3. Flows(t, task[r].id) /\ task[r].id \in Seq(Bytes) /\ task'[r].id = task[r].id
        BY <1>1, <2>1, <2>4, <4>1, SocketIs DEF Stream
      <4> DEFINE o == task[r].id
      <4>4. Flows(t, o) /\ o \in Seq(Bytes) /\ task'[r].id = o
        BY <4>3
      <4> HIDE DEF o
      <4>5. Carried(Script(t)', handled'[t], rx'[t], Remaining(t)', o, net'[t].up, Whole(t)')
        BY <3>3, <4>2, <4>4 DEF Flows
      <4>6. QED
        BY <4>2, <4>4, <4>5 DEF Flows
    <3>6. QED
      BY <3>2, <3>4, <3>5 DEF Stream
  <2>5. QED
    BY <2>2, <2>3, <2>4
<1>e. \A t \in Sockets : t \notin outs => torn'[t] = torn[t]
  BY <1>b
<1>21. Streams'
  <2>1. ASSUME NEW t \in Sockets, net'[t] # None PROVE Stream(t)'
    <3>1. Stream(t) /\ net[t] # None
      BY <1>12, <2>1 DEF Streams
    <3>2. CASE t \notin outs
      BY <1>1, <1>7, <1>20, <1>e, <3>1, <3>2, StreamKept
    <3>3. CASE t \in outs
      BY <1>d, <3>3
    <3>4. QED
      BY <3>2, <3>3
  <2>2. QED
    BY <2>1 DEF Streams
<1>f. Words' /\ Tears'
  <2>1. Words'
    BY <1>1 DEF Words
  <2>2. ASSUME NEW t \in Sockets, ~Whole(t)'
        PROVE  torn'[t] < Len(sent'[t]) /\ sent'[t][torn'[t] + 1].call = API_ANSWER_REQUEST_PATH
    <3>1. CASE t \notin outs
      BY <1>7, <1>e, <2>2, <3>1 DEF Tears, Whole
    <3>2. CASE t \in outs
      BY <1>d, <2>2, <3>2
    <3>3. QED
      BY <3>1, <3>2
  <2>3. QED
    BY <2>1, <2>2 DEF Tears
<1>22. QED
  BY <1>10, <1>11, <1>14, <1>15, <1>16, <1>18, <1>19, <1>21, <1>f

---------------------------------------------------------------------------
(* Connections that end *)

\* q is the socket p, or what is left of it when it is closed or reset.
Fades(p, q) ==
    /\ q # None /\ q.from = p.from /\ q.to = p.to /\ q.accepted = p.accepted
    /\ q.here = p.here
    /\ (q.flight = p.flight /\ q.up = p.up) \/ (q.flight \in {p.flight, <<>>} /\ q.up = FALSE)

\* Some sockets of n fade in k.
Faded(n, k) ==
    /\ k \in [Sockets -> {None} \cup SocketRecords]
    /\ \A u \in Sockets : /\ n[u] = None => k[u] = None
                          /\ n[u] # None => Fades(n[u], k[u])

LEMMA NothingIs == <<>> \in Seq(Bytes) /\ FALSE \in BOOLEAN
  OBVIOUS

LEMMA SomeFade ==
  ASSUME NEW n \in [Sockets -> {None} \cup SocketRecords], NEW S, NEW k, NEW b \in BOOLEAN,
         k = [u \in Sockets |->
                IF u \in S /\ n[u] # None
                THEN [n[u] EXCEPT !.up = FALSE, !.failed = b, !.flight = <<>>] ELSE n[u]]
             \/ k = [u \in Sockets |-> IF u \in S /\ n[u] # None THEN [n[u] EXCEPT !.up = FALSE]
                                      ELSE n[u]]
  PROVE  Faded(n, k)
<1>1. ASSUME NEW u \in Sockets
      PROVE  /\ k[u] \in {None} \cup SocketRecords
             /\ n[u] = None => k[u] = None
             /\ n[u] # None => Fades(n[u], k[u])
  <2> DEFINE p == n[u]
             q == [p EXCEPT !.up = FALSE, !.failed = b, !.flight = <<>>]
             r == [p EXCEPT !.up = FALSE]
  <2>1. k[u] = p \/ (u \in S /\ p # None /\ (k[u] = q \/ k[u] = r))
    OBVIOUS
  <2>2. p \in {None} \cup SocketRecords
    OBVIOUS
  <2>3. CASE p = None
    <3>1. k[u] = None
      BY <2>1, <2>3
    <3>2. QED
      BY <2>3, <3>1
  <2>4. CASE p # None
    <3> HIDE DEF p, q, r
    <3>1. p \in SocketRecords /\ <<>> \in Seq(Bytes) /\ FALSE \in BOOLEAN
      BY <2>2, <2>4, NothingIs
    <3>2. q \in SocketRecords /\ r \in SocketRecords
      BY <3>1, RecordWith DEF q, r
    <3>3. /\ q.from = p.from /\ q.to = p.to /\ q.accepted = p.accepted
          /\ q.here = p.here /\ q.flight = <<>> /\ q.up = FALSE
          /\ r.from = p.from /\ r.to = p.to /\ r.accepted = p.accepted
          /\ r.here = p.here /\ r.flight = p.flight /\ r.up = FALSE
      BY <3>1 DEF SocketRecords, q, r
    <3>4. q # None /\ r # None
      BY <3>2, NoneApart DEF SocketRecords
    <3>5. Fades(p, q) /\ Fades(p, r) /\ Fades(p, p)
      BY <2>4, <3>3, <3>4 DEF Fades
    <3>6. k[u] = q \/ k[u] = r \/ k[u] = p
      BY <2>1 DEF p
    <3>7. Fades(p, k[u]) /\ k[u] \in SocketRecords
      BY <3>1, <3>2, <3>5, <3>6
    <3>8. QED
      BY <2>4, <3>7 DEF p
  <2>5. QED
    BY <2>3, <2>4
<1>2. k = [u \in Sockets |-> k[u]]
  OBVIOUS
<1>3. QED
  BY <1>1, <1>2 DEF Faded

LEMMA ClosedIs ==
  ASSUME NEW n \in [Sockets -> {None} \cup SocketRecords], NEW S
  PROVE  Faded(n, Closed(n, S)) /\ Faded(n, Reset(n, S))
<1>1. TRUE \in BOOLEAN
  OBVIOUS
<1>2. Faded(n, Closed(n, S))
  BY <1>1, SomeFade DEF Closed
<1>3. Faded(n, Reset(n, S))
  BY <1>1, SomeFade DEF Reset
<1>4. QED
  BY <1>2, <1>3

LEMMA StreamFades ==
  ASSUME NEW p \in SocketRecords, NEW q, Fades(p, q),
         NEW ms \in Seq(Frames), NEW hd \in Seq(Frames), NEW x \in Contexts, NEW o \in Seq(Bytes), NEW ti,
         Carried(ms, hd, x, (x.chunk \o p.here) \o p.flight, o, p.up, ti)
  PROVE  Carried(ms, hd, x, (x.chunk \o q.here) \o q.flight, o, q.up, ti)
<1> DEFINE c == x.chunk
           r == c \o p.here
           f == p.flight
           z == <<>>
<1>1. c \in Seq(Bytes) /\ r \in Seq(Bytes) /\ f \in Seq(Bytes) /\ z \in Seq(Bytes)
  BY DEF Contexts, SocketRecords
<1>2. Carried(ms, hd, x, r \o f, o, p.up, ti) /\ q.here = p.here
  BY DEF Fades
<1>3. CASE q.flight = p.flight /\ q.up = p.up
  BY <1>2, <1>3
<1>4. CASE q.flight = <<>> /\ q.up = FALSE
  <2> HIDE DEF c, r, f
  <2>1. r \o f \in Seq(Bytes) /\ Joins(r \o f, r, f)
    BY <1>1, Joint
  <2>2. Carried(ms, hd, x, r, o, FALSE, ti)
    BY <1>1, <1>2, <2>1, BrokenOff
  <2>3. r \o <<>> = r
    BY <1>1, ConcatEmptySeq
  <2>4. QED
    BY <1>2, <1>4, <2>2, <2>3 DEF c, r
<1>5. CASE q.flight = p.flight /\ q.up = FALSE
  <2> DEFINE d == r \o f
  <2> HIDE DEF c, r, f, z
  <2>1. d \in Seq(Bytes) /\ d \o z = d
    BY <1>1, ConcatEmptySeq DEF z
  <2>2. Carried(ms, hd, x, d, o, p.up, ti)
    BY <1>2
  <2> HIDE DEF d
  <2>3. Joins(d, d, z)
    <3>1. Joins(d \o z, d, z)
      BY <1>1, <2>1, Joint
    <3>2. QED
      BY <2>1, <3>1
  <2>4. Carried(ms, hd, x, d, o, FALSE, ti)
    BY <1>1, <2>1, <2>2, <2>3, BrokenOff
  <2>5. QED
    BY <1>2, <1>5, <2>4 DEF c, r, f, d
<1>6. QED
  BY <1>3, <1>4, <1>5 DEF Fades

\* Sockets fade, and the tables keep what holds of them.
LEMMA Ending ==
  ASSUME IInv, TypeOK', Logs', UNCHANGED <<rx, task, torn, sent, handled>>, Faded(net, net'),
         Stable, Table', \A r \in Sockets : task[r] # Quiet => Answerer(r)',
         \A r, t \in Sockets : Owes(r, t)' <=> Owes(r, t)
  PROVE  IInv'
<1> USE DEF IInv
<1>1. \A u \in Sockets :
         /\ net'[u] = None <=> net[u] = None
         /\ net[u] # None => /\ Fades(net[u], net'[u]) /\ net'[u].from = net[u].from
                             /\ net'[u].to = net[u].to /\ net'[u].accepted = net[u].accepted
                             /\ net'[u].up => net[u].up
  BY DEF Faded, Fades
<1>2. Grows
  BY <1>1 DEF Grows
<1>3. Facing'
  BY <1>1, <1>2, FacingKept
<1>4. Untouched'
  BY <1>1 DEF Untouched
<1>5. Words' /\ Working' /\ Tears'
  BY DEF Words, Working, Tears, Whole
<1>6. Named'
  BY <1>2, NamedKept
<1>7. Streams'
  <2>1. ASSUME NEW t \in Sockets, net'[t] # None PROVE Stream(t)'
    <3>1. net[t] # None /\ Stream(t) /\ Fades(net[t], net'[t]) /\ (net'[t].up => net[t].up)
      BY <1>1, <2>1 DEF Streams
    <3>2. ASSUME NEW o \in Seq(Bytes), Flows(t, o) PROVE Flows(t, o)'
      <4>1. net[t] \in SocketRecords /\ rx[t] \in Contexts /\ Script(t) \in Seq(Frames) /\ handled[t] \in Seq(Frames)
        BY <3>1, SocketIs, ScriptIs
      <4>2. Carried(Script(t), handled[t], rx[t], (rx[t].chunk \o net[t].here) \o net[t].flight, o, net[t].up, Whole(t))
        BY <3>2 DEF Flows, Remaining
      <4>3. Carried(Script(t), handled[t], rx[t], (rx[t].chunk \o net'[t].here) \o net'[t].flight, o, net'[t].up, Whole(t))
        BY <3>1, <4>1, <4>2, StreamFades
      <4>4. Script(t)' = Script(t) /\ Whole(t)' = Whole(t)
        BY DEF Script, Garbage, Whole
      <4>5. QED
        BY <4>3, <4>4 DEF Flows, Remaining
    <3>3. \A o \in Seq(Bytes) : Flows(t, o) => Flows(t, o)'
      BY <3>2
    <3>4. QED
      BY <3>1, <3>3, StreamMoves
  <2>2. QED
    BY <2>1 DEF Streams
<1>8. QED
  BY <1>3, <1>4, <1>5, <1>6, <1>7

\* A socket of h, and its connection i, are given up.
LEMMA Removes ==
  ASSUME IInv, TypeOK', Logs', NEW s \in Sockets, net[s] # None, net[s].accepted, task[s] = Quiet,
         UNCHANGED <<rx, task, torn, sent, handled>>, Faded(net, net'),
         NEW h \in Hives, h = net[s].to, NEW i \in Ids, Joined(h, i, s),
         NEW c, Wrote(h, i, c), c # None, c.ctx = None, c.out = None
  PROVE  IInv'
<1> USE DEF IInv
<1>1. Grows
  BY DEF Grows, Faded, Fades
<1>2. Stable
  BY StableWrite
<1>3. conns'[h][i] = c /\ conns[h][i] # None /\ conns[h][i].ctx = s
  BY DEF Wrote, Joined
<1>4. Table'
  <2>1. Row(h, i)'
    BY <1>3 DEF Row
  <2>2. QED
    BY <1>1, <2>1, TableWrite
<1>5. ASSUME NEW r \in Sockets, task[r] # Quiet PROVE Answerer(r)'
  <2>1. r # s /\ Answerer(r) /\ task'[r] = task[r]
    BY <1>5 DEF Working
  <2>2. QED
    BY <1>1, <1>2, <1>3, <2>1, AnswererKept
<1>6. \A r, t \in Sockets : Owes(r, t)' <=> Owes(r, t)
  <2>1. \A r \in Sockets : task[r].pc = "body" => r # s /\ r # None
    BY NoneApart DEF Quiet
  <2>2. \A r \in Sockets : task[r].pc = "body" =>
           (conns[h][i] # None => conns[h][i].ctx # r) /\ c.ctx # r
    BY <1>3, <2>1
  <2>3. \A r \in Sockets : task'[r] = task[r]
    OBVIOUS
  <2>4. QED
    BY <1>1, <2>2, <2>3, OwesWrite
<1>7. QED
  BY <1>2, <1>4, <1>5, <1>6, Ending

\* The connection of s is replaced by c, and sockets S are closed.
LEMMA GivenUp ==
  ASSUME IInv, NEW s \in Sockets, Serves(s), task[s] = Quiet, NEW S,
         NEW c, c \in [ctx : Ends, out : Ends, listed : BOOLEAN], c # None, c.ctx = None, c.out = None,
         net' = Closed(net, S), conns' = [conns EXCEPT ![net[s].to][OfSocket(s)] = c],
         freed' = freed \cup {net[s].to}, broken' \in BOOLEAN,
         UNCHANGED <<rx, task, left, threads, stopped, torn, sent, handled>>
  PROVE  IInv'
<1> USE DEF IInv
<1>1. /\ Joined(net[s].to, OfSocket(s), s) /\ OfSocket(s) \in Ids /\ net[s] # None
      /\ net[s].accepted /\ net[s].to \in Hives
  BY ServedIs, SocketIs
<1>2. PICK h \in Hives, i \in Ids : h = net[s].to /\ i = OfSocket(s)
  BY <1>1
<1>3. Faded(net, net')
  <2>1. net \in [Sockets -> {None} \cup SocketRecords]
    BY DEF TypeOK, SocketRecords
  <2>2. QED
    BY <2>1, ClosedIs
<1>4. /\ conns' \in [Hives -> [Ids -> {None} \cup [ctx : Ends, out : Ends, listed : BOOLEAN]]]
      /\ Wrote(h, i, c)
  <2>1. conns' = [conns EXCEPT ![h][i] = c]
    BY <1>2
  <2>2. QED
    BY <2>1, TypesWritten
<1>5. TypeOK'
  <2>1. net' \in [Sockets -> {None} \cup SocketRecords]
    BY <1>3 DEF Faded
  <2>2. freed' \subseteq Hives
    BY <1>1 DEF TypeOK
  <2>3. QED
    BY <1>4, <2>1, <2>2 DEF TypeOK, SocketRecords
<1>6. Logs'
  BY DEF Logs
<1>7. Joined(h, i, s)
  BY <1>1, <1>2
<1>8. QED
  BY <1>1, <1>2, <1>3, <1>4, <1>5, <1>6, <1>7, Removes

LEMMA PeerDisconnectedKeeps ==
  ASSUME IInv, NEW s \in Sockets, PeerDisconnected(s)
  PROVE  IInv'
<1>1. /\ Serves(s) /\ task[s] = Quiet
      /\ net' = Closed(net, {OutOf(s)} \ {None})
      /\ conns' = [conns EXCEPT ![net[s].to][OfSocket(s)] = Gone]
      /\ freed' = freed \cup {net[s].to} /\ broken' \in BOOLEAN
      /\ UNCHANGED <<rx, task, left, threads, stopped, torn, sent, handled>>
  BY DEF PeerDisconnected, Completed, Idle, IInv, TypeOK
<1>2. Gone \in [ctx : Ends, out : Ends, listed : BOOLEAN] /\ Gone.ctx = None /\ Gone.out = None
  BY DEF Gone, Ends
<1>3. Gone # None
  BY NoneApart DEF Ends, Gone
<1>4. QED
  BY <1>1, <1>2, <1>3, GivenUp

\* The call fails, whatever the message was.
LEMMA CallFailsKeeps ==
  ASSUME IInv, NEW s \in Sockets, Completes(s), CallFails(s),
         UNCHANGED <<task, left, threads, stopped, torn, sent>>
  PROVE  IInv'
<1> DEFINE c == [ctx |-> None, out |-> None, listed |-> TRUE]
<1>1. /\ Serves(s) /\ task[s] = Quiet
      /\ net' = Closed(net, {s, OutOf(s)} \ {None})
      /\ conns' = [conns EXCEPT ![net[s].to][OfSocket(s)] = c]
      /\ freed' = freed \cup {net[s].to} /\ broken' \in BOOLEAN
      /\ UNCHANGED <<rx, task, left, threads, stopped, torn, sent, handled>>
  BY DEF CallFails, Completes, InLoop
<1>2. c \in [ctx : Ends, out : Ends, listed : BOOLEAN] /\ c.ctx = None /\ c.out = None
  BY DEF Ends
<1>3. c # None
  BY NoneApart DEF Ends
<1> HIDE DEF c
<1>4. QED
  BY <1>1, <1>2, <1>3, GivenUp

\* A process ends.
LEMMA ExitFades ==
  ASSUME TypeOK, NEW h \in Hives, Exit(h)
  PROVE  Faded(net, net')
<1>1. PICK S : net' = Closed(Reset(net, S), Sockets)
  BY DEF Exit
<1>2. net \in [Sockets -> {None} \cup SocketRecords]
  BY DEF TypeOK, SocketRecords
<1>3. Faded(net, Reset(net, S))
  BY <1>2, ClosedIs
<1> DEFINE n == Reset(net, S)
<1>4. n \in [Sockets -> {None} \cup SocketRecords] /\ Faded(net, n)
  BY <1>3 DEF Faded
<1> HIDE DEF n
<1>5. Faded(n, Closed(n, Sockets))
  BY <1>4, ClosedIs
<1>6. net' = Closed(n, Sockets)
  BY <1>1 DEF n
<1>7. ASSUME NEW u \in Sockets, net[u] # None PROVE Fades(net[u], net'[u])
  <2>1. Fades(net[u], n[u]) /\ Fades(n[u], net'[u])
    BY <1>4, <1>5, <1>6, <1>7 DEF Faded, Fades
  <2>2. QED
    BY <2>1 DEF Fades
<1>8. QED
  BY <1>4, <1>5, <1>6, <1>7 DEF Faded

LEMMA ExitKeeps ==
  ASSUME IInv, NEW h \in Hives, Exit(h)
  PROVE  IInv'
<1> USE DEF IInv
<1>1. /\ stopped' = stopped \cup {h} /\ broken' = TRUE
      /\ UNCHANGED <<conns, rx, task, threads, freed, torn, sent, handled>>
      /\ left' = left \/ (left.breaks > 0 /\ left' = [left EXCEPT !.breaks = @ - 1])
  BY DEF Exit
<1>3. Faded(net, net')
  BY ExitFades
<1>4. left' \in Amounts
  <2>1. left \in Amounts
    BY DEF TypeOK, Amounts
  <2>2. QED
    BY <1>1, <2>1, AmountsLess
<1>5. TypeOK'
  <2>1. net' \in [Sockets -> {None} \cup SocketRecords]
    BY <1>3 DEF Faded
  <2>2. stopped' \subseteq Hives
    BY <1>1 DEF TypeOK
  <2>3. QED
    BY <1>1, <1>4, <2>1, <2>2 DEF TypeOK, SocketRecords, Amounts
<1>6. Logs'
  BY <1>1 DEF Logs
<1>7. \A g, i, t : Joined(g, i, t)' <=> Joined(g, i, t)
  BY <1>1 DEF Joined
<1>8. Stable
  BY <1>7 DEF Stable, Temporary
<1>9. \A u \in Sockets : /\ net'[u] = None <=> net[u] = None
                         /\ net[u] # None => /\ net'[u].from = net[u].from /\ net'[u].to = net[u].to
                                             /\ net'[u].accepted = net[u].accepted
  BY <1>3 DEF Faded, Fades
<1>10. Table'
  <2>1. ASSUME NEW g \in Hives, NEW i \in Ids PROVE Row(g, i)'
    <3>1. conns[g][i] # None => conns[g][i].ctx \in Sockets \cup {None} /\ conns[g][i].out \in Sockets \cup {None}
      BY RowIs
    <3>2. QED
      BY <1>1, <1>9, <3>1 DEF Table, Row
  <2>2. QED
    BY <1>1, <2>1 DEF Table, Apart
<1>11. \A r \in Sockets : task[r] # Quiet => Answerer(r)'
  BY <1>1, <1>7, <1>9 DEF Working, Answerer, Temporary
<1>12. ASSUME NEW r \in Sockets, NEW t \in Sockets PROVE Owes(r, t)' <=> Owes(r, t)
  <2>1. CASE net[r] = None
    <3>1. task[r].pc # "body"
      BY <2>1 DEF Untouched, Quiet
    <3>2. QED
      BY <1>1, <3>1 DEF Owes
  <2>2. CASE net[r] # None
    BY <1>1, <1>9, <2>2 DEF Owes
  <2>3. QED
    BY <2>1, <2>2
<1>13. QED
  BY <1>1, <1>3, <1>5, <1>6, <1>8, <1>10, <1>11, <1>12, Ending

\* An answer is handled, and its temporary connection is there.
LEMMA TakesOver ==
  ASSUME IInv, TypeOK', Logs', NEW s \in Sockets, net[s] # None, net[s].accepted, task[s] = Quiet,
         task' = task, sent' = sent, net' = net, torn' = torn,
         NEW h \in Hives, h = net[s].to, NEW i \in Ids, Joined(h, i, s),
         NEW old \in Ids, Temporary(h, old),
         conns'[h][i] # None, conns'[h][i].ctx = s, conns'[h][i].out = conns[h][old].out,
         conns'[h][i].listed = conns[h][i].listed,
         conns'[h][old] # None, conns'[h][old].ctx = None, conns'[h][old].out = None,
         \A g \in Hives, j \in Ids : g # h \/ j \notin {i, old} => conns'[g][j] = conns[g][j],
         \A u \in Sockets \ {s} : rx'[u] = rx[u] /\ handled'[u] = handled[u],
         \A o \in Seq(Bytes) :
            Carried(Script(s), handled[s], rx[s], Remaining(s), o, net[s].up, Whole(s)) =>
            Carried(Script(s), handled'[s], rx'[s], Remaining(s)', o, net[s].up, Whole(s))
  PROVE  IInv'
<1> USE DEF IInv
<1>1. /\ i # old /\ s # None /\ conns[h][i] # None /\ conns[h][i].ctx = s
      /\ conns[h][old] # None /\ conns[h][old].ctx = None
  BY NoneApart DEF Joined, Temporary
<1>2. Grows
  BY DEF Grows
<1>3. Stable
  <2>1. ASSUME NEW g \in Hives, NEW j, Temporary(g, j) PROVE Temporary(g, j)'
    BY <1>1, <2>1 DEF Temporary, Joined
  <2>2. QED
    BY <2>1 DEF Stable
<1>4. Facing' /\ Untouched'
  BY DEF Facing, Untouched
<1>5. \A g \in Hives, j \in Ids : Row(g, j)'
  <2>1. ASSUME NEW g \in Hives, NEW j \in Ids PROVE Row(g, j)'
    <3>1. CASE g = h /\ j = i
      <4>1. Row(h, i) /\ Row(h, old)
        BY DEF Table
      <4>2. QED
        BY <1>1, <3>1, <4>1 DEF Row
    <3>2. CASE g = h /\ j = old
      BY <3>2 DEF Row
    <3>3. CASE g # h \/ j \notin {i, old}
      <4>1. Row(g, j) /\ conns'[g][j] = conns[g][j]
        BY <3>3 DEF Table
      <4>2. QED
        BY <4>1 DEF Row
    <3>4. QED
      BY <3>1, <3>2, <3>3
  <2>2. QED
    BY <2>1
<1>6. \A g \in Hives, j, k \in Ids : Apart(g, j, k)'
  <2>1. ASSUME NEW g \in Hives, NEW j \in Ids, NEW k \in Ids PROVE Apart(g, j, k)'
    <3>1. CASE g # h
      <4>1. Apart(g, j, k)
        BY DEF Table
      <4>2. QED
        BY <3>1, <4>1 DEF Apart
    <3>2. CASE g = h /\ (j = old \/ k = old)
      BY <3>2 DEF Apart
    <3>3. CASE g = h /\ j # old /\ k # old
      <4>1. Apart(h, j, k) /\ Apart(h, old, k) /\ Apart(h, j, old)
        BY DEF Table
      <4>2. CASE j = i
        BY <1>1, <3>3, <4>1, <4>2 DEF Apart
      <4>3. CASE k = i
        BY <1>1, <3>3, <4>1, <4>3 DEF Apart
      <4>4. CASE j # i /\ k # i
        BY <3>3, <4>1, <4>4 DEF Apart
      <4>5. QED
        BY <4>2, <4>3, <4>4
    <3>4. QED
      BY <3>1, <3>2, <3>3
  <2>2. QED
    BY <2>1
<1>7. ASSUME NEW r \in Sockets, r # s, net[r] # None, NEW j
      PROVE  /\ Joined(net[r].to, j, r)' <=> Joined(net[r].to, j, r)
             /\ Joined(net[r].to, j, r) => conns'[net[r].to][j] = conns[net[r].to][j]
  <2>1. net[r].to \in Hives /\ r # None
    BY <1>7, SocketIs, NoneApart
  <2> DEFINE g == net[r].to
  <2>2. CASE g # h \/ j \notin {i, old}
    BY <2>1, <2>2 DEF Joined
  <2>3. CASE g = h /\ j \in {i, old}
    <3>1. ~Joined(g, j, r) /\ ~Joined(h, j, r)'
      BY <1>1, <1>7, <2>1, <2>3 DEF Joined
    <3>2. QED
      BY <2>3, <3>1 DEF Joined
  <2>4. QED
    BY <2>2, <2>3
<1>8. Working'
  <2>1. ASSUME NEW r \in Sockets, task'[r] # Quiet PROVE Answerer(r)'
    <3>1. r # s /\ Answerer(r) /\ task'[r] = task[r] /\ net[r] # None
      BY <2>1 DEF Working, Answerer
    <3>2. net[r].from \in Hives
      BY <3>1, SocketIs
    <3>3. Temporary(net[r].from, task[r].id[1])'
      BY <1>3, <3>1, <3>2 DEF Stable, Answerer, Temporary, Joined
    <3>4. PICK j \in Ids : /\ Joined(net[r].to, j, r)
                           /\ task[r].pc \in {"header", "body"} => conns[net[r].to][j].out # None
      BY <3>1 DEF Answerer
    <3>5. Joined(net[r].to, j, r)' /\ conns'[net[r].to][j] = conns[net[r].to][j]
      BY <1>7, <3>1, <3>4
    <3>6. QED
      BY <3>1, <3>3, <3>4, <3>5 DEF Answerer
  <2>2. QED
    BY <2>1 DEF Working
<1>9. Named'
  BY <1>2, <1>3, NamedKept
<1>10. \A r, t \in Sockets : /\ Owes(r, t)' <=> Owes(r, t)
                             /\ Owes(r, t) => task'[r].id = task[r].id
  <2>1. ASSUME NEW r \in Sockets, NEW t \in Sockets PROVE Owes(r, t)' <=> Owes(r, t)
    <3>1. CASE task[r].pc # "body"
      BY <3>1 DEF Owes, Joined
    <3>2. CASE task[r].pc = "body"
      <4>1. r # s /\ net[r] # None
        BY <3>2 DEF Quiet, Untouched
      <4>2. \A j \in Ids : /\ Joined(net[r].to, j, r)' <=> Joined(net[r].to, j, r)
                           /\ Joined(net[r].to, j, r) => conns'[net[r].to][j] = conns[net[r].to][j]
        BY <1>7, <4>1
      <4>3. QED
        BY <4>2 DEF Owes, Joined
    <3>3. QED
      BY <3>1, <3>2
  <2>2. QED
    BY <2>1
<1>11. Streams'
  <2>1. ASSUME NEW t \in Sockets, net'[t] # None PROVE Stream(t)'
    <3>1. Stream(t)
      BY <2>1 DEF Streams
    <3>2. CASE t # s
      BY <1>10, <3>1, <3>2, StreamKept
    <3>3. CASE t = s
      <4>1. Script(s)' = Script(s) /\ Whole(s)' = Whole(s)
        BY DEF Script, Garbage, Whole
      <4>2. \A o \in Seq(Bytes) : Flows(s, o) => Flows(s, o)'
        BY <4>1 DEF Flows
      <4>3. QED
        BY <1>10, <3>1, <3>3, <4>2, StreamMoves
    <3>4. QED
      BY <3>2, <3>3
  <2>2. QED
    BY <2>1 DEF Streams
<1>12. Table'
  BY <1>5, <1>6 DEF Table
<1>13. Words' /\ Tears'
  BY DEF Words, Tears, Whole
<1>14. QED
  BY <1>4, <1>8, <1>9, <1>11, <1>12, <1>13

\* What others came into the middle of is no number of a connection.
LEMMA GenuineCall ==
  ASSUME IInv, NEW s \in Sockets, Completes(s),
         rx[s].call # API_ANSWER_REQUEST_CONNECTION \/ Askers(s) # {}
  PROVE  Genuine(s)
<1> SUFFICES ASSUME ~Genuine(s) PROVE FALSE
  OBVIOUS
<1>1. Call(s) = Garbage(s) /\ ~Whole(s)
  BY CallIs
<1>2. /\ Garbage(s).call = API_ANSWER_REQUEST_CONNECTION /\ Garbage(s).body[2] = FloodSize
  BY <1>1, ScriptIs DEF IInv
<1>3. rx[s].call = API_ANSWER_REQUEST_CONNECTION /\ Body(s)[2] = FloodSize
  BY <1>1, <1>2 DEF Call
<1>4. PICK i \in Ids : Body(s) = Word(i)
  BY <1>3 DEF Askers, Listed
<1>5. QED
  BY <1>3, <1>4, WordIs, Widths

LEMMA AnswerRequestConnectionKeeps ==
  ASSUME IInv, NEW s \in Sockets, AnswerRequestConnection(s)
  PROVE  IInv'
<1> USE DEF IInv
<1>1. /\ Completes(s) /\ UNCHANGED <<task, left, threads, stopped, torn, sent>>
      /\ rx[s].call = API_ANSWER_REQUEST_CONNECTION
  BY DEF AnswerRequestConnection
<1>2. Serves(s) /\ task[s] = Quiet
  BY <1>1 DEF Completes, InLoop
<1>3. /\ Joined(net[s].to, OfSocket(s), s) /\ OfSocket(s) \in Ids /\ net[s] # None
      /\ net[s].accepted /\ net[s].to \in Hives
  BY <1>2, ServedIs, SocketIs
<1>4. PICK h \in Hives, i \in Ids : h = net[s].to /\ i = OfSocket(s)
  BY <1>3
<1>5. \/ Askers(s) = {} /\ CallFails(s)
      \/ /\ Handled(s) /\ UNCHANGED <<net, freed, broken>>
         /\ \E old \in Askers(s) :
               conns' = [conns EXCEPT ![h] = [@ EXCEPT ![i].out = conns[h][old].out, ![old] = Gone]]
  BY <1>4 DEF AnswerRequestConnection
<1>6. CASE CallFails(s)
  BY <1>1, <1>6, CallFailsKeeps
<1>7. ASSUME Handled(s), UNCHANGED <<net, freed, broken>>, NEW old \in Askers(s),
             conns' = [conns EXCEPT ![h] = [@ EXCEPT ![i].out = conns[h][old].out, ![old] = Gone]]
      PROVE  IInv'
  <2>a. Genuine(s)
    BY <1>1, <1>7, GenuineCall
  <2>1. Temporary(h, old) /\ old \in Ids
    <3>1. /\ Len(handled[s]) + 1 \in 1 .. Len(sent[s])
          /\ Call(s) = sent[s][Len(handled[s]) + 1]
      BY <1>1, <2>a, CallIs
    <3>2. Names(s, Call(s))
      BY <3>1 DEF Named
    <3>3. old \in Ids /\ Body(s) = Word(old)
      BY <1>7 DEF Askers, Listed
    <3>4. Call(s).call = API_ANSWER_REQUEST_CONNECTION /\ Call(s).body[1] = old
      BY <1>1, <3>3, WordIs DEF Call
    <3>5. QED
      BY <1>4, <3>2, <3>3, <3>4 DEF Names
  <2>2. /\ net' = net
        /\ conns' = [conns EXCEPT ![h] = [@ EXCEPT ![i].out = conns[h][old].out, ![old] = Gone]]
    BY <1>7
  <2> DEFINE R == [ctx : Ends, out : Ends, listed : BOOLEAN]
             c == [conns[h][i] EXCEPT !.out = conns[h][old].out]
  <2>3. conns[h][i] \in R /\ conns[h][old] \in R /\ i # old /\ conns[h][i].ctx = s
        /\ conns \in [Hives -> [Ids -> {None} \cup R]]
    <3>1. conns[h][i] # None /\ conns[h][old] # None /\ i # old /\ conns[h][i].ctx = s
      BY <1>3, <1>4, <2>1, NoneApart DEF Joined, Temporary
    <3>2. QED
      BY <2>1, <3>1, RowIs DEF TypeOK
  <2>4. c \in R /\ c.ctx = s /\ c.out = conns[h][old].out /\ c.listed = conns[h][i].listed
    BY <2>3
  <2>5. Gone \in R /\ Gone.ctx = None /\ Gone.out = None
    BY DEF Gone, Ends
  <2>6. c # None /\ Gone # None
    BY <2>4, <2>5, NoneApart
  <2>7. conns' = [conns EXCEPT ![h] = [conns[h] EXCEPT ![i] = c, ![old] = Gone]]
    BY <2>1, <2>2, <2>3
  <2> HIDE DEF R, c
  <2>8. /\ conns' \in [Hives -> [Ids -> {None} \cup R]]
        /\ conns'[h][i] = c /\ conns'[h][old] = Gone
        /\ \A g \in Hives, j \in Ids : g # h \/ j \notin {i, old} => conns'[g][j] = conns[g][j]
    <3> HIDE DEF Gone
    <3>1. QED
      BY <2>1, <2>3, <2>4, <2>5, <2>7
  <2>9. PICK z \in ReaderRecords, d \in Seq(Msgs) : z = After(s) /\ d = Append(handled[s], Call(s))
    BY <1>1, <2>a, CallIs
  <2>10. rx' = [rx EXCEPT ![s] = z] /\ handled' = [handled EXCEPT ![s] = d]
    BY <1>7, <2>9 DEF Handled, After, Call
  <2>11. /\ Bounded(z)
         /\ \A o \in Seq(Bytes) :
              Carried(Script(s), handled[s], rx[s], Remaining(s), o, net[s].up, Whole(s)) =>
              Carried(Script(s), d, z, (z.chunk \o net[s].here) \o net[s].flight, o, net[s].up, Whole(s))
    BY <1>1, <2>9, <2>a, CallIs
  <2>12. /\ rx' \in [Sockets -> ReaderRecords] /\ rx'[s] = z /\ handled'[s] = d
         /\ \A u \in Sockets \ {s} : rx'[u] = rx[u] /\ handled'[u] = handled[u]
    <3>1. rx \in [Sockets -> ReaderRecords] /\ handled \in [Sockets -> Seq(Msgs)]
      BY DEF TypeOK, ReaderRecords, Logs
    <3>2. QED
      BY <2>10, <3>1
  <2>13. \A u \in Sockets : Bounded(rx'[u])
    BY <2>11, <2>12, ReaderIs
  <2>14. TypeOK'
    BY <1>1, <1>7, <2>2, <2>8, <2>12, <2>13 DEF TypeOK, ReaderRecords, Bounded, R
  <2>15. Logs'
    BY <1>1, <2>9, <2>10 DEF Logs
  <2>16. Remaining(s)' = (z.chunk \o net[s].here) \o net[s].flight
    BY <2>2, <2>12 DEF Remaining
  <2>17. \A o \in Seq(Bytes) :
            Carried(Script(s), handled[s], rx[s], Remaining(s), o, net[s].up, Whole(s)) =>
            Carried(Script(s), handled'[s], rx'[s], Remaining(s)', o, net[s].up, Whole(s))
    BY <2>11, <2>12, <2>16
  <2>18. /\ conns'[h][i] # None /\ conns'[h][i].ctx = s /\ conns'[h][i].out = conns[h][old].out
         /\ conns'[h][i].listed = conns[h][i].listed
         /\ conns'[h][old] # None /\ conns'[h][old].ctx = None /\ conns'[h][old].out = None
    BY <2>4, <2>5, <2>6, <2>8
  <2>19. Joined(h, i, s) /\ task' = task /\ sent' = sent /\ net' = net /\ torn' = torn /\ old \in Ids /\ Temporary(h, old)
    BY <1>1, <1>3, <1>4, <2>1, <2>2
  <2>20. IInv
    OBVIOUS
  <2>21. QED
    BY <1>2, <1>3, <1>4, <2>8, <2>12, <2>14, <2>15, <2>17, <2>18, <2>19, <2>20, TakesOver
<1>8. QED
  BY <1>5, <1>6, <1>7

---------------------------------------------------------------------------
(* The invariant *)

LEMMA NextKeeps ==
  ASSUME IInv, [Next]_vars
  PROVE  IInv'
<1>1. CASE UNCHANGED vars
  <2>1. TypeOK' /\ Logs' /\ Facing' /\ Untouched'
    BY <1>1 DEF IInv, vars, ends, TypeOK, Logs, Facing, Untouched
  <2>2. \A h, i, t : Joined(h, i, t)' <=> Joined(h, i, t)
    BY <1>1 DEF vars, Joined
  <2>a. Table'
    BY <1>1 DEF IInv, vars, Table, Row, Apart
  <2>b. Working'
    BY <1>1, <2>2 DEF IInv, vars, Working, Answerer, Temporary
  <2>c. Named'
    BY <1>1, <2>2 DEF IInv, vars, Named, Names, Temporary
  <2>d. Words' /\ Tears'
    BY <1>1 DEF IInv, vars, Words, Tears, Whole
  <2>3. Streams'
    <3>1. \A r, t \in Sockets : Owes(r, t)' <=> Owes(r, t)
      BY <1>1 DEF vars, Owes
    <3>2. ASSUME NEW t \in Sockets, net'[t] # None PROVE Stream(t)'
      <4>1. Stream(t) /\ UNCHANGED <<net, rx, task, torn, sent, handled>>
        BY <1>1, <3>2 DEF IInv, vars, Streams
      <4>2. QED
        BY <3>1, <4>1, StreamKept
    <3>3. QED
      BY <3>2 DEF Streams
  <2>4. QED
    BY <2>1, <2>3, <2>a, <2>b, <2>c, <2>d DEF IInv
<1>2. ASSUME NEW h \in Hives, InitiateConnection(h) PROVE IInv'
  BY <1>2, InitiateConnectionKeeps
<1>3. ASSUME NEW h \in Hives, Flood(h) \/ Exit(h) PROVE IInv'
  BY <1>3, FloodKeeps, ExitKeeps
<1>4. ASSUME NEW s \in Sockets,
             HandleNewConnection(s) \/ ConnectFails(s) \/ Deliver(s) \/ Break(s)
      PROVE  IInv'
  BY <1>4, HandleNewConnectionKeeps, ConnectFailsKeeps, DeliverKeeps, BreakKeeps
<1>5. ASSUME NEW s \in Sockets, Serve(s) PROVE IInv'
  <2>1. CASE Recv(s) \/ RecvFails(s) \/ PeerDisconnected(s)
    BY <2>1, RecvKeeps, RecvFailsKeeps, PeerDisconnectedKeeps
  <2>2. CASE Loop(s)
    BY <2>2, ReadTypeKeeps, ReadLengthKeeps, ReadBodyPartKeeps, RequestConnectionKeeps,
       AnswerRequestConnectionKeeps, AnswerRequestPathKeeps DEF Loop
  <2>3. CASE Confirm(s)
    BY <2>3, ConnectBackKeeps, ConnectRefusedKeeps, SendAnswerHeaderKeeps, SendAnswerBodyKeeps DEF Confirm
  <2>4. QED
    BY <1>5, <2>1, <2>2, <2>3 DEF Serve
<1>6. QED
  BY <1>1, <1>2, <1>3, <1>4, <1>5 DEF Next

LEMMA ConnectionInvariant == Spec => []IInv
<1>1. IInv /\ [Next]_vars => IInv'
  BY NextKeeps
<1>2. Init => IInv
  BY Begins
<1>3. QED
  BY <1>1, <1>2, PTL DEF Spec

\* The variables keep their types: no length that Worker takes from a header is
\* above what its buffer is made for, however the bytes are cut, also when a
\* flood came between the two sends of an answer.
THEOREM ConnectionTyping == Spec => []TypeOK
<1>1. IInv => TypeOK
  BY DEF IInv
<1>2. QED
  BY <1>1, ConnectionInvariant, PTL

---------------------------------------------------------------------------
(* The refinement: Channel *)

\* One socket gets a message.
LEMMA OneSent ==
  ASSUME Logs, NEW s \in Sockets, NEW m \in Msgs,
         sent' = [sent EXCEPT ![s] = Append(sent[s], m)], handled' = handled
  PROVE  Promise!Next
<1>1. sent \in [Sockets -> Seq(Msgs)]
  BY DEF Logs
<1>2. sent' = [t \in Sockets |-> IF t \in {s} THEN Append(sent[t], m) ELSE sent[t]]
  BY <1>1
<1>3. Promise!SendAll({s}, m)
  BY <1>2 DEF Promise!SendAll
<1>4. {s} \in SUBSET Sockets
  OBVIOUS
<1>5. QED
  BY <1>3, <1>4 DEF Promise!Next

LEMMA OneHandled ==
  ASSUME IInv, NEW s \in Sockets, Completes(s), Genuine(s), Handled(s), sent' = sent
  PROVE  Promise!Next
<1>1. Len(handled[s]) + 1 \in 1 .. Len(sent[s]) /\ Call(s) = sent[s][Len(handled[s]) + 1]
  BY CallIs
<1>2. handled' = [handled EXCEPT ![s] = Append(handled[s], Call(s))]
  BY DEF Handled, Call
<1>3. Len(handled[s]) \in Nat /\ Len(sent[s]) \in Nat
  BY DEF IInv, Logs
<1>4. Len(handled[s]) < Len(sent[s])
  BY <1>1, <1>3
<1>5. Promise!Handle(s)
  BY <1>1, <1>2, <1>4 DEF Promise!Handle
<1>6. QED
  BY <1>5 DEF Promise!Next

LEMMA NextImplements ==
  ASSUME IInv, [Next]_vars
  PROVE  [Promise!Next]_<<sent, handled>>
<1> USE DEF IInv
<1>1. CASE UNCHANGED <<sent, handled>>
  BY <1>1
<1>2. ASSUME NEW h \in Hives, InitiateConnection(h) PROVE Promise!Next
  <2>1. HasSocket /\ HasId(h) /\ handled' = handled
    BY <1>2 DEF InitiateConnection
  <2>2. PICK s \in Sockets, i \in Ids : s = FreeSocket /\ i = NewId(h)
    BY <2>1, FreeSocketIs, NewIdIs
  <2>3. net[s] = None
    BY <2>1, <2>2, FreeSocketIs
  <2>4. PICK m \in Msgs : m = [call |-> API_REQUEST_CONNECTION, body |-> Word(i)]
    BY DEF Msgs
  <2>5. sent' = [sent EXCEPT ![s] = <<m>>]
    BY <1>2, <2>2, <2>4 DEF InitiateConnection
  <2>6. Append(sent[s], m) = <<m>>
    <3>1. sent[s] = <<>>
      BY <2>3 DEF Untouched
    <3>2. Append(<<>>, m) = <<m>>
      OBVIOUS
    <3>3. QED
      BY <3>1, <3>2
  <2>7. QED
    BY <2>1, <2>5, <2>6, OneSent
<1>3. ASSUME NEW h \in Hives, Flood(h) PROVE Promise!Next
  <2>1. PICK m \in Msgs : m = [call |-> API_ANSWER_REQUEST_PATH, body |-> [i \in 1 .. FloodSize |-> left.floods % Byte]]
    <3>1. left.floods \in Nat
      BY DEF TypeOK
    <3>2. left.floods % Byte \in Bytes
      BY <3>1, Widths DEF Bytes
    <3>3. QED
      BY <3>2 DEF Msgs
  <2>2. PICK outs : /\ outs = {conns[h][i].out : i \in {j \in Listed(h) : conns[h][j].ctx # None}} \ {None}
                    /\ sent' = [s \in Sockets |-> IF s \in outs THEN Append(sent[s], m) ELSE sent[s]]
                    /\ handled' = handled
    BY <1>3, <2>1 DEF Flood
  <2>3. outs \subseteq Sockets
    <3>1. \A i \in Listed(h) : conns[h][i].out \in Sockets \cup {None}
      BY RowIs DEF Listed
    <3>2. QED
      BY <2>2, <3>1
  <2>4. Promise!SendAll(outs, m)
    BY <2>2 DEF Promise!SendAll
  <2>5. QED
    BY <2>3, <2>4 DEF Promise!Next
<1>4. ASSUME NEW s \in Sockets, SendAnswerHeader(s) PROVE Promise!Next
  <2>1. /\ task[s].pc \in {"header", "body"} /\ handled' = handled
        /\ sent' = [sent EXCEPT ![OutOf(s)] = Append(@, Answer(s))]
    BY <1>4 DEF SendAnswerHeader
  <2>2. PICK o \in Sockets, m \in Msgs : o = OutOf(s) /\ m = Answer(s)
    BY <2>1, OutOfIs
  <2>3. sent' = [sent EXCEPT ![o] = Append(sent[o], m)]
    BY <2>1, <2>2
  <2>4. QED
    BY <2>1, <2>3, OneSent
<1>5. ASSUME NEW s \in Sockets, RequestConnection(s) \/ AnswerRequestConnection(s) \/ AnswerRequestPath(s)
      PROVE  Promise!Next \/ UNCHANGED <<sent, handled>>
  <2>1. Completes(s) /\ sent' = sent
    BY <1>5 DEF RequestConnection, AnswerRequestConnection, AnswerRequestPath
  <2>2. \/ Handled(s) /\ (rx[s].call # API_ANSWER_REQUEST_CONNECTION \/ Askers(s) # {})
        \/ handled' = handled
    <3>1. CASE RequestConnection(s)
      BY <3>1 DEF RequestConnection, API_REQUEST_CONNECTION, API_ANSWER_REQUEST_CONNECTION
    <3>2. CASE AnswerRequestConnection(s)
      BY <3>2 DEF AnswerRequestConnection, CallFails
    <3>3. CASE AnswerRequestPath(s)
      BY <3>3 DEF AnswerRequestPath, CallFails
    <3>4. QED
      BY <1>5, <3>1, <3>2, <3>3
  <2>3. QED
    BY <2>1, <2>2, GenuineCall, OneHandled
<1>6. ASSUME NEW s \in Sockets,
             \/ HandleNewConnection(s) \/ ConnectFails(s) \/ Deliver(s) \/ Break(s)
             \/ Recv(s) \/ RecvFails(s) \/ PeerDisconnected(s)
             \/ ReadType(s) \/ ReadLength(s) \/ ReadBodyPart(s)
             \/ ConnectBack(s) \/ ConnectRefused(s) \/ SendAnswerBody(s)
      PROVE  UNCHANGED <<sent, handled>>
  <2>1. CASE HandleNewConnection(s) \/ ConnectFails(s) \/ Deliver(s) \/ Break(s)
    BY <2>1 DEF HandleNewConnection, ConnectFails, Deliver, Break
  <2>2. CASE Recv(s) \/ RecvFails(s) \/ PeerDisconnected(s) \/ ReadType(s) \/ ReadLength(s) \/ ReadBodyPart(s)
    BY <2>2 DEF Recv, RecvFails, PeerDisconnected, ReadType, ReadLength, ReadBodyPart
  <2>3. CASE ConnectBack(s) \/ ConnectRefused(s) \/ SendAnswerBody(s)
    BY <2>3 DEF ConnectBack, ConnectRefused, SendAnswerBody
  <2>4. QED
    BY <1>6, <2>1, <2>2, <2>3
<1>7. CASE UNCHANGED vars
  BY <1>7 DEF vars
<1>8. CASE Next
  <2>1. CASE \E h \in Hives : InitiateConnection(h) \/ Flood(h) \/ Exit(h)
    <3>1. ASSUME NEW h \in Hives, Exit(h) PROVE UNCHANGED <<sent, handled>>
      BY <3>1 DEF Exit
    <3>2. QED
      BY <1>2, <1>3, <2>1, <3>1
  <2>2. CASE \E s \in Sockets :
               HandleNewConnection(s) \/ ConnectFails(s) \/ Deliver(s) \/ Break(s) \/ Serve(s)
    BY <1>4, <1>5, <1>6, <2>2 DEF Serve, Loop, Confirm
  <2>3. QED
    BY <1>8, <2>1, <2>2 DEF Next
<1>9. QED
  BY <1>7, <1>8

\* Whatever way the network cuts the bytes, and wherever a connection breaks,
\* Worker handles the messages that were sent, each once and in their order.
\* An answer that a flood came into the middle of is not handled, and nothing
\* after it.
THEOREM ConnectionImplementsChannel == Spec => ImplementsChannel
<1>1. Init => Promise!Init
  BY DEF Init, Promise!Init
<1>2. IInv /\ [Next]_vars => [Promise!Next]_<<sent, handled>>
  BY NextImplements
<1>3. QED
  BY <1>1, <1>2, ConnectionInvariant, PTL DEF Spec, ImplementsChannel, Promise!Spec

---------------------------------------------------------------------------
(* Who an answer reaches *)

Request(a) == [call |-> API_REQUEST_CONNECTION, body |-> Word(a)]
Reply(a) == [call |-> API_ANSWER_REQUEST_CONNECTION, body |-> Word(a)]
Asks(s, a) == a \in Ids /\ sent[s] # <<>> /\ sent[s][1] = Request(a)
Answers(s, a) == a \in Ids /\ \E k \in 1 .. Len(sent[s]) : sent[s][k] = Reply(a)
RequestFirst(s) == \A k \in 1 .. Len(sent[s]) : sent[s][k].call = API_REQUEST_CONNECTION => k = 1

\* A socket carries one request at most, and none when it carries an answer.
Once ==
    /\ \A s \in Sockets : RequestFirst(s)
    /\ \A s, t \in Sockets, a \in Ids : Asks(s, a) /\ Asks(t, a) /\ net[s].from = net[t].from => s = t
    /\ \A s \in Sockets, a, b \in Ids : Asks(s, a) => ~Answers(s, b)

\* The socket to write of a connection was opened to ask, or to answer what
\* came on the socket to read.
Origin(h, i) ==
    conns[h][i] # None /\ conns[h][i].out # None =>
       /\ conns[h][i].ctx = None => Asks(conns[h][i].out, i)
       /\ conns[h][i].ctx # None =>
             \/ \E a \in Ids : /\ Asks(conns[h][i].ctx, a)
                               /\ \A b \in Ids : /\ ~Asks(conns[h][i].out, b)
                                                 /\ Answers(conns[h][i].out, b) => b = a
             \/ \E a \in Ids : Asks(conns[h][i].out, a) /\ Answers(conns[h][i].ctx, a)
Origins == \A h \in Hives, i \in Ids : Origin(h, i)

\* The request that came on t was answered on s.
Settled(s, t) ==
    /\ handled[t] # <<>> /\ task[t].pc \notin {"connect", "header"}
    /\ \A j \in Ids : Joined(net[s].from, j, t) => conns[net[s].from][j].out = s
Answered ==
    \A s, t \in Sockets, a \in Ids :
        Answers(s, a) /\ Asks(t, a) /\ net[t].from = net[s].to => Settled(s, t)

Asked(s) == Asks(s, task[s].id[1]) /\ handled[s] # <<>>
TasksAsked == \A s \in Sockets : task[s] # Quiet => Asked(s)

Matching == Once /\ Origins /\ Answered /\ TasksAsked

LEMMA TalkIs ==
  ASSUME NEW a \in Ids
  PROVE  /\ Request(a) \in Msgs /\ Reply(a) \in Msgs
         /\ Request(a).call = API_REQUEST_CONNECTION /\ Request(a).body = Word(a)
         /\ Reply(a).call = API_ANSWER_REQUEST_CONNECTION /\ Reply(a).body = Word(a)
         /\ Word(a)[1] = a
         /\ \A b \in Ids : /\ Request(a) # Reply(b)
                           /\ Request(a) = Request(b) => a = b
                           /\ Reply(a) = Reply(b) => a = b
<1>1. /\ Request(a) \in Msgs /\ Reply(a) \in Msgs
      /\ \A b \in Ids : /\ Request(b).call = API_REQUEST_CONNECTION /\ Request(b).body = Word(b)
                        /\ Reply(b).call = API_ANSWER_REQUEST_CONNECTION /\ Reply(b).body = Word(b)
  BY DEF Request, Reply, Msgs
<1>2. \A b \in Ids : Word(b)[1] = b
  BY WordIs
<1>3. \A b \in Ids : Request(a) # Reply(b)
  BY <1>1 DEF API_REQUEST_CONNECTION, API_ANSWER_REQUEST_CONNECTION
<1>4. \A b \in Ids : (Request(a) = Request(b) => a = b) /\ (Reply(a) = Reply(b) => a = b)
  BY <1>1, <1>2
<1>5. QED
  BY <1>1, <1>2, <1>3, <1>4

\* What was asked and answered names connections that wait for an answer.
LEMMA Talks ==
  ASSUME IInv, NEW s \in Sockets, NEW a
  PROVE  /\ Asks(s, a) => a \in Ids /\ net[s] # None /\ net[s].from \in Hives
                          /\ net[s].to \in Hives /\ Temporary(net[s].from, a)
         /\ Answers(s, a) => a \in Ids /\ net[s] # None /\ net[s].from \in Hives
                             /\ net[s].to \in Hives /\ Temporary(net[s].to, a)
<1> USE DEF IInv
<1>1. sent[s] \in Seq(Msgs)
  BY DEF Logs
<1>2. sent[s] # <<>> => net[s] # None /\ net[s].from \in Hives /\ net[s].to \in Hives
  BY SocketIs DEF Untouched
<1>3. ASSUME Asks(s, a) PROVE sent[s] # <<>> /\ a \in Ids /\ Temporary(net[s].from, a)
  <2>1. 1 \in 1 .. Len(sent[s]) /\ sent[s] # <<>> /\ sent[s][1] = Request(a) /\ a \in Ids
    BY <1>1, <1>3 DEF Asks
  <2>2. Names(s, Request(a))
    BY <2>1 DEF Named
  <2>3. QED
    BY <2>1, <2>2, TalkIs DEF Names
<1>4. ASSUME Answers(s, a) PROVE sent[s] # <<>> /\ a \in Ids /\ Temporary(net[s].to, a)
  <2>1. PICK k \in 1 .. Len(sent[s]) : sent[s][k] = Reply(a) /\ a \in Ids
    BY <1>4 DEF Answers
  <2>2. Names(s, Reply(a)) /\ sent[s] # <<>>
    BY <2>1 DEF Named
  <2>3. QED
    BY <2>1, <2>2, TalkIs DEF Names
<1>5. QED
  BY <1>2, <1>3, <1>4

\* A message other than a request is put into a socket.
LEMMA TalksMore ==
  ASSUME Logs, NEW u \in Sockets, NEW m \in Msgs, m.call # API_REQUEST_CONNECTION,
         sent'[u] = Append(sent[u], m)
  PROVE  /\ \A a : Asks(u, a)' <=> Asks(u, a)
         /\ \A a : Answers(u, a) => Answers(u, a)'
         /\ \A a : Answers(u, a)' =>
               Answers(u, a) \/ m = Reply(a)
         /\ RequestFirst(u) => RequestFirst(u)'
<1> DEFINE n == Len(sent[u])
<1>1. /\ sent[u] \in Seq(Msgs) /\ n \in Nat /\ Len(sent'[u]) = n + 1 /\ sent'[u][n + 1] = m
      /\ \A k \in 1 .. n : sent'[u][k] = sent[u][k]
      /\ (sent[u] = <<>>) <=> (n = 0)
      /\ sent'[u] # <<>>
  <2>1. sent[u] \in Seq(Msgs)
    BY DEF Logs
  <2>2. (sent[u] = <<>>) <=> (n = 0)
    BY <2>1, EmptySeq
  <2>3. QED
    BY <2>1, <2>2, AppendProperties
<1>2. Len(sent[u]) = n
  OBVIOUS
<1> HIDE DEF n
<1>3. ASSUME NEW a PROVE Asks(u, a)' <=> Asks(u, a)
  <2>1. CASE n = 0
    BY <1>1, <2>1 DEF Asks, Request
  <2>2. CASE n > 0
    <3>1. 1 \in 1 .. n
      BY <1>1, <2>2
    <3>2. QED
      BY <1>1, <2>2, <3>1 DEF Asks
  <2>3. QED
    BY <1>1, <2>1, <2>2
<1>4. ASSUME NEW a, Answers(u, a) PROVE Answers(u, a)'
  <2>1. PICK k \in 1 .. n : sent[u][k] = Reply(a)
    BY <1>2, <1>4 DEF Answers
  <2>2. k \in 1 .. n + 1
    BY <1>1
  <2>3. QED
    BY <1>1, <1>4, <2>1, <2>2 DEF Answers
<1>5. ASSUME NEW a, Answers(u, a)'
      PROVE  Answers(u, a) \/ m = Reply(a)
  <2>1. PICK k \in 1 .. n + 1 : sent'[u][k] = Reply(a)
    BY <1>1, <1>5 DEF Answers
  <2>2. k \in 1 .. n \/ k = n + 1
    BY <1>1
  <2>3. QED
    BY <1>1, <1>2, <1>5, <2>1, <2>2 DEF Answers
<1>6. ASSUME RequestFirst(u) PROVE RequestFirst(u)'
  <2>1. ASSUME NEW k \in 1 .. n + 1, sent'[u][k].call = API_REQUEST_CONNECTION PROVE k = 1
    <3>1. k \in 1 .. n
      BY <1>1, <2>1
    <3>2. QED
      BY <1>1, <1>2, <1>6, <2>1, <3>1 DEF RequestFirst
  <2>2. QED
    BY <1>1, <2>1 DEF RequestFirst
<1>7. QED
  BY <1>3, <1>4, <1>5, <1>6

LEMMA MatchingBegins == Init => Matching
<1> SUFFICES ASSUME Init PROVE Matching
  OBVIOUS
<1>1. \A s \in Sockets : sent[s] = <<>> /\ task[s] = Quiet
  BY DEF Init
<1>2. \A h \in Hives, i \in Ids : conns[h][i] = None
  BY DEF Init
<1>3. \A s \in Sockets : \A a : ~Asks(s, a) /\ ~Answers(s, a)
  BY <1>1 DEF Asks, Answers
<1>4. \A s \in Sockets : RequestFirst(s)
  BY <1>1 DEF RequestFirst
<1>5. QED
  BY <1>1, <1>2, <1>3, <1>4 DEF Matching, Once, Origins, Origin, Answered, TasksAsked

\* What the invariants are for.
LEMMA EndsFollow ==
  ASSUME IInv, Matching
  PROVE  EndsMatch
<1> USE DEF IInv, Matching
<1> SUFFICES ASSUME NEW h \in Hives, NEW i \in Listed(h)
             PROVE  /\ \A k \in Listed(h) \ {i} : conns[h][i].out # None => conns[h][i].out # conns[h][k].out
                    /\ Complete(h, i) =>
                         \A j \in Listed(Other(h)) :
                            conns[Other(h)][j].ctx = conns[h][i].out =>
                                conns[Other(h)][j].out \in {None, conns[h][i].ctx}
  BY DEF EndsMatch
<1>1. \A k \in Listed(h) \ {i} : conns[h][i].out # None => conns[h][i].out # conns[h][k].out
  BY DEF Listed, Table, Apart
<1>2. ASSUME NEW g \in Hives, g = Other(h), Complete(h, i), NEW j \in Listed(g),
             conns[g][j].ctx = conns[h][i].out, conns[g][j].out # None
      PROVE  conns[g][j].out = conns[h][i].ctx
  <2> DEFINE s == conns[h][i].ctx
             t == conns[h][i].out
             u == conns[g][j].out
  <2>1. i \in Ids /\ j \in Ids /\ conns[h][i] # None /\ conns[g][j] # None
    BY DEF Listed
  <2>2. s \in Sockets /\ t \in Sockets /\ u \in Sockets /\ s # None /\ t # None
    BY <1>2, <2>1, RowIs DEF Complete
  <2>3. /\ net[s] # None /\ net[s].to = h /\ net[u] # None /\ net[u].from = g
        /\ net[t] # None /\ net[t].from = h /\ net[t].to = g
    BY <1>2, <2>1, <2>2 DEF Table, Row
  <2>4. net[s].from = g
    <3>1. net[s].from \in Hives /\ net[s].to = Other(net[s].from)
      BY <2>2, <2>3, SocketIs DEF Facing
    <3>2. QED
      BY <1>2, <2>3, <3>1, OtherIs
  <2>5. Origin(h, i) /\ Origin(g, j)
    BY <2>1 DEF Origins
  <2>6. CASE \E a \in Ids : Asks(s, a) /\ \A b \in Ids : ~Asks(t, b) /\ (Answers(t, b) => b = a)
    <3>1. PICK a \in Ids : Asks(s, a) /\ \A b \in Ids : ~Asks(t, b) /\ (Answers(t, b) => b = a)
      BY <2>6
    <3>2. PICK b \in Ids : Asks(u, b) /\ Answers(t, b)
      BY <1>2, <2>1, <2>2, <2>5, <3>1 DEF Origin
    <3>3. Asks(u, a) /\ Asks(s, a)
      BY <3>1, <3>2
    <3>4. QED
      BY <2>2, <2>3, <2>4, <3>3 DEF Once
  <2>7. CASE \E a \in Ids : Asks(t, a) /\ Answers(s, a)
    <3>1. PICK a \in Ids : Asks(t, a) /\ Answers(s, a)
      BY <2>7
    <3>2. Settled(s, t)
      BY <2>2, <2>3, <3>1 DEF Answered
    <3>3. Joined(net[s].from, j, t)
      BY <1>2, <2>1, <2>4 DEF Joined
    <3>4. QED
      BY <2>1, <2>4, <3>2, <3>3 DEF Settled
  <2>8. QED
    BY <2>1, <2>2, <2>5, <2>6, <2>7 DEF Origin
<1>3. Other(h) \in Hives
  BY OtherIs
<1>4. QED
  BY <1>1, <1>2, <1>3

LEMMA OriginKept ==
  ASSUME TypeOK, NEW h \in Hives, NEW i \in Ids, Origin(h, i), conns'[h][i] = conns[h][i],
         \A u \in Sockets : conns[h][i] # None /\ u \in {conns[h][i].ctx, conns[h][i].out} =>
            \A a \in Ids : (Asks(u, a)' <=> Asks(u, a)) /\ (Answers(u, a)' <=> Answers(u, a))
  PROVE  Origin(h, i)'
<1> SUFFICES ASSUME conns[h][i] # None, conns[h][i].out # None
             PROVE  Origin(h, i)'
  BY DEF Origin
<1>1. PICK s \in Sockets \cup {None}, t \in Sockets : s = conns[h][i].ctx /\ t = conns[h][i].out
  BY RowIs
<1>2. \A a \in Ids : (Asks(t, a)' <=> Asks(t, a)) /\ (Answers(t, a)' <=> Answers(t, a))
  BY <1>1
<1>3. CASE s = None
  BY <1>1, <1>2, <1>3 DEF Origin
<1>4. CASE s # None
  <2>1. \A a \in Ids : (Asks(s, a)' <=> Asks(s, a)) /\ (Answers(s, a)' <=> Answers(s, a))
    BY <1>1, <1>4
  <2>2. QED
    BY <1>1, <1>2, <1>4, <2>1 DEF Origin
<1>5. QED
  BY <1>3, <1>4

\* A step that neither asks nor answers.
LEMMA Quietly ==
  ASSUME IInv, Matching, Grows,
         \A u \in Sockets : RequestFirst(u)',
         \A u \in Sockets, a \in Ids : (Asks(u, a)' <=> Asks(u, a)) /\ (Answers(u, a)' <=> Answers(u, a)),
         Origins', TasksAsked',
         \A s, t \in Sockets :
            net[s] # None /\ net[t] # None /\ Settled(s, t) /\ (\E a \in Ids : Answers(s, a) /\ Asks(t, a))
            => Settled(s, t)'
  PROVE  Matching'
<1> USE DEF Matching
<1>1. \A u \in Sockets, a \in Ids :
         Asks(u, a) \/ Answers(u, a) =>
            net[u] # None /\ net'[u].from = net[u].from /\ net'[u].to = net[u].to
  BY Talks DEF Grows
<1>2. Once'
  <2>1. \A s, t \in Sockets, a \in Ids :
           Asks(s, a)' /\ Asks(t, a)' /\ net'[s].from = net'[t].from => s = t
    BY <1>1 DEF Once
  <2>2. \A s \in Sockets, a, b \in Ids : Asks(s, a)' => ~Answers(s, b)'
    BY DEF Once
  <2>3. QED
    BY <2>1, <2>2 DEF Once
<1>3. Answered'
  <2>1. ASSUME NEW s \in Sockets, NEW t \in Sockets, NEW a \in Ids,
               Answers(s, a)', Asks(t, a)', net'[t].from = net'[s].to
        PROVE  Settled(s, t)'
    <3>1. Answers(s, a) /\ Asks(t, a)
      BY <2>1
    <3>2. net[s] # None /\ net[t] # None /\ net[t].from = net[s].to
      BY <1>1, <2>1, <3>1
    <3>3. Settled(s, t)
      BY <3>1, <3>2 DEF Answered
    <3>4. QED
      BY <3>1, <3>2, <3>3
  <2>2. QED
    BY <2>1 DEF Answered
<1>4. QED
  BY <1>2, <1>3

\* A step that leaves the tables and what was sent.
LEMMA MatchSame ==
  ASSUME IInv, Matching, Grows, conns' = conns, sent' = sent,
         \A u \in Sockets : handled[u] # <<>> => handled'[u] # <<>>,
         \A u \in Sockets : task'[u] \in {task[u], Quiet}
  PROVE  Matching'
<1>1. \A u \in Sockets, a \in Ids : (Asks(u, a)' <=> Asks(u, a)) /\ (Answers(u, a)' <=> Answers(u, a))
  BY DEF Asks, Answers
<1>2. \A u \in Sockets : RequestFirst(u)'
  BY DEF Matching, Once, RequestFirst
<1>3. Origins'
  BY <1>1, OriginKept DEF Matching, Origins, IInv
<1>4. TasksAsked'
  <2>1. ASSUME NEW u \in Sockets, task'[u] # Quiet PROVE Asked(u)'
    <3>1. task'[u] = task[u] /\ Asked(u)
      BY <2>1 DEF Matching, TasksAsked
    <3>2. QED
      BY <3>1 DEF Asked, Asks
  <2>2. QED
    BY <2>1 DEF TasksAsked
<1>5. ASSUME NEW s \in Sockets, NEW t \in Sockets, net[s] # None, Settled(s, t)
      PROVE  Settled(s, t)'
  <2>1. net'[s].from = net[s].from /\ task'[t].pc \notin {"connect", "header"}
    BY <1>5 DEF Grows, Settled, Quiet
  <2>2. QED
    BY <1>5, <2>1 DEF Settled, Joined
<1>6. QED
  BY <1>1, <1>2, <1>3, <1>4, <1>5, Quietly

\* A request is handled: nothing has answered it.
LEMMA MatchRequest ==
  ASSUME IInv, Matching, NEW s \in Sockets, RequestConnection(s)
  PROVE  Matching'
<1> USE DEF IInv
<1>1. /\ Completes(s) /\ rx[s].call = API_REQUEST_CONNECTION /\ Handled(s)
      /\ net' = net /\ conns' = conns /\ sent' = sent
      /\ task' = [task EXCEPT ![s] = [pc |-> "connect", id |-> Body(s)]]
  BY DEF RequestConnection
<1>2. /\ Len(handled[s]) + 1 \in 1 .. Len(sent[s]) /\ Call(s) = sent[s][Len(handled[s]) + 1]
      /\ Call(s) \in Msgs
  <2>1. Genuine(s)
    BY <1>1, GenuineCall DEF API_REQUEST_CONNECTION, API_ANSWER_REQUEST_CONNECTION
  <2>2. QED
    BY <1>1, <2>1, CallIs
<1>3. Call(s).call = API_REQUEST_CONNECTION /\ Call(s).body = Body(s)
  BY <1>1 DEF Call
<1>4. sent[s] \in Seq(Msgs) /\ handled[s] \in Seq(Msgs) /\ task \in [Sockets -> [pc : Pcs, id : Seq(Bytes)]]
  BY DEF Logs, TypeOK
<1>5. handled[s] = <<>> /\ sent[s] # <<>> /\ sent[s][1] = Call(s)
  <2>1. Len(handled[s]) + 1 = 1
    BY <1>2, <1>3 DEF Matching, Once, RequestFirst
  <2>2. Len(handled[s]) = 0
    BY <1>4, <2>1
  <2>3. handled[s] = <<>>
    BY <1>4, <2>2, EmptySeq
  <2>4. QED
    BY <1>2, <1>4, <2>1, <2>3
<1>6. PICK a \in Ids : Call(s) = Request(a)
  BY <1>2, <1>3, MessageIs DEF Request
<1>7. Asks(s, a) /\ Body(s)[1] = a
  BY <1>3, <1>5, <1>6, TalkIs DEF Asks
<1>8. /\ task'[s].id[1] = a /\ \A u \in Sockets \ {s} : task'[u] = task[u]
      /\ handled' = [handled EXCEPT ![s] = Append(handled[s], Call(s))]
  BY <1>1, <1>4, <1>7 DEF Handled, Call
<1>9. handled'[s] # <<>> /\ \A u \in Sockets \ {s} : handled'[u] = handled[u]
  <2>1. handled \in [Sockets -> Seq(Msgs)]
    BY DEF Logs
  <2>2. Append(handled[s], Call(s)) # <<>>
    BY <1>2, <1>4, AppendProperties
  <2>3. QED
    BY <1>8, <2>1, <2>2
<1>10. \A u \in Sockets, b \in Ids : (Asks(u, b)' <=> Asks(u, b)) /\ (Answers(u, b)' <=> Answers(u, b))
  BY <1>1 DEF Asks, Answers
<1>11. \A u \in Sockets : RequestFirst(u)'
  BY <1>1 DEF Matching, Once, RequestFirst
<1>12. Origins'
  BY <1>1, <1>10, OriginKept DEF Matching, Origins
<1>13. TasksAsked'
  <2>1. ASSUME NEW u \in Sockets, task'[u] # Quiet PROVE Asked(u)'
    <3>1. CASE u = s
      BY <1>1, <1>7, <1>8, <1>9, <3>1 DEF Asked, Asks
    <3>2. CASE u # s
      <4>1. Asked(u)
        BY <1>8, <2>1, <3>2 DEF Matching, TasksAsked
      <4>2. QED
        BY <1>1, <1>8, <1>9, <3>2, <4>1 DEF Asked, Asks
    <3>3. QED
      BY <3>1, <3>2
  <2>2. QED
    BY <2>1 DEF TasksAsked
<1>14. ASSUME NEW r \in Sockets, NEW t \in Sockets, Settled(r, t)
       PROVE  Settled(r, t)'
  <2>1. t # s
    BY <1>5, <1>14 DEF Settled
  <2>2. QED
    BY <1>1, <1>8, <1>9, <1>14, <2>1 DEF Settled, Joined
<1>15. Grows
  BY <1>1 DEF Grows
<1>16. QED
  BY <1>10, <1>11, <1>12, <1>13, <1>14, <1>15, Quietly

\* One connection is written, and its socket to read, if any, has not come so
\* far that it is answered.
LEMMA MatchWrites ==
  ASSUME IInv, Matching, Grows, sent' = sent,
         \A u \in Sockets : handled[u] # <<>> => handled'[u] # <<>>,
         \A u \in Sockets : task[u].pc \notin {"connect", "header"} => task'[u].pc \notin {"connect", "header"},
         TasksAsked',
         NEW h \in Hives, NEW i \in Ids, NEW c, Wrote(h, i, c), Origin(h, i)',
         \A u \in Sockets : handled[u] # <<>> /\ task[u].pc \notin {"connect", "header"} => c.ctx # u
  PROVE  Matching'
<1>1. \A u \in Sockets, a \in Ids : (Asks(u, a)' <=> Asks(u, a)) /\ (Answers(u, a)' <=> Answers(u, a))
  BY DEF Asks, Answers
<1>2. \A u \in Sockets : RequestFirst(u)'
  BY DEF Matching, Once, RequestFirst
<1>3. Origins'
  <2>1. ASSUME NEW g \in Hives, NEW j \in Ids PROVE Origin(g, j)'
    <3>1. CASE g = h /\ j = i
      BY <3>1
    <3>2. CASE g # h \/ j # i
      <4>1. conns'[g][j] = conns[g][j] /\ Origin(g, j)
        BY <3>2 DEF Wrote, Matching, Origins
      <4>2. QED
        BY <1>1, <4>1, OriginKept DEF IInv
    <3>3. QED
      BY <3>1, <3>2
  <2>2. QED
    BY <2>1 DEF Origins
<1>4. ASSUME NEW s \in Sockets, NEW t \in Sockets, net[s] # None, Settled(s, t)
      PROVE  Settled(s, t)'
  <2>1. PICK g \in Hives : g = net[s].from /\ g = net'[s].from
    BY <1>4, SocketIs DEF Grows, IInv
  <2>2. ASSUME NEW j \in Ids, conns'[g][j] # None, conns'[g][j].ctx = t
        PROVE  conns'[g][j].out = s
    <3>1. g # h \/ j # i
      BY <1>4, <2>2 DEF Wrote, Settled
    <3>2. conns'[g][j] = conns[g][j]
      BY <3>1 DEF Wrote
    <3>3. Joined(g, j, t)
      BY <2>2, <3>2 DEF Joined
    <3>4. QED
      BY <1>4, <2>1, <3>2, <3>3 DEF Settled
  <2>3. handled'[t] # <<>> /\ task'[t].pc \notin {"connect", "header"}
    BY <1>4 DEF Settled
  <2>4. QED
    BY <2>1, <2>2, <2>3 DEF Settled, Joined
<1>5. QED
  BY <1>1, <1>2, <1>3, <1>4, Quietly

\* A connection loses its sockets.
LEMMA MatchRemoves ==
  ASSUME IInv, Matching, Grows, sent' = sent, task' = task,
         \A u \in Sockets : handled[u] # <<>> => handled'[u] # <<>>,
         NEW h \in Hives, NEW i \in Ids, NEW c, Wrote(h, i, c), c.ctx = None, c.out = None
  PROVE  Matching'
<1>1. Origin(h, i)'
  BY DEF Origin, Wrote
<1>2. TasksAsked'
  <2>1. ASSUME NEW u \in Sockets, task'[u] # Quiet PROVE Asked(u)'
    BY <2>1 DEF Matching, TasksAsked, Asked, Asks
  <2>2. QED
    BY <2>1 DEF TasksAsked
<1>3. \A u \in Sockets : c.ctx # u
  BY NoneApart
<1>4. QED
  BY <1>1, <1>2, <1>3, MatchWrites

LEMMA MatchNewConnection ==
  ASSUME IInv, Matching, Grows, NEW s \in Sockets, HandleNewConnection(s)
  PROVE  Matching'
<1> USE DEF IInv
<1>1. /\ net[s] # None /\ ~net[s].accepted /\ HasId(net[s].to)
      /\ conns' = [conns EXCEPT ![net[s].to][NewId(net[s].to)] = [ctx |-> s, out |-> None, listed |-> TRUE]]
      /\ task' = task /\ sent' = sent /\ handled' = handled
  BY DEF HandleNewConnection
<1>2. PICK h \in Hives, i \in Ids : h = net[s].to /\ i = NewId(h)
  BY <1>1, SocketIs, NewIdIs
<1>3. PICK c \in [ctx : Ends, out : Ends, listed : BOOLEAN] : c = [ctx |-> s, out |-> None, listed |-> TRUE]
  BY DEF Ends
<1>4. Wrote(h, i, c)
  BY <1>1, <1>2, <1>3, TypesWritten
<1>5. Origin(h, i)'
  BY <1>3, <1>4 DEF Origin, Wrote
<1>6. TasksAsked'
  BY <1>1 DEF Matching, TasksAsked, Asked, Asks
<1>7. handled[s] = <<>> /\ c.ctx = s
  BY <1>1, <1>3 DEF Untouched
<1>8. QED
  BY <1>1, <1>4, <1>5, <1>6, <1>7, MatchWrites

LEMMA MatchConnectBack ==
  ASSUME IInv, Matching, Grows, NEW s \in Sockets, ConnectBack(s)
  PROVE  Matching'
<1> USE DEF IInv
<1>1. /\ task[s].pc = "connect" /\ HasSocket /\ task' = [task EXCEPT ![s].pc = "header"]
      /\ conns' = [conns EXCEPT ![net[s].to][OfSocket(s)].out = FreeSocket]
      /\ sent' = sent /\ handled' = handled
  BY DEF ConnectBack
<1>2. task[s] # Quiet
  BY <1>1 DEF Quiet
<1>3. PICK h \in Hives, i \in Ids : h = net[s].to /\ i = OfSocket(s)
  BY <1>2, AnswererIs
<1>4. PICK t \in Sockets : t = FreeSocket /\ net[t] = None
  BY <1>1, FreeSocketIs
<1>5. Joined(h, i, s) /\ conns[h][i] \in [ctx : Ends, out : Ends, listed : BOOLEAN]
  BY <1>2, <1>3, AnswererIs
<1>6. PICK c \in [ctx : Ends, out : Ends, listed : BOOLEAN] : c = [conns[h][i] EXCEPT !.out = t]
  BY <1>5 DEF Ends
<1>7. c.ctx = s /\ c.out = t
  BY <1>5, <1>6 DEF Joined
<1>8. conns' = [conns EXCEPT ![h][i] = c]
  BY <1>1, <1>3, <1>4, <1>6
<1>9. Wrote(h, i, c)
  BY <1>8, TypesWritten
<1>10. Origin(h, i)'
  <2>1. Asks(s, task[s].id[1]) /\ task[s].id[1] \in Ids
    BY <1>2, Talks DEF Matching, TasksAsked, Asked
  <2>2. sent[t] = <<>>
    BY <1>4 DEF Untouched
  <2>3. \A b \in Ids : ~Asks(t, b)' /\ ~Answers(t, b)'
    BY <1>1, <2>2 DEF Asks, Answers
  <2>4. PICK a \in Ids : Asks(s, a)'
    BY <1>1, <2>1 DEF Asks
  <2>5. conns'[h][i] = c /\ s # None
    BY <1>9, NoneApart DEF Wrote
  <2>6. QED
    BY <1>7, <2>3, <2>4, <2>5 DEF Origin
<1>11. /\ \A u \in Sockets \ {s} : task'[u] = task[u]
       /\ task'[s].id = task[s].id /\ task'[s].pc = "header"
  <2>1. task \in [Sockets -> [pc : Pcs, id : Seq(Bytes)]]
    BY DEF TypeOK
  <2>2. QED
    BY <1>1, <2>1
<1>12. TasksAsked'
  <2>1. ASSUME NEW u \in Sockets, task'[u] # Quiet PROVE Asked(u)'
    <3>1. Asked(u) /\ task'[u].id = task[u].id
      BY <1>2, <1>11, <2>1 DEF Matching, TasksAsked
    <3>2. QED
      BY <1>1, <3>1 DEF Asked, Asks
  <2>2. QED
    BY <2>1 DEF TasksAsked
<1>13. \A u \in Sockets : task[u].pc \notin {"connect", "header"} => u # s
  BY <1>1
<1>14. QED
  BY <1>1, <1>7, <1>9, <1>10, <1>11, <1>12, <1>13, MatchWrites

LEMMA MatchTakesOver ==
  ASSUME IInv, Matching, NEW s \in Sockets, net[s] # None,
         task' = task, sent' = sent, net' = net,
         \A u \in Sockets : handled[u] # <<>> => handled'[u] # <<>>,
         NEW h \in Hives, h = net[s].to, NEW i \in Ids, Joined(h, i, s),
         NEW old \in Ids, Temporary(h, old), Answers(s, old),
         conns'[h][i] # None, conns'[h][i].ctx = s, conns'[h][i].out = conns[h][old].out,
         conns'[h][old] # None, conns'[h][old].ctx = None, conns'[h][old].out = None,
         \A g \in Hives, j \in Ids : g # h \/ j \notin {i, old} => conns'[g][j] = conns[g][j]
  PROVE  Matching'
<1>1. \A u \in Sockets, a \in Ids : (Asks(u, a)' <=> Asks(u, a)) /\ (Answers(u, a)' <=> Answers(u, a))
  BY DEF Asks, Answers
<1>2. \A u \in Sockets : RequestFirst(u)'
  BY DEF Matching, Once, RequestFirst
<1>3. Origins'
  <2>1. ASSUME NEW g \in Hives, NEW j \in Ids PROVE Origin(g, j)'
    <3>1. CASE g = h /\ j = i
      <4>1. Origin(h, old) /\ s # None /\ conns[h][old] # None /\ conns[h][old].ctx = None
        BY NoneApart DEF Matching, Origins, Temporary, Joined
      <4>2. PICK t \in Sockets \cup {None} : t = conns[h][old].out
        BY <4>1, RowIs DEF IInv
      <4>3. t # None => Asks(t, old)' /\ Answers(s, old)'
        BY <1>1, <4>1, <4>2 DEF Origin
      <4>4. QED
        BY <3>1, <4>1, <4>2, <4>3 DEF Origin
    <3>2. CASE g = h /\ j = old
      BY <3>2 DEF Origin
    <3>3. CASE g # h \/ j \notin {i, old}
      <4>1. conns'[g][j] = conns[g][j] /\ Origin(g, j)
        BY <3>3 DEF Matching, Origins
      <4>2. QED
        BY <1>1, <4>1, OriginKept DEF IInv
    <3>4. QED
      BY <3>1, <3>2, <3>3
  <2>2. QED
    BY <2>1 DEF Origins
<1>4. TasksAsked'
  <2>1. ASSUME NEW u \in Sockets, task'[u] # Quiet PROVE Asked(u)'
    BY <2>1 DEF Matching, TasksAsked, Asked, Asks
  <2>2. QED
    BY <2>1 DEF TasksAsked
<1>5. ASSUME NEW r \in Sockets, NEW t \in Sockets, net[r] # None, Settled(r, t),
             NEW a \in Ids, Asks(t, a)
      PROVE  Settled(r, t)'
  <2>1. PICK g \in Hives : g = net[r].from
    BY <1>5, SocketIs DEF IInv
  <2>2. t # s /\ t # None
    BY <1>5, NoneApart DEF Matching, Once
  <2>3. ASSUME NEW j \in Ids, conns'[g][j] # None, conns'[g][j].ctx = t
        PROVE  conns'[g][j].out = r
    <3>1. g # h \/ j \notin {i, old}
      BY <2>2, <2>3
    <3>2. conns'[g][j] = conns[g][j]
      BY <3>1
    <3>3. Joined(g, j, t)
      BY <2>3, <3>2 DEF Joined
    <3>4. QED
      BY <1>5, <2>1, <3>2, <3>3 DEF Settled
  <2>4. QED
    BY <1>5, <2>1, <2>3 DEF Settled, Joined
<1>6. Grows
  BY DEF Grows
<1>7. QED
  BY <1>1, <1>2, <1>3, <1>4, <1>5, <1>6, Quietly

\* What a flood sends.
LEMMA FloodedIs ==
  ASSUME TypeOK, NEW h \in Hives, Flood(h)
  PROVE  \E m \in Msgs : /\ m.call = API_ANSWER_REQUEST_PATH
                         /\ \E outs :
                              /\ net' = [s \in Sockets |-> IF s \in outs THEN Written(net, s, Encode(m))[s] ELSE net[s]]
                              /\ sent' = [s \in Sockets |-> IF s \in outs THEN Append(sent[s], m) ELSE sent[s]]
<1>1. left.floods \in Nat
  BY DEF TypeOK
<1>2. left.floods % Byte \in Bytes
  BY <1>1, Widths DEF Bytes
<1>3. [call |-> API_ANSWER_REQUEST_PATH, body |-> [i \in 1 .. FloodSize |-> left.floods % Byte]] \in Msgs
  BY <1>2 DEF Msgs
<1>4. QED
  BY <1>3 DEF Flood

\* Sockets keep their ends.
LEMMA Steady ==
  ASSUME IInv, [Next]_vars
  PROVE  Grows
<1> USE DEF IInv
<1>1. /\ net \in [Sockets -> {None} \cup SocketRecords]
      /\ \A u \in Sockets : net[u] # None => net[u] \in SocketRecords
  BY SocketIs DEF TypeOK, SocketRecords
<1>2. ASSUME NEW s \in Sockets, \A u \in Sockets \ {s} : net'[u] = net[u],
             net[s] # None => /\ net'[s] \in SocketRecords
                              /\ net'[s].from = net[s].from /\ net'[s].to = net[s].to
                              /\ net[s].accepted => net'[s].accepted
      PROVE  Grows
  <2>1. net[s] # None => net'[s] # None
    BY <1>2, NoneApart DEF SocketRecords
  <2>2. QED
    BY <1>2, <2>1 DEF Grows
<1>3. CASE net' = net
  BY <1>3 DEF Grows
<1>4. ASSUME Faded(net, net') PROVE Grows
  BY <1>4 DEF Faded, Fades, Grows
<1>5. ASSUME NEW s \in Sockets, net[s] = None, \A u \in Sockets \ {s} : net'[u] = net[u] PROVE Grows
  BY <1>2, <1>5
<1>6. ASSUME NEW h \in Hives, InitiateConnection(h) PROVE Grows
  <2>1. HasSocket /\ \E b : net' = [net EXCEPT ![FreeSocket] = b]
    BY <1>6 DEF InitiateConnection
  <2>2. FreeSocket \in Sockets /\ net[FreeSocket] = None
    BY <2>1, FreeSocketIs
  <2>3. PICK s \in Sockets : s = FreeSocket
    BY <2>2
  <2>4. \A u \in Sockets \ {s} : net'[u] = net[u]
    BY <1>1, <2>1, <2>3
  <2>5. QED
    BY <1>5, <2>2, <2>3, <2>4
<1>7. ASSUME NEW s \in Sockets, ConnectBack(s) PROVE Grows
  <2>1. HasSocket /\ \E b : net' = [net EXCEPT ![FreeSocket] = b]
    BY <1>7 DEF ConnectBack
  <2>2. FreeSocket \in Sockets /\ net[FreeSocket] = None
    BY <2>1, FreeSocketIs
  <2>3. PICK t \in Sockets : t = FreeSocket
    BY <2>2
  <2>4. \A u \in Sockets \ {t} : net'[u] = net[u]
    BY <1>1, <2>1, <2>3
  <2>5. QED
    BY <1>5, <2>2, <2>3, <2>4
<1>8. ASSUME NEW h \in Hives, Flood(h) PROVE Grows
  <2>0. PICK m \in Msgs : \E outs :
           net' = [s \in Sockets |-> IF s \in outs THEN Written(net, s, Encode(m))[s] ELSE net[s]]
    BY <1>8, FloodedIs
  <2>1. PICK outs :
           net' = [s \in Sockets |-> IF s \in outs THEN Written(net, s, Encode(m))[s] ELSE net[s]]
    BY <2>0
  <2>2. PICK b \in Seq(Bytes) : b = Encode(m)
    BY MessageIs, EncodeIs
  <2>3. ASSUME NEW u \in Sockets, net[u] # None
        PROVE  net'[u] # None /\ net'[u].from = net[u].from /\ net'[u].to = net[u].to
               /\ net'[u].accepted = net[u].accepted
    <3>1. Writes(net[u], Written(net, u, b)[u], b)
      BY <2>3, WrittenIs
    <3>2. net'[u] = Written(net, u, b)[u] \/ net'[u] = net[u]
      BY <2>1, <2>2
    <3>3. QED
      BY <2>3, <3>1, <3>2 DEF Writes
  <2>4. QED
    BY <2>3 DEF Grows
<1>9. ASSUME NEW s \in Sockets, SendAnswerHeader(s) \/ SendAnswerBody(s) PROVE Grows
  <2>1. PICK b \in Seq(Bytes) : net' = Written(net, OutOf(s), b) /\ task[s].pc \in {"header", "body"}
    <3>1. task[s].pc \in {"header", "body"}
      BY <1>9 DEF SendAnswerHeader, SendAnswerBody
    <3>2. Answer(s) \in Frames
      BY <3>1, OutOfIs, MessageIs
    <3>3. Header(Answer(s)) \in Seq(Bytes) /\ Answer(s).body \in Seq(Bytes)
      BY <3>2, HeaderIs, FrameIs
    <3>4. QED
      BY <1>9, <3>1, <3>3 DEF SendAnswerHeader, SendAnswerBody
  <2>2. PICK o \in Sockets : o = OutOf(s) /\ net[o] # None
    BY <2>1, OutOfIs
  <2>3. Writes(net[o], net'[o], b) /\ \A u \in Sockets \ {o} : net'[u] = net[u]
    BY <2>1, <2>2, WrittenIs
  <2>4. QED
    BY <2>2, <2>3 DEF Writes, Grows
<1>10. ASSUME NEW s \in Sockets, HandleNewConnection(s) PROVE Grows
  <2> DEFINE p == net[s]
             q == [p EXCEPT !.accepted = TRUE, !.posted = TRUE]
  <2>1. p \in SocketRecords /\ net' = [net EXCEPT ![s] = q] /\ <<>> \in Seq(Bytes)
    <3>1. net[s] # None /\ net' = [net EXCEPT ![s].accepted = TRUE, ![s].posted = TRUE]
      BY <1>10 DEF HandleNewConnection
    <3>2. p \in SocketRecords /\ <<>> \in Seq(Bytes)
      BY <1>1, <3>1
    <3>3. net' = [net EXCEPT ![s] = q]
      BY <1>1, <3>1
    <3>4. QED
      BY <3>2, <3>3
  <2>2. net'[s] = q /\ \A u \in Sockets \ {s} : net'[u] = net[u]
    BY <1>1, <2>1
  <2> HIDE DEF p
  <2>3. q \in SocketRecords
    BY <2>1, RecordWith
  <2>4. q.from = p.from /\ q.to = p.to /\ q.accepted
    BY <2>1 DEF SocketRecords
  <2> HIDE DEF q
  <2>5. QED
    BY <1>2, <2>2, <2>3, <2>4 DEF p
<1>11. ASSUME NEW s \in Sockets, Deliver(s) PROVE Grows
  <2>1. net[s] # None
    BY <1>11 DEF Deliver
  <2>2. PICK n \in 1 .. Len(net[s].flight) :
           net' = [net EXCEPT ![s].here = @ \o SubSeq(net[s].flight, 1, n),
                              ![s].flight = SubSeq(@, n + 1, Len(@))]
    BY <1>11 DEF Deliver
  <2> DEFINE p == net[s]
             b == p.here \o SubSeq(p.flight, 1, n)
             f == SubSeq(p.flight, n + 1, Len(p.flight))
             q == [p EXCEPT !.here = b, !.flight = f]
  <2>3. p \in SocketRecords /\ net' = [net EXCEPT ![s] = q]
    BY <1>1, <2>1, <2>2
  <2>4. net'[s] = q /\ \A u \in Sockets \ {s} : net'[u] = net[u]
    BY <1>1, <2>3
  <2>5. b \in Seq(Bytes) /\ f \in Seq(Bytes)
    <3>1. p.flight \in Seq(Bytes) /\ p.here \in Seq(Bytes)
      BY <2>3 DEF SocketRecords
    <3>2. n \in 0 .. Len(p.flight)
      OBVIOUS
    <3> HIDE DEF p
    <3>3. QED
      BY <3>1, <3>2, Halves
  <2> HIDE DEF p, b, f
  <2>6. q \in SocketRecords
    BY <2>3, <2>5, RecordMoved
  <2>7. q.from = p.from /\ q.to = p.to /\ q.accepted = p.accepted
    BY <2>3 DEF SocketRecords
  <2> HIDE DEF q
  <2>8. QED
    BY <1>2, <2>4, <2>6, <2>7 DEF p
<1>12. ASSUME NEW s \in Sockets, Break(s) PROVE Grows
  BY <1>1, <1>4, <1>12, ClosedIs DEF Break
<1>13. ASSUME NEW s \in Sockets, Recv(s) PROVE Grows
  <2> DEFINE n == IF Len(net[s].here) < BufferSize THEN Len(net[s].here) ELSE BufferSize
             p == net[s]
             b == SubSeq(p.here, n + 1, Len(p.here))
             q == [p EXCEPT !.here = b]
  <2>1. p \in SocketRecords /\ net' = [net EXCEPT ![s] = q]
    BY <1>1, <1>13 DEF Recv, Completed, Idle, Serves
  <2>2. net'[s] = q /\ \A u \in Sockets \ {s} : net'[u] = net[u]
    BY <1>1, <2>1
  <2>3. b \in Seq(Bytes)
    <3>1. p.here \in Seq(Bytes)
      BY <2>1 DEF SocketRecords
    <3>2. n \in 0 .. Len(p.here)
      BY <3>1, Widths
    <3> HIDE DEF p, n
    <3>3. QED
      BY <3>1, <3>2, Halves
  <2> HIDE DEF p, b, n
  <2>4. q \in SocketRecords
    BY <2>1, <2>3, NothingIs, RecordWith
  <2>5. q.from = p.from /\ q.to = p.to /\ q.accepted = p.accepted
    BY <2>1 DEF SocketRecords
  <2> HIDE DEF q
  <2>6. QED
    BY <1>2, <2>2, <2>4, <2>5 DEF p
<1>14. ASSUME NEW s \in Sockets, RecvFails(s) PROVE Grows
  <2> DEFINE p == net[s]
             q == [p EXCEPT !.posted = FALSE]
  <2>1. p \in SocketRecords /\ net' = [net EXCEPT ![s] = q]
    BY <1>1, <1>14 DEF RecvFails, Completed, Idle, Serves
  <2>2. net'[s] = q /\ \A u \in Sockets \ {s} : net'[u] = net[u]
    BY <1>1, <2>1
  <2> HIDE DEF p
  <2>3. q \in SocketRecords
    BY <2>1, NothingIs, RecordWith
  <2>4. q.from = p.from /\ q.to = p.to /\ q.accepted = p.accepted
    BY <2>1 DEF SocketRecords
  <2> HIDE DEF q
  <2>5. QED
    BY <1>2, <2>2, <2>3, <2>4 DEF p
<1>15. ASSUME NEW s \in Sockets,
              PeerDisconnected(s) \/ AnswerRequestConnection(s) \/ AnswerRequestPath(s)
       PROVE  Grows
  <2>1. net' = net \/ \E S : net' = Closed(net, S)
    BY <1>15 DEF PeerDisconnected, AnswerRequestConnection, AnswerRequestPath, CallFails
  <2>2. QED
    BY <1>1, <1>3, <1>4, <2>1, ClosedIs
<1>16. ASSUME NEW s \in Sockets,
              \/ ConnectFails(s) \/ ReadType(s) \/ ReadLength(s) \/ ReadBodyPart(s)
              \/ RequestConnection(s) \/ ConnectRefused(s)
       PROVE  Grows
  BY <1>3, <1>16 DEF ConnectFails, ConnectRefused, ReadType, ReadLength, ReadBodyPart, RequestConnection
<1>17. CASE UNCHANGED vars
  BY <1>3, <1>17 DEF vars
<1>18. CASE Next
  <2>1. CASE \E h \in Hives : InitiateConnection(h) \/ Flood(h) \/ Exit(h)
    BY <1>4, <1>6, <1>8, <2>1, ExitFades
  <2>2. CASE \E s \in Sockets :
               HandleNewConnection(s) \/ ConnectFails(s) \/ Deliver(s) \/ Break(s) \/ Serve(s)
    BY <1>7, <1>9, <1>10, <1>11, <1>12, <1>13, <1>14, <1>15, <1>16, <2>2 DEF Serve, Loop, Confirm
  <2>3. QED
    BY <1>18, <2>1, <2>2 DEF Next
<1>19. QED
  BY <1>17, <1>18

LEMMA MatchFlood ==
  ASSUME IInv, Matching, Grows, NEW h \in Hives, Flood(h)
  PROVE  Matching'
<1> USE DEF IInv
<1>1. conns' = conns /\ task' = task /\ handled' = handled
  BY DEF Flood
<1>2. PICK m \in Msgs : /\ m.call = API_ANSWER_REQUEST_PATH
                        /\ \E outs : sent' = [s \in Sockets |-> IF s \in outs THEN Append(sent[s], m) ELSE sent[s]]
  BY FloodedIs
<1>3. PICK outs : sent' = [s \in Sockets |-> IF s \in outs THEN Append(sent[s], m) ELSE sent[s]]
  BY <1>2
<1>4. m.call # API_REQUEST_CONNECTION /\ m.call # API_ANSWER_REQUEST_CONNECTION
  BY <1>2 DEF API_ANSWER_REQUEST_PATH, API_REQUEST_CONNECTION, API_ANSWER_REQUEST_CONNECTION
<1>5. ASSUME NEW u \in Sockets
      PROVE  /\ \A a \in Ids : (Asks(u, a)' <=> Asks(u, a)) /\ (Answers(u, a)' <=> Answers(u, a))
             /\ RequestFirst(u)'
  <2>1. CASE u \in outs
    <3>1. sent'[u] = Append(sent[u], m)
      BY <1>3, <2>1
    <3>2. \A a : m # Reply(a)
      BY <1>4 DEF Reply
    <3>3. RequestFirst(u)
      BY DEF Matching, Once
    <3>4. QED
      BY <1>4, <3>1, <3>2, <3>3, TalksMore
  <2>2. CASE u \notin outs
    <3>1. sent'[u] = sent[u] /\ RequestFirst(u)
      BY <1>3, <2>2 DEF Matching, Once
    <3>2. QED
      BY <3>1 DEF Asks, Answers, RequestFirst
  <2>3. QED
    BY <2>1, <2>2
<1>6. Origins'
  BY <1>1, <1>5, OriginKept DEF Matching, Origins
<1>7. TasksAsked'
  <2>1. ASSUME NEW u \in Sockets, task'[u] # Quiet PROVE Asked(u)'
    <3>1. Asked(u)
      BY <1>1, <2>1 DEF Matching, TasksAsked
    <3>2. PICK a : a = task[u].id[1]
      OBVIOUS
    <3>3. Asks(u, a) /\ a \in Ids
      BY <3>1, <3>2, Talks DEF Asked
    <3>4. Asks(u, a)'
      BY <1>5, <3>3
    <3>5. task'[u].id[1] = a /\ handled'[u] # <<>>
      BY <1>1, <3>1, <3>2 DEF Asked
    <3>6. QED
      BY <3>4, <3>5 DEF Asked, Asks
  <2>2. QED
    BY <2>1 DEF TasksAsked
<1>8. ASSUME NEW s \in Sockets, NEW t \in Sockets, net[s] # None, Settled(s, t)
      PROVE  Settled(s, t)'
  <2>1. net'[s].from = net[s].from
    BY <1>8 DEF Grows
  <2>2. QED
    BY <1>1, <1>8, <2>1 DEF Settled, Joined
<1>9. QED
  BY <1>5, <1>6, <1>7, <1>8, Quietly

LEMMA MatchInitiate ==
  ASSUME IInv, Matching, Grows, NEW h \in Hives, InitiateConnection(h)
  PROVE  Matching'
<1> USE DEF IInv
<1>1. HasSocket /\ HasId(h) /\ rx' = rx /\ task' = task /\ handled' = handled
  BY DEF InitiateConnection
<1>2. PICK s \in Sockets, i \in Ids : s = FreeSocket /\ i = NewId(h)
  BY <1>1, FreeSocketIs, NewIdIs
<1>3. net[s] = None /\ conns[h][i] = None /\ sent[s] = <<>> /\ task[s] = Quiet
  BY <1>1, <1>2, FreeSocketIs, NewIdIs DEF Untouched
<1>4. PICK m \in Msgs : m = Request(i)
  BY TalkIs
<1>5. PICK c \in [ctx : Ends, out : Ends, listed : BOOLEAN] :
         c = [ctx |-> None, out |-> s, listed |-> TRUE]
  BY DEF Ends
<1>6. /\ sent' = [sent EXCEPT ![s] = <<m>>] /\ conns' = [conns EXCEPT ![h][i] = c]
      /\ \E b : net' = [net EXCEPT ![s] = Opened(h, b)]
  BY <1>2, <1>4, <1>5 DEF InitiateConnection, Request
<1>7. Wrote(h, i, c)
  BY <1>6, TypesWritten
<1>8. sent'[s] = <<m>> /\ \A u \in Sockets \ {s} : sent'[u] = sent[u]
  <2>1. sent \in [Sockets -> Seq(Msgs)]
    BY DEF Logs
  <2>2. QED
    BY <1>6, <2>1
<1>9. net'[s].from = h /\ \A u \in Sockets \ {s} : net'[u] = net[u]
  <2>1. PICK b : net' = [net EXCEPT ![s] = Opened(h, b)]
    BY <1>6
  <2>2. Opened(h, b).from = h
    BY DEF Opened
  <2> HIDE DEF Opened
  <2>3. net'[s] = Opened(h, b) /\ \A u \in Sockets \ {s} : net'[u] = net[u]
    BY <2>1 DEF TypeOK
  <2>4. QED
    BY <2>2, <2>3
<1>10. /\ \A a \in Ids : (Asks(s, a)' <=> a = i) /\ ~Answers(s, a)' /\ ~Asks(s, a) /\ ~Answers(s, a)
       /\ RequestFirst(s)'
  <2>1. Len(<<m>>) = 1 /\ <<m>>[1] = m /\ <<m>> # <<>> /\ Len(<<>>) = 0
    OBVIOUS
  <2>2. \A a \in Ids : m = Request(a) <=> a = i
    BY <1>4, TalkIs
  <2>3. \A a \in Ids : m # Reply(a)
    BY <1>4, TalkIs
  <2>4. \A a \in Ids : (Asks(s, a)' <=> a = i)
    BY <1>8, <2>1, <2>2 DEF Asks
  <2>5. \A a \in Ids : ~Answers(s, a)'
    BY <1>8, <2>1, <2>3 DEF Answers
  <2>6. \A a \in Ids : ~Asks(s, a) /\ ~Answers(s, a)
    BY <1>3, <2>1 DEF Asks, Answers
  <2>7. RequestFirst(s)'
    BY <1>8, <2>1 DEF RequestFirst
  <2>8. QED
    BY <2>4, <2>5, <2>6, <2>7
<1>11. \A u \in Sockets \ {s} : /\ \A a \in Ids : (Asks(u, a)' <=> Asks(u, a)) /\ (Answers(u, a)' <=> Answers(u, a))
                                /\ RequestFirst(u)'
  BY <1>8 DEF Asks, Answers, RequestFirst, Matching, Once
<1>12. \A u \in Sockets : /\ Asks(u, i) => net[u].from # h
                          /\ Answers(u, i) => net[u].to # h
  BY <1>3, Talks DEF Temporary, Joined
<1>13. Once'
  <2>1. \A u \in Sockets : RequestFirst(u)'
    BY <1>10, <1>11
  <2>2. ASSUME NEW u \in Sockets, NEW v \in Sockets, NEW a \in Ids,
               Asks(u, a)', Asks(v, a)', net'[u].from = net'[v].from
        PROVE  u = v
    <3>1. CASE u # s /\ v # s
      BY <1>9, <1>11, <2>2, <3>1 DEF Matching, Once
    <3>2. CASE u = s /\ v # s
      BY <1>9, <1>10, <1>11, <1>12, <2>2, <3>2
    <3>3. CASE u # s /\ v = s
      BY <1>9, <1>10, <1>11, <1>12, <2>2, <3>3
    <3>4. QED
      BY <3>1, <3>2, <3>3
  <2>3. ASSUME NEW u \in Sockets, NEW a \in Ids, NEW b \in Ids, Asks(u, a)', Answers(u, b)'
        PROVE  FALSE
    BY <1>10, <1>11, <2>3 DEF Matching, Once
  <2>4. QED
    BY <2>1, <2>2, <2>3 DEF Once
<1>14. Origins'
  <2>1. ASSUME NEW g \in Hives, NEW j \in Ids PROVE Origin(g, j)'
    <3>1. CASE g = h /\ j = i
      <4>1. conns'[h][i] = c /\ c.ctx = None /\ c.out = s
        BY <1>5, <1>7 DEF Wrote
      <4>2. Asks(s, i)'
        BY <1>10
      <4>3. QED
        BY <3>1, <4>1, <4>2 DEF Origin
    <3>2. CASE g # h \/ j # i
      <4>1. conns'[g][j] = conns[g][j] /\ Origin(g, j)
        BY <1>7, <3>2 DEF Wrote, Matching, Origins
      <4>2. ASSUME conns[g][j] # None, NEW u \in Sockets, u \in {conns[g][j].ctx, conns[g][j].out}
            PROVE  u # s
        <5>1. u # None
          BY NoneApart
        <5>2. net[u] # None
          BY <4>2, <5>1 DEF Table, Row
        <5>3. QED
          BY <1>3, <5>2
      <4>3. QED
        BY <1>11, <4>1, <4>2, OriginKept
    <3>3. QED
      BY <3>1, <3>2
  <2>2. QED
    BY <2>1 DEF Origins
<1>15. Answered'
  <2>1. ASSUME NEW r \in Sockets, NEW t \in Sockets, NEW a \in Ids,
               Answers(r, a)', Asks(t, a)', net'[t].from = net'[r].to
        PROVE  Settled(r, t)'
    <3>1. r # s /\ Answers(r, a) /\ net'[r] = net[r]
      BY <1>9, <1>10, <1>11, <2>1
    <3>2. t # s
      BY <1>9, <1>10, <1>12, <2>1, <3>1
    <3>3. Asks(t, a) /\ net'[t] = net[t]
      BY <1>9, <1>11, <2>1, <3>2
    <3>4. Settled(r, t)
      BY <2>1, <3>1, <3>3 DEF Matching, Answered
    <3>5. PICK g \in Hives : g = net[r].from
      BY <3>1, Talks
    <3>6. ASSUME NEW j \in Ids, conns'[g][j] # None, conns'[g][j].ctx = t
          PROVE  conns'[g][j].out = r
      <4>1. g # h \/ j # i
        BY <1>5, <1>7, <3>6, NoneApart DEF Wrote
      <4>2. conns'[g][j] = conns[g][j]
        BY <1>7, <4>1 DEF Wrote
      <4>3. Joined(g, j, t)
        BY <3>6, <4>2 DEF Joined
      <4>4. QED
        BY <3>4, <3>5, <4>2, <4>3 DEF Settled
    <3>7. QED
      BY <1>1, <3>1, <3>4, <3>5, <3>6 DEF Settled, Joined
  <2>2. QED
    BY <2>1 DEF Answered
<1>16. TasksAsked'
  <2>1. ASSUME NEW u \in Sockets, task'[u] # Quiet PROVE Asked(u)'
    <3>1. u # s /\ Asked(u)
      BY <1>1, <1>3, <2>1 DEF Matching, TasksAsked
    <3>2. sent'[u] = sent[u]
      BY <1>8, <3>1
    <3>3. QED
      BY <1>1, <3>1, <3>2 DEF Asked, Asks
  <2>2. QED
    BY <2>1 DEF TasksAsked
<1>17. QED
  BY <1>13, <1>14, <1>15, <1>16 DEF Matching

LEMMA MatchAnswer ==
  ASSUME IInv, Matching, Grows, NEW s \in Sockets, SendAnswerHeader(s)
  PROVE  Matching'
<1> USE DEF IInv
<1>1. /\ task[s].pc = "header" /\ conns' = conns /\ rx' = rx /\ handled' = handled
      /\ task' = [task EXCEPT ![s].pc = "body"]
      /\ sent' = [sent EXCEPT ![OutOf(s)] = Append(@, Answer(s))]
  BY DEF SendAnswerHeader
<1>2. task[s].pc \in {"header", "body"} /\ task[s] # Quiet
  BY <1>1 DEF Quiet
<1>3. PICK o \in Sockets, m \in Msgs : o = OutOf(s) /\ m = Answer(s)
  BY <1>2, OutOfIs
<1>4. /\ net[o] # None /\ net[s] # None /\ net[o].from = net[s].to
      /\ net[o] \in SocketRecords
  BY <1>2, <1>3, OutOfIs
<1>5. PICK h \in Hives, i \in Ids : h = net[s].to /\ i = OfSocket(s)
  BY <1>2, AnswererIs
<1>6. Joined(h, i, s) /\ conns[h][i].out = o
  BY <1>2, <1>3, <1>5, AnswererIs DEF OutOf
<1>7. PICK a0 \in Ids : a0 = task[s].id[1] /\ Asks(s, a0)
  BY <1>2, Talks DEF Matching, TasksAsked, Asked
<1>8. handled[s] # <<>>
  BY <1>2 DEF Matching, TasksAsked, Asked
<1>9. m = Reply(a0) /\ m.call # API_REQUEST_CONNECTION
  <2>1. task[s].id = Word(a0)
    BY <1>2, <1>7 DEF Words
  <2>2. QED
    BY <1>3, <2>1 DEF Answer, Reply, API_ANSWER_REQUEST_CONNECTION, API_REQUEST_CONNECTION
<1>10. sent'[o] = Append(sent[o], m) /\ \A u \in Sockets \ {o} : sent'[u] = sent[u]
  BY <1>1, <1>3 DEF Logs
<1>11. \A a \in Ids : m = Reply(a) => a = a0
  BY <1>9, TalkIs
<1>12. \A u \in Sockets :
          /\ \A a \in Ids : /\ Asks(u, a)' <=> Asks(u, a)
                            /\ Answers(u, a) => Answers(u, a)'
                            /\ Answers(u, a)' => Answers(u, a) \/ (u = o /\ a = a0)
          /\ RequestFirst(u)'
  <2>1. \A u \in Sockets : RequestFirst(u)
    BY DEF Matching, Once
  <2>2. ASSUME NEW u \in Sockets, u # o
        PROVE  /\ \A a \in Ids : (Asks(u, a)' <=> Asks(u, a)) /\ (Answers(u, a)' <=> Answers(u, a))
               /\ RequestFirst(u)'
    BY <1>10, <2>1, <2>2 DEF Asks, Answers, RequestFirst
  <2>3. /\ \A a \in Ids : /\ Asks(o, a)' <=> Asks(o, a)
                          /\ Answers(o, a) => Answers(o, a)'
                          /\ Answers(o, a)' => Answers(o, a) \/ a = a0
        /\ RequestFirst(o)'
    BY <1>9, <1>10, <1>11, <2>1, TalksMore
  <2>4. QED
    BY <2>2, <2>3
<1>13. \A b \in Ids : ~Asks(o, b) /\ (Answers(o, b) => b = a0)
  <2>1. Origin(h, i) /\ conns[h][i] # None /\ conns[h][i].ctx = s /\ s # None /\ o # None
    BY <1>6, NoneApart DEF Matching, Origins, Joined
  <2>2. \/ \E a \in Ids : Asks(s, a) /\ \A b \in Ids : ~Asks(o, b) /\ (Answers(o, b) => b = a)
        \/ \E a \in Ids : Asks(o, a) /\ Answers(s, a)
    BY <1>6, <2>1 DEF Origin
  <2>3. \A a \in Ids : Asks(s, a) => a = a0
    BY <1>7, TalkIs DEF Asks
  <2>4. \A a \in Ids : ~Answers(s, a)
    BY <1>7 DEF Matching, Once
  <2>5. QED
    BY <2>2, <2>3, <2>4
<1>14. \A u \in Sockets : \A a \in Ids : Asks(u, a) \/ Answers(u, a) =>
          /\ net[u] # None /\ net'[u].from = net[u].from /\ net'[u].to = net[u].to
  BY Talks DEF Grows
<1>15. Once'
  <2>1. \A u, v \in Sockets, a \in Ids :
           Asks(u, a)' /\ Asks(v, a)' /\ net'[u].from = net'[v].from => u = v
    BY <1>12, <1>14 DEF Matching, Once
  <2>2. \A u \in Sockets, a, b \in Ids : Asks(u, a)' => ~Answers(u, b)'
    BY <1>12, <1>13 DEF Matching, Once
  <2>3. QED
    BY <1>12, <2>1, <2>2 DEF Once
<1>16. Origins'
  <2>1. ASSUME NEW g \in Hives, NEW j \in Ids PROVE Origin(g, j)'
    <3>1. CASE g = h /\ j = i
      <4>1. s # None /\ conns'[h][i].ctx = s /\ conns'[h][i].out = o
        BY <1>1, <1>6, NoneApart DEF Joined
      <4>2. Asks(s, a0)' /\ \A b \in Ids : ~Asks(o, b)' /\ (Answers(o, b)' => b = a0)
        BY <1>7, <1>12, <1>13
      <4>3. QED
        BY <3>1, <4>1, <4>2 DEF Origin
    <3>2. CASE g # h \/ j # i
      <4> SUFFICES ASSUME conns[g][j] # None, conns[g][j].out # None PROVE Origin(g, j)'
        BY <1>1 DEF Origin
      <4>1. PICK c \in Sockets \cup {None}, t \in Sockets : c = conns[g][j].ctx /\ t = conns[g][j].out
        BY RowIs
      <4>2. t # o
        <5>1. CASE g = h
          BY <1>6, <3>2, <4>1, <5>1 DEF Table, Apart, Joined
        <5>2. CASE g # h
          BY <1>4, <1>5, <4>1, <5>2 DEF Table, Row
        <5>3. QED
          BY <5>1, <5>2
      <4>3. \A a \in Ids : (Asks(t, a)' <=> Asks(t, a)) /\ (Answers(t, a)' <=> Answers(t, a))
        BY <1>12, <4>2
      <4>4. Origin(g, j)
        BY DEF Matching, Origins
      <4>5. conns'[g][j] = conns[g][j]
        BY <1>1
      <4>6. CASE c = None
        BY <4>1, <4>3, <4>4, <4>5, <4>6 DEF Origin
      <4>7. CASE c # None
        <5>1. \A a \in Ids : (Asks(c, a) => Asks(c, a)') /\ (Answers(c, a) => Answers(c, a)')
          BY <1>12, <4>1, <4>7
        <5>2. QED
          BY <4>1, <4>3, <4>4, <4>5, <4>7, <5>1 DEF Origin
      <4>8. QED
        BY <4>6, <4>7
    <3>3. QED
      BY <3>1, <3>2
  <2>2. QED
    BY <2>1 DEF Origins
<1>17. /\ \A u \in Sockets \ {s} : task'[u] = task[u]
       /\ task'[s].pc = "body" /\ task'[s].id = task[s].id
  <2>1. task \in [Sockets -> [pc : Pcs, id : Seq(Bytes)]]
    BY DEF TypeOK
  <2>2. QED
    BY <1>1, <2>1
<1>18. Answered'
  <2>1. ASSUME NEW r \in Sockets, NEW t \in Sockets, NEW a \in Ids,
               Answers(r, a)', Asks(t, a)', net'[t].from = net'[r].to
        PROVE  Settled(r, t)'
    <3>1. Asks(t, a) /\ net[t] # None /\ net'[t].from = net[t].from
      BY <1>12, <1>14, <2>1
    <3>2. CASE Answers(r, a)
      <4>1. net'[r].to = net[r].to /\ net'[r].from = net[r].from
        BY <1>14, <3>2
      <4>2. Settled(r, t)
        BY <2>1, <3>1, <3>2, <4>1 DEF Matching, Answered
      <4>3. task'[t].pc \notin {"connect", "header"}
        BY <1>17, <4>2 DEF Settled
      <4>4. QED
        BY <1>1, <4>1, <4>2, <4>3 DEF Settled, Joined
    <3>3. CASE ~Answers(r, a)
      <4>1. r = o /\ a = a0
        BY <1>12, <2>1, <3>3
      <4>2. net'[o].from = net[o].from /\ net'[o].to = net[o].to
        BY <1>4 DEF Grows
      <4>3. net[o].to = net[s].from
        <5>1. net[o].to = Other(net[o].from) /\ net[s].to = Other(net[s].from) /\ net[s].from \in Hives
          BY <1>4, SocketIs DEF Facing
        <5>2. QED
          BY <1>4, <5>1, OtherIs
      <4>4. t = s
        BY <1>7, <2>1, <3>1, <4>1, <4>2, <4>3 DEF Matching, Once
      <4>5. \A j \in Ids : Joined(h, j, s) => conns[h][j].out = o
        <5>1. ASSUME NEW j \in Ids, Joined(h, j, s) PROVE j = i
          BY <1>4, <1>5, <1>6, <5>1, OfSocketIs
        <5>2. QED
          BY <1>6, <5>1
      <4>6. net'[o].from = h
        BY <1>4, <1>5, <4>2
      <4>7. QED
        BY <1>1, <1>8, <1>17, <4>1, <4>4, <4>5, <4>6 DEF Settled, Joined
    <3>4. QED
      BY <3>2, <3>3
  <2>2. QED
    BY <2>1 DEF Answered
<1>19. TasksAsked'
  <2>1. ASSUME NEW u \in Sockets, task'[u] # Quiet PROVE Asked(u)'
    <3>1. Asked(u) /\ task'[u].id = task[u].id
      BY <1>2, <1>17, <2>1 DEF Matching, TasksAsked
    <3>2. PICK a \in Ids : a = task[u].id[1] /\ Asks(u, a)
      BY <3>1, Talks DEF Asked
    <3>3. Asks(u, a)'
      BY <1>12, <3>2
    <3>4. QED
      BY <1>1, <3>1, <3>2, <3>3 DEF Asked, Asks
  <2>2. QED
    BY <2>1 DEF TasksAsked
<1>20. QED
  BY <1>15, <1>16, <1>18, <1>19 DEF Matching

\* A message is handled and something is appended to what was.
LEMMA HandledMore ==
  ASSUME IInv, NEW s \in Sockets, Completes(s), Handled(s) \/ handled' = handled
  PROVE  \A u \in Sockets : handled[u] # <<>> => handled'[u] # <<>>
<1>1. handled \in [Sockets -> Seq(Msgs)]
  BY DEF IInv, Logs
<1>2. CASE Handled(s)
  <2>1. handled' = [handled EXCEPT ![s] = Append(handled[s], Call(s))]
    BY <1>2 DEF Handled, Call
  <2>2. handled[s] \in Seq(Frames) /\ Call(s) \in Frames
    BY CallIs, StreamOf DEF IInv
  <2>3. Append(handled[s], Call(s)) # <<>>
    BY <2>2, AppendProperties
  <2>4. QED
    BY <1>1, <2>1, <2>3
<1>3. CASE handled' = handled
  BY <1>3
<1>4. QED
  BY <1>2, <1>3

LEMMA MatchGivenUp ==
  ASSUME IInv, Matching, Grows, NEW s \in Sockets, Serves(s), NEW c,
         c \in [ctx : Ends, out : Ends, listed : BOOLEAN], c.ctx = None, c.out = None,
         conns' = [conns EXCEPT ![net[s].to][OfSocket(s)] = c],
         UNCHANGED <<task, sent, handled>>
  PROVE  Matching'
<1>1. TypeOK /\ Table
  BY DEF IInv
<1>2. PICK h \in Hives, i \in Ids : h = net[s].to /\ i = OfSocket(s)
  BY <1>1, ServedIs, SocketIs
<1>3. conns' = [conns EXCEPT ![h][i] = c]
  BY <1>2
<1>4. Wrote(h, i, c)
  BY <1>1, <1>3, TypesWritten
<1>5. QED
  BY <1>4, MatchRemoves

LEMMA MatchCallFails ==
  ASSUME IInv, Matching, Grows, NEW s \in Sockets, Completes(s), CallFails(s),
         task' = task, sent' = sent
  PROVE  Matching'
<1> DEFINE c == [ctx |-> None, out |-> None, listed |-> TRUE]
<1>1. /\ Serves(s) /\ conns' = [conns EXCEPT ![net[s].to][OfSocket(s)] = c]
      /\ UNCHANGED <<task, sent, handled>>
  BY DEF CallFails, Completes, InLoop
<1>2. c \in [ctx : Ends, out : Ends, listed : BOOLEAN] /\ c.ctx = None /\ c.out = None
  BY DEF Ends
<1> HIDE DEF c
<1>3. QED
  BY <1>1, <1>2, MatchGivenUp

LEMMA MatchDisconnected ==
  ASSUME IInv, Matching, Grows, NEW s \in Sockets, PeerDisconnected(s)
  PROVE  Matching'
<1>1. /\ Serves(s) /\ conns' = [conns EXCEPT ![net[s].to][OfSocket(s)] = Gone]
      /\ UNCHANGED <<task, sent, handled>>
  BY DEF PeerDisconnected, Completed, Idle
<1>2. Gone \in [ctx : Ends, out : Ends, listed : BOOLEAN] /\ Gone.ctx = None /\ Gone.out = None
  BY DEF Gone, Ends
<1>3. QED
  BY <1>1, <1>2, MatchGivenUp

LEMMA MatchTaken ==
  ASSUME IInv, Matching, Grows, NEW s \in Sockets, AnswerRequestConnection(s)
  PROVE  Matching'
<1>1. /\ Completes(s) /\ task' = task /\ sent' = sent
      /\ rx[s].call = API_ANSWER_REQUEST_CONNECTION
  BY DEF AnswerRequestConnection
<1>2. Serves(s) /\ TypeOK /\ Table /\ Named
  BY <1>1 DEF Completes, InLoop, IInv
<1>3. /\ Joined(net[s].to, OfSocket(s), s) /\ OfSocket(s) \in Ids /\ net[s] # None
      /\ net[s].to \in Hives
  BY <1>2, ServedIs, SocketIs
<1>4. PICK h \in Hives, i \in Ids : h = net[s].to /\ i = OfSocket(s)
  BY <1>3
<1>5. \/ Askers(s) = {} /\ CallFails(s)
      \/ /\ Handled(s) /\ net' = net
         /\ \E old \in Askers(s) :
               conns' = [conns EXCEPT ![h] = [@ EXCEPT ![i].out = conns[h][old].out, ![old] = Gone]]
  BY <1>4 DEF AnswerRequestConnection
<1>6. CASE CallFails(s)
  BY <1>1, <1>6, MatchCallFails
<1>7. ASSUME Handled(s), net' = net, NEW old \in Askers(s),
             conns' = [conns EXCEPT ![h] = [@ EXCEPT ![i].out = conns[h][old].out, ![old] = Gone]]
      PROVE  Matching'
  <2>1. Temporary(h, old) /\ old \in Ids /\ Answers(s, old)
    <3>1. Genuine(s)
      BY <1>1, <1>7, GenuineCall
    <3>2. /\ Len(handled[s]) + 1 \in 1 .. Len(sent[s])
          /\ Call(s) = sent[s][Len(handled[s]) + 1]
      BY <1>1, <3>1, CallIs
    <3>3. old \in Ids /\ Body(s) = Word(old)
      BY <1>7 DEF Askers, Listed
    <3>4. Call(s) = Reply(old)
      BY <1>1, <3>3 DEF Call, Reply
    <3>5. Answers(s, old)
      BY <3>2, <3>3, <3>4 DEF Answers
    <3>6. QED
      BY <1>4, <3>3, <3>5, Talks
  <2>2. conns' = [conns EXCEPT ![h] = [@ EXCEPT ![i].out = conns[h][old].out, ![old] = Gone]]
    BY <1>7
  <2> DEFINE R == [ctx : Ends, out : Ends, listed : BOOLEAN]
             c == [conns[h][i] EXCEPT !.out = conns[h][old].out]
  <2>3. conns[h][i] \in R /\ conns[h][old] \in R /\ i # old /\ conns[h][i].ctx = s
        /\ conns \in [Hives -> [Ids -> {None} \cup R]]
    <3>1. conns[h][i] # None /\ conns[h][old] # None /\ i # old /\ conns[h][i].ctx = s
      BY <1>3, <1>4, <2>1, NoneApart DEF Joined, Temporary
    <3>2. QED
      BY <1>2, <2>1, <3>1, RowIs DEF TypeOK
  <2>4. c \in R /\ c.ctx = s /\ c.out = conns[h][old].out
    BY <2>3
  <2>5. Gone \in R /\ Gone.ctx = None /\ Gone.out = None
    BY DEF Gone, Ends
  <2>6. c # None /\ Gone # None
    BY <2>4, <2>5, NoneApart
  <2>7. conns' = [conns EXCEPT ![h] = [conns[h] EXCEPT ![i] = c, ![old] = Gone]]
    BY <2>1, <2>2, <2>3
  <2> HIDE DEF R, c
  <2>8. /\ conns'[h][i] = c /\ conns'[h][old] = Gone
        /\ \A g \in Hives, j \in Ids : g # h \/ j \notin {i, old} => conns'[g][j] = conns[g][j]
    <3> HIDE DEF Gone
    <3>1. QED
      BY <2>1, <2>3, <2>4, <2>5, <2>7
  <2>9. /\ conns'[h][i] # None /\ conns'[h][i].ctx = s /\ conns'[h][i].out = conns[h][old].out
        /\ conns'[h][old] # None /\ conns'[h][old].ctx = None /\ conns'[h][old].out = None
    BY <2>4, <2>5, <2>6, <2>8
  <2>10. \A u \in Sockets : handled[u] # <<>> => handled'[u] # <<>>
    BY <1>1, <1>7, HandledMore
  <2>11. Joined(h, i, s) /\ net' = net
    BY <1>3, <1>4, <1>7
  <2>12. QED
    BY <1>1, <1>3, <1>4, <2>1, <2>8, <2>9, <2>10, <2>11, MatchTakesOver
<1>8. QED
  BY <1>5, <1>6, <1>7

LEMMA MatchNext ==
  ASSUME IInv, Matching, [Next]_vars
  PROVE  Matching'
<1>1. Grows
  BY Steady
<1>2. ASSUME conns' = conns, sent' = sent, task' = task, handled' = handled PROVE Matching'
  BY <1>1, <1>2, MatchSame
<1>3. ASSUME NEW s \in Sockets,
             \/ Deliver(s) \/ Break(s) \/ Recv(s) \/ RecvFails(s)
             \/ ReadType(s) \/ ReadLength(s) \/ ReadBodyPart(s)
      PROVE  Matching'
  <2>1. CASE Deliver(s) \/ Break(s) \/ Recv(s) \/ RecvFails(s)
    BY <1>2, <2>1 DEF Deliver, Break, Recv, RecvFails
  <2>2. CASE ReadType(s) \/ ReadLength(s) \/ ReadBodyPart(s)
    BY <1>2, <2>2 DEF ReadType, ReadLength, ReadBodyPart
  <2>3. QED
    BY <1>3, <2>1, <2>2
<1>4. ASSUME NEW s \in Sockets, ConnectFails(s) \/ ConnectRefused(s) \/ SendAnswerBody(s) PROVE Matching'
  <2>1. /\ conns' = conns /\ sent' = sent /\ handled' = handled
        /\ task' = [task EXCEPT ![s] = Quiet]
    BY <1>4 DEF ConnectFails, ConnectRefused, SendAnswerBody
  <2>2. \A u \in Sockets : task'[u] \in {task[u], Quiet}
    BY <2>1 DEF IInv, TypeOK
  <2>3. QED
    BY <1>1, <2>1, <2>2, MatchSame
<1>5. ASSUME NEW s \in Sockets, AnswerRequestPath(s) PROVE Matching'
  <2>1. Completes(s) /\ task' = task /\ sent' = sent
        /\ ((Handled(s) /\ conns' = conns) \/ CallFails(s))
    BY <1>5 DEF AnswerRequestPath
  <2>2. CASE Handled(s) /\ conns' = conns
    <3>1. \A u \in Sockets : handled[u] # <<>> => handled'[u] # <<>>
      BY <2>1, <2>2, HandledMore
    <3>2. QED
      BY <1>1, <2>1, <2>2, <3>1, MatchSame
  <2>3. QED
    BY <1>1, <2>1, <2>2, MatchCallFails
<1>6. CASE UNCHANGED vars
  BY <1>2, <1>6 DEF vars
<1>7. CASE Next
  <2>1. CASE \E h \in Hives : InitiateConnection(h) \/ Flood(h) \/ Exit(h)
    <3>1. ASSUME NEW h \in Hives, Exit(h) PROVE Matching'
      BY <1>2, <3>1 DEF Exit
    <3>2. QED
      BY <1>1, <2>1, <3>1, MatchInitiate, MatchFlood
  <2>2. CASE \E s \in Sockets : HandleNewConnection(s) \/ ConnectFails(s) \/ Deliver(s) \/ Break(s)
    BY <1>1, <1>3, <1>4, <2>2, MatchNewConnection
  <2>3. CASE \E s \in Sockets : Serve(s)
    <3>1. PICK s \in Sockets : Serve(s)
      BY <2>3
    <3>2. CASE Recv(s) \/ RecvFails(s) \/ PeerDisconnected(s)
      BY <1>1, <1>3, <3>2, MatchDisconnected
    <3>3. CASE Loop(s)
      BY <1>1, <1>3, <1>5, <3>3, MatchRequest, MatchTaken DEF Loop
    <3>4. CASE Confirm(s)
      BY <1>1, <1>4, <3>4, MatchConnectBack, MatchAnswer DEF Confirm
    <3>5. QED
      BY <3>1, <3>2, <3>3, <3>4 DEF Serve
  <2>4. QED
    BY <1>7, <2>1, <2>2, <2>3 DEF Next
<1>8. QED
  BY <1>6, <1>7

\* Two connections of a hive never write to one socket, and an answer reaches
\* who asked, also when both hives start to connect at once and when a flood
\* came between the two sends of an answer (ConfirmConnection).
THEOREM ConnectionEndsMatch == Spec => []EndsMatch
<1>1. IInv /\ Matching /\ [Next]_vars => Matching'
  BY MatchNext
<1>2. Init => Matching
  BY MatchingBegins
<1>3. IInv /\ Matching => EndsMatch
  BY EndsFollow
<1>4. QED
  BY <1>1, <1>2, <1>3, ConnectionInvariant, PTL DEF Spec

=============================================================================
