------------------------ MODULE ProxyStreamsProofs ------------------------
(***************************************************************************)
(* Proofs about the browser's stream: what the browser reads is in order,   *)
(* and no response is paid for twice, for any number of exits, packets,     *)
(* retries, faults and any limit of the queue.                              *)
(*                                                                          *)
(* The first rests on how a stream that was purged differs from the one     *)
(* before it: it has lost the offset that stands for the CONNECT's answer.  *)
(* So its responses would be numbered wrong.  They never reach the writer,  *)
(* because whatever purges a stream has put a message before them that      *)
(* takes the writer out of the pool (Over).  The second rests on the replay *)
(* window: what was paid for lies before it or is in it (PaidInv).          *)
(***************************************************************************)
EXTENDS ProxyStreams, FiniteSetTheorems, WellFoundedInduction, TLAPS

\* Types of the state; an index of a response is below the server's bound
Packet == [seq : 0 .. Packets, last : BOOLEAN]
Waiting == [packet : Packet, attempt : 0 .. Retries]
RequestMsg == [kind : {"request"}, exit : Exits, seq : 0 .. Packets, last : BOOLEAN,
               attempt : 0 .. Retries]
Attempt == 0 .. Retries \cup {Unnumbered}
DnsMsg == [kind : {"dns"}, exit : Exits, packet : 0 .. Packets, attempt : Attempt]
ResponseMsg == [kind : {"response"}, exit : Exits, seq : 0 .. Answers, last : BOOLEAN]
Transmit == [kind : {"transmit"}, what : {"ok", "failure", "response"}, seq : Nat,
             index : Nat, last : BOOLEAN]
PoolMsg == Transmit \cup [kind : {"remove"}]

BrowserType ==
    /\ setting \in Settings /\ tunnel \in BOOLEAN
    /\ browser \in [open : BOOLEAN, sent : 0 .. Packets, refused : BOOLEAN]
StreamOK(s) ==
    /\ s \in [exists : BOOLEAN, route : Exits \cup {None}, retry : BOOLEAN,
              left : 0 .. Retries, attempt : 0 .. Retries, first : Packet \cup {None},
              offset : BOOLEAN, leaving : BOOLEAN, next : Nat, seen : SUBSET Nat]
    /\ s.left + s.attempt <= Retries
    /\ s.retry => s.first \in Packet
StreamType == StreamOK(stream)
RouteType ==
    /\ requests \in Nat /\ queries \subseteq 1 .. requests
    /\ pendingRoute \in [id : 0 .. requests, packets : SUBSET Waiting]
    /\ IsFiniteSet(pendingRoute.packets) /\ Cardinality(pendingRoute.packets) <= QueueLimit
Line == [up : BOOLEAN, asked : BOOLEAN, answered : 0 .. Answers]
Lookup == [seq : 0 .. Packets, attempt : Attempt]
Client == [node : Exits, context : SUBSET Attempt, lookups : SUBSET Lookup,
           lines : [0 .. Packets -> Line], adding : 0 .. Packets \cup {Exit!Absent},
           held : 0 .. Packets \cup {Exit!Absent}, killed : Seq(0 .. Answers)]
MeshType ==
    /\ mesh \subseteq RequestMsg \cup DnsMsg \cup ResponseMsg
    /\ clients \in [Exits -> Client] /\ \A e \in Exits : clients[e].node = e
LocalType ==
    /\ registered \in BOOLEAN /\ poolInbox \in Seq(PoolMsg)
    /\ writer \in [buffer : [next : Nat, exhausted : BOOLEAN, packets : SUBSET Transmit],
                   out : Seq(Transmit), state : {"open", "shut", "gone"}]

\* The browser's stream leaves the pool with this message
Closes(m) == m.kind = "remove" \/ (m.kind = "transmit" /\ m.last)

\* Nothing that is sent to the pool from now on reaches the writer
Over == ~registered \/ \E k \in 1 .. Len(poolInbox) : Closes(poolInbox[k])

\* The number a server's packet has in the browser's stream
Shift == IF tunnel THEN 1 ELSE 0
Good(p) ==
    \/ p.what = "ok" /\ tunnel /\ p.seq = 0 /\ ~p.last
    \/ p.what = "failure" /\ p.seq = 0 /\ p.last
    \/ p.what = "response" /\ p.index \in 0 .. Answers /\ p.seq = p.index + Shift

\* A stream is shut down only when the browser's stream has left the pool
ShutInv ==
    /\ shutdowns \in [report : Nat, quiet : Nat] /\ purges \in Nat
    /\ shutdowns.report > 0 \/ shutdowns.quiet > 0 \/ purges > 0 => ~registered

\* As long as something can reach the writer the stream has its offset; a tunnel
\* that has no stream has not begun
OffsetInv ==
    /\ stream.offset => tunnel
    /\ ~Over => /\ stream.exists /\ tunnel => stream.offset
                /\ ~stream.exists /\ tunnel =>
                     /\ browser.sent = 0 /\ poolInbox = <<>>
                     /\ writer.out = <<>> /\ writer.buffer.packets = {}

\* Whatever will reach the writer has its proper number
InboxInv ==
    registered =>
      \A i \in 1 .. Len(poolInbox) :
        (\A k \in 1 .. (i - 1) : ~Closes(poolInbox[k])) /\ poolInbox[i].kind = "transmit"
          => Good(poolInbox[i])

\* The writer's buffer expects the number of packets written so far
WriterInv ==
    /\ writer.buffer.next = Len(writer.out) /\ writer.buffer.exhausted = FALSE
    /\ \A p \in writer.buffer.packets : Good(p)
    /\ \A i \in 1 .. Len(writer.out) :
         /\ Good(writer.out[i]) /\ writer.out[i].seq = i - 1
         /\ writer.state = "open" => ~writer.out[i].last
         /\ writer.out[i].what = "failure" => Len(writer.out) = 1

\* What was paid for lies before the replay window or is in it
PaidInv ==
    /\ IsFiniteSet(stream.seen) /\ paid \in Seq(Nat)
    /\ ~stream.exists => paid = <<>>
    /\ \A i \in 1 .. Len(paid) : paid[i] < stream.next \/ paid[i] \in stream.seen
    /\ \A i, j \in 1 .. Len(paid) : paid[i] = paid[j] => i = j

\* The inductive invariant
IInv ==
    /\ BrowserType /\ StreamType /\ RouteType /\ MeshType /\ LocalType
    /\ ShutInv /\ OffsetInv /\ InboxInv /\ WriterInv /\ PaidInv

USE BrowserAssumption

---------------------------------------------------------------------------
\* Facts about the operators

\* A stream that has just been made, and the absence of one
LEMMA NoStreamOK == StreamOK(NoStream) /\ StreamOK(FreshStream) /\ FreshStream.exists
                    /\ ~NoStream.exists /\ ~NoStream.offset /\ NoStream.seen = {}
                    /\ ~FreshStream.offset /\ FreshStream.seen = {} /\ FreshStream.next = 0
<1>1. 0 \in 0 .. Retries /\ 0 + 0 <= Retries /\ None \in Exits \cup {None}
  OBVIOUS
<1>2. StreamOK(NoStream)
  BY <1>1 DEF StreamOK, NoStream
<1>3. StreamOK(FreshStream)
  BY Zenon, <1>1 DEF StreamOK, NoStream, FreshStream
<1>4. QED
  BY <1>2, <1>3 DEF NoStream, FreshStream

\* ResponseSequenceReplayWindow::admit moves the window to the first number that
\* has not been seen; nothing that lies before it or is in it gets out
LEMMA WindowMoves ==
  ASSUME NEW next \in Nat, NEW seen \in SUBSET Nat, IsFiniteSet(seen)
  PROVE  /\ Advanced(next, seen).next \in Nat /\ Advanced(next, seen).next >= next
         /\ Advanced(next, seen).seen \in SUBSET seen
         /\ \A k \in seen : k < Advanced(next, seen).next \/ k \in Advanced(next, seen).seen
<1> DEFINE c == Cardinality(seen)
           Range0 == next .. next + c
           P(k) == k \notin seen /\ next .. k - 1 \subseteq seen
<1>1. c \in Nat
  BY FS_CardinalityType
<1>2. ~(Range0 \subseteq seen)
  <2> SUFFICES ASSUME Range0 \subseteq seen PROVE FALSE
    OBVIOUS
  <2>1. Cardinality(Range0) = c + 1
    <3>1. next \in Int /\ next + c \in Int /\ ~(next > next + c) /\ (next + c) - next + 1 = c + 1
      BY <1>1
    <3>2. QED
      BY <3>1, FS_Interval
  <2>2. Cardinality(Range0) <= c
    BY Zenon, FS_Subset
  <2>3. QED
    BY <1>1, <2>1, <2>2
<1>3. PICK n \in Range0 \ seen : \A m \in Range0 \ seen : n <= m
  <2>1. Range0 \ seen \in SUBSET Nat /\ Range0 \ seen # {}
    BY <1>1, <1>2
  <2> DEFINE Less == OpToRel(<, Nat)
  <2>2. \E x \in Range0 \ seen : \A y \in Range0 \ seen : ~(<<y, x>> \in Less)
    <3>1. IsWellFoundedOn(Less, Nat)
      BY NatLessThanWellFounded
    <3> HIDE DEF Less, Range0
    <3>2. QED
      BY Zenon, <2>1, <3>1, WFMin
  <2>3. \A x, y \in Nat : <<y, x>> \in Less <=> y < x
    BY DEF OpToRel
  <2> HIDE DEF Less, Range0
  <2>4. PICK x \in Range0 \ seen : \A y \in Range0 \ seen : ~(<<y, x>> \in Less)
    BY <2>2
  <2>5. ASSUME NEW y \in Range0 \ seen PROVE x <= y
    <3>1. x \in Nat /\ y \in Nat
      BY <2>1
    <3>2. ~(y < x)
      BY Zenon, <2>3, <2>4, <3>1
    <3>3. QED
      BY <3>1, <3>2
  <2>6. QED
    BY <2>5
<1>4. P(n)
  <2>1. \A k \in next .. n - 1 : k \in Range0 /\ k < n
    BY <1>1, <1>3
  <2>2. QED
    BY <1>1, <1>3, <2>1
<1>5. PICK k : k = (CHOOSE x \in Range0 : P(x))
  OBVIOUS
<1>6. k \in Range0 /\ P(k)
  BY <1>3, <1>4, <1>5
<1>7. Advanced(next, seen) = [next |-> k, seen |-> {x \in seen : x >= k}]
  BY <1>5 DEF Advanced
<1>8. k \in Nat /\ k >= next
  BY <1>1, <1>6
<1>9. \A x \in seen : x < k \/ x >= k
  BY <1>8
<1>10. QED
  BY <1>7, <1>8, <1>9

---------------------------------------------------------------------------
\* What most steps leave alone

\* The writer does not move
LEMMA WriterKept ==
  ASSUME WriterInv, UNCHANGED <<writer, tunnel>>
  PROVE  WriterInv'
BY DEF WriterInv, Good, Shift

\* Neither the pool's mailbox nor the writer moves
LEMMA LocalKept ==
  ASSUME LocalType, InboxInv, WriterInv, UNCHANGED <<local, tunnel>>
  PROVE  LocalType' /\ InboxInv' /\ WriterInv' /\ (Over' <=> Over)
<1>1. UNCHANGED <<registered, poolInbox, writer, tunnel>>
  BY DEF local
<1>2. WriterInv'
  BY <1>1, WriterKept
<1>3. InboxInv'
  BY <1>1 DEF InboxInv, Good, Shift, Closes
<1>4. Over' <=> Over
  BY <1>1 DEF Over, Closes
<1>5. LocalType'
  BY <1>1 DEF LocalType
<1>6. QED
  BY <1>2, <1>3, <1>4, <1>5

\* send_route_failure and its like end the browser's stream with message number 0
LEMMA FailureCloses == Failure \in PoolMsg /\ Closes(Failure) /\ Good(Failure)
<1>1. Failure = [kind |-> "transmit", what |-> "failure", seq |-> 0, index |-> 0, last |-> TRUE]
  BY DEF Failure, ToBrowser
<1>2. Failure \in Transmit
  BY <1>1 DEF Transmit
<1>3. QED
  BY <1>1, <1>2 DEF PoolMsg, Closes, Good

\* The pool is sent a message.  It counts only if nothing before it closes the stream.
LEMMA InboxGets ==
  ASSUME LocalType, InboxInv, WriterInv, NEW m \in PoolMsg,
         poolInbox' = Append(poolInbox, m), UNCHANGED <<registered, writer, tunnel>>,
         ~Over /\ m.kind = "transmit" => Good(m)
  PROVE  /\ LocalType' /\ InboxInv' /\ WriterInv'
         /\ (Over => Over') /\ (Closes(m) => Over')
<1>1. /\ poolInbox \in Seq(PoolMsg) /\ Len(poolInbox) \in Nat
      /\ poolInbox' \in Seq(PoolMsg) /\ Len(poolInbox') = Len(poolInbox) + 1
      /\ poolInbox'[Len(poolInbox) + 1] = m
      /\ \A k \in 1 .. Len(poolInbox) : poolInbox'[k] = poolInbox[k]
  BY DEF LocalType
<1>2. LocalType'
  BY <1>1 DEF LocalType
<1>3. WriterInv'
  BY WriterKept
<1>4. Over => Over'
  <2>1. CASE ~registered
    BY <2>1 DEF Over
  <2>2. CASE \E k \in 1 .. Len(poolInbox) : Closes(poolInbox[k])
    <3>1. PICK k \in 1 .. Len(poolInbox) : Closes(poolInbox[k])
      BY <2>2
    <3>2. k \in 1 .. Len(poolInbox') /\ poolInbox'[k] = poolInbox[k]
      BY <1>1, <3>1
    <3>3. QED
      BY <3>1, <3>2 DEF Over, Closes
  <2>3. QED
    BY <2>1, <2>2 DEF Over
<1>5. ASSUME Closes(m) PROVE Over'
  <2>1. Len(poolInbox) + 1 \in 1 .. Len(poolInbox')
    BY <1>1
  <2>2. QED
    BY <1>1, <1>5, <2>1 DEF Over, Closes
<1>6. InboxInv'
  <2> SUFFICES ASSUME registered, NEW i \in 1 .. Len(poolInbox'),
                      \A k \in 1 .. (i - 1) : ~Closes(poolInbox'[k]),
                      poolInbox'[i].kind = "transmit"
               PROVE  Good(poolInbox[i])'
    BY DEF InboxInv, Closes
  <2>1. CASE i \in 1 .. Len(poolInbox)
    <3>1. \A k \in 1 .. (i - 1) : k \in 1 .. Len(poolInbox) /\ poolInbox'[k] = poolInbox[k]
      BY <1>1, <2>1
    <3>2. \A k \in 1 .. (i - 1) : ~Closes(poolInbox[k])
      BY <3>1
    <3>3. poolInbox'[i] = poolInbox[i]
      BY <1>1, <2>1
    <3>4. Good(poolInbox[i])
      BY <2>1, <3>2, <3>3 DEF InboxInv
    <3>5. QED
      BY <3>3, <3>4 DEF Good, Shift
  <2>2. CASE i = Len(poolInbox) + 1
    <3>1. \A k \in 1 .. Len(poolInbox) : ~Closes(poolInbox[k])
      <4>1. \A k \in 1 .. Len(poolInbox) : k \in 1 .. (i - 1)
        BY <1>1, <2>2
      <4>2. QED
        BY <1>1, <4>1
    <3>2. ~Over
      BY <3>1 DEF Over
    <3>3. poolInbox'[i] = m
      BY <1>1, <2>2
    <3>4. QED
      BY <3>2, <3>3 DEF Good, Shift
  <2>3. QED
    BY <1>1, <2>1, <2>2
<1>7. QED
  BY <1>2, <1>3, <1>4, <1>5, <1>6

---------------------------------------------------------------------------
\* The invariant holds before the browser has sent anything
LEMMA InitInv == ASSUME BrowserInit PROVE IInv
<1> USE DEF BrowserInit
<1>1. BrowserType
  BY DEF BrowserType
<1>2. StreamType
  BY NoStreamOK DEF StreamType
<1>3. RouteType
  BY FS_EmptySet DEF RouteType, NoRequest
<1>4. MeshType
  <2>1. ASSUME NEW e \in Exits PROVE Exit!Idle(e) \in Client /\ Exit!Idle(e).node = e
    BY DEF Exit!Idle, Exit!NoLine, Exit!Absent, Client, Line
  <2>2. QED
    BY <2>1 DEF MeshType
<1>5. LocalType
  BY DEF LocalType, Buffer!EmptyBuffer
<1>6. ShutInv
  BY DEF ShutInv
<1>7. OffsetInv
  BY NoStreamOK DEF OffsetInv, Buffer!EmptyBuffer
<1>8. InboxInv /\ WriterInv
  BY DEF InboxInv, WriterInv, Buffer!EmptyBuffer
<1>9. PaidInv
  BY NoStreamOK, FS_EmptySet DEF PaidInv
<1>10. QED
  BY <1>1, <1>2, <1>3, <1>4, <1>5, <1>6, <1>7, <1>8, <1>9 DEF IInv

---------------------------------------------------------------------------
\* Parts of the handlers

\* s is the stream, or the one that is made when there is none
Continues(s) ==
    /\ StreamOK(s) /\ s.exists
    /\ IF stream.exists
       THEN s.next = stream.next /\ s.seen = stream.seen /\ s.offset = stream.offset
       ELSE s.next = 0 /\ s.seen = {} /\ s.offset = FALSE

\* s is the stream as far as its window and its offset go
Same(s) ==
    /\ StreamOK(s) /\ s.exists = stream.exists
    /\ s.next = stream.next /\ s.seen = stream.seen /\ s.offset = stream.offset

\* The stream of the next packet
LEMMA FoundContinues ==
  ASSUME NEW base, Same(base), NEW s, s = Found(base)
  PROVE  Continues(s)
<1>1. CASE stream.exists
  BY <1>1 DEF Found, Continues, Same
<1>2. CASE ~stream.exists
  BY <1>2, NoStreamOK DEF Found, Continues, Same
<1>3. QED
  BY <1>1, <1>2

\* A stream that goes on has paid for what it had paid for
LEMMA WindowKept ==
  ASSUME PaidInv, Continues(stream'), UNCHANGED paid
  PROVE  PaidInv'
<1>1. CASE stream.exists
  BY <1>1 DEF PaidInv, Continues
<1>2. CASE ~stream.exists
  <2>1. paid' = <<>> /\ stream'.exists /\ stream'.seen = {}
    BY <1>2 DEF PaidInv, Continues
  <2>2. IsFiniteSet(stream'.seen) /\ paid' \in Seq(Nat) /\ Len(paid') = 0
    BY <2>1, FS_EmptySet
  <2>3. QED
    BY <2>1, <2>2 DEF PaidInv
<1>3. QED
  BY <1>1, <1>2

\* purge_stream_key forgets the window and what was paid together
LEMMA PurgedStep ==
  ASSUME Purged
  PROVE  /\ StreamType' /\ PaidInv' /\ ~stream'.exists /\ ~stream'.offset
         /\ pendingRoute' = NoRequest
<1>1. stream' = NoStream /\ paid' = <<>>
  BY DEF Purged
<1>2. StreamType'
  BY <1>1, NoStreamOK DEF StreamType
<1>3. IsFiniteSet(stream'.seen) /\ paid' \in Seq(Nat) /\ Len(paid') = 0
  BY <1>1, NoStreamOK, FS_EmptySet
<1>4. PaidInv'
  BY <1>1, <1>3 DEF PaidInv
<1>5. QED
  BY <1>1, <1>2, <1>4, NoStreamOK DEF Purged

\* The request for a route is answered or given up
LEMMA NothingPending ==
  ASSUME RouteType, pendingRoute' = NoRequest, UNCHANGED requests, queries' \subseteq queries
  PROVE  RouteType'
<1>1. NoRequest \in [id : 0 .. requests, packets : SUBSET Waiting]
  BY DEF RouteType, NoRequest
<1>2. NoRequest.packets = {}
  BY DEF NoRequest
<1>3. QED
  BY <1>1, <1>2, FS_EmptySet DEF RouteType

\* A new request for a route
LEMMA AskStep ==
  ASSUME RouteType, NEW packet \in Packet, NEW attempt \in 0 .. Retries,
         AskForRoute(packet, attempt)
  PROVE  RouteType'
<1> DEFINE w == [packet |-> packet, attempt |-> attempt]
<1>1. w \in Waiting
  BY DEF Waiting
<1>2. requests' = requests + 1 /\ requests' \in Nat /\ queries' \subseteq 1 .. requests'
  BY DEF RouteType, AskForRoute
<1>3. IsFiniteSet({w}) /\ Cardinality({w}) = 1
  BY Zenon, FS_Singleton
<1>4. pendingRoute' = [id |-> requests', packets |-> {w}]
  BY DEF AskForRoute
<1>5. requests' \in 0 .. requests'
  BY <1>2
<1> HIDE DEF w
<1>6. pendingRoute' \in [id : 0 .. requests', packets : SUBSET Waiting]
  BY <1>1, <1>4, <1>5
<1>7. QED
  BY <1>2, <1>3, <1>4, <1>6 DEF RouteType

\* handle_normal_client_data keeps the stream's window and offset, or purges the
\* stream behind a failure message that closes the browser's stream
LEMMA ClientDataStep ==
  ASSUME IInv, NEW base, Same(base), NEW packet \in Packet, NEW hasHost, NEW metered,
         NEW fits \in BOOLEAN, ClientData(base, packet, hasHost, metered, fits),
         UNCHANGED <<tunnel, registered, writer>>,
         ~Over /\ tunnel => stream.exists
  PROVE  /\ StreamType' /\ RouteType' /\ mesh' \subseteq RequestMsg \cup DnsMsg \cup ResponseMsg
         /\ LocalType' /\ OffsetInv' /\ InboxInv' /\ WriterInv' /\ PaidInv'
<1>0. PICK s : s = Found(base)
  OBVIOUS
<1>c. Continues(s)
  BY <1>0, FoundContinues
<1> DEFINE marked == IF s.retry THEN s
                     ELSE [s EXCEPT !.retry = TRUE, !.left = Retries,
                                    !.attempt = 0, !.first = packet]
           Goal == /\ StreamType' /\ RouteType'
                   /\ mesh' \subseteq RequestMsg \cup DnsMsg \cup ResponseMsg
                   /\ LocalType' /\ OffsetInv' /\ InboxInv' /\ WriterInv' /\ PaidInv'
<1>1. /\ BrowserType /\ StreamType /\ RouteType /\ MeshType /\ LocalType
      /\ OffsetInv /\ InboxInv /\ WriterInv /\ PaidInv
  BY DEF IInv
<1>2. Continues(marked) /\ marked.retry /\ marked.attempt \in 0 .. Retries
      /\ marked.first \in Packet /\ marked.route = s.route
  <2>1. CASE s.retry
    BY <1>c, <2>1 DEF Continues, StreamOK
  <2>2. CASE ~s.retry
    <3>1. marked = [s EXCEPT !.retry = TRUE, !.left = Retries, !.attempt = 0, !.first = packet]
      BY <2>2
    <3>2. 0 \in 0 .. Retries /\ Retries \in 0 .. Retries /\ Retries + 0 <= Retries
      OBVIOUS
    <3>3. QED
      BY Zenon, <1>c, <3>1, <3>2 DEF Continues, StreamOK
  <2>3. QED
    BY <2>1, <2>2
<1> HIDE DEF marked
\* The stream goes on
<1>3. ASSUME Continues(stream'), UNCHANGED paid, UNCHANGED poolInbox
      PROVE  StreamType' /\ LocalType' /\ OffsetInv' /\ InboxInv' /\ WriterInv' /\ PaidInv'
  <2>1. LocalType' /\ InboxInv' /\ WriterInv' /\ (Over' <=> Over)
    BY <1>1, <1>3, LocalKept DEF local
  <2>2. StreamType' /\ stream'.exists
    BY <1>3 DEF Continues, StreamType
  <2>3. PaidInv'
    BY <1>1, <1>3, WindowKept
  <2>4. OffsetInv'
    BY <1>1, <1>3, <2>1, <2>2 DEF OffsetInv, Continues
  <2>5. QED
    BY <2>1, <2>2, <2>3, <2>4
<1>4. ASSUME stream' = s,
             UNCHANGED <<pendingRoute, requests, queries, mesh, poolInbox, paid>>
      PROVE  Goal
  <2>1. RouteType' /\ mesh' \subseteq RequestMsg \cup DnsMsg \cup ResponseMsg
    BY <1>1, <1>4 DEF RouteType, MeshType
  <2>2. QED
    BY <1>c, <1>3, <1>4, <2>1
\* The browser's stream is closed, and the stream goes on or is not made
<1>f. ASSUME Continues(stream') \/ Same(stream'), poolInbox' = Append(poolInbox, Failure),
             UNCHANGED <<pendingRoute, requests, queries, mesh, paid>>
      PROVE  Goal
  <2>1. LocalType' /\ InboxInv' /\ WriterInv' /\ Over'
    <3>1. LocalType /\ InboxInv /\ WriterInv /\ UNCHANGED <<registered, writer, tunnel>>
      BY <1>1
    <3>2. poolInbox' = Append(poolInbox, Failure)
      BY <1>f
    <3>3. QED
      BY <3>1, <3>2, FailureCloses, InboxGets
  <2>2. StreamType' /\ (stream'.offset => tunnel)
    BY <1>1, <1>f DEF StreamType, Continues, Same, OffsetInv
  <2>3. PaidInv'
    <3>1. CASE Continues(stream')
      BY <1>1, <1>f, <3>1, WindowKept
    <3>2. CASE Same(stream')
      BY <1>1, <1>f, <3>2 DEF PaidInv, Same
    <3>3. QED
      BY <1>f, <3>1, <3>2
  <2>4. RouteType' /\ mesh' \subseteq RequestMsg \cup DnsMsg \cup ResponseMsg
    BY <1>1, <1>f DEF RouteType, MeshType
  <2>5. OffsetInv'
    BY <2>1, <2>2 DEF OffsetInv
  <2>6. QED
    BY <2>1, <2>2, <2>3, <2>4, <2>5
<1>5. ASSUME s.route # None, stream' = marked,
             mesh' = mesh \cup {Request(s.route, packet, marked.attempt)},
             UNCHANGED <<pendingRoute, requests, queries, poolInbox, paid>>
      PROVE  Goal
  <2>1. s.route \in Exits
    BY <1>c, <1>5 DEF Continues, StreamOK
  <2>2. Request(s.route, packet, marked.attempt) \in RequestMsg
    BY <1>2, <2>1 DEF Request, RequestMsg, Packet
  <2>3. RouteType' /\ mesh' \subseteq RequestMsg \cup DnsMsg \cup ResponseMsg
    BY <1>1, <1>5, <2>2 DEF RouteType, MeshType
  <2>4. QED
    BY <1>2, <1>3, <1>5, <2>3
<1>6. ASSUME Cardinality(pendingRoute.packets) < QueueLimit, stream' = marked,
             IF pendingRoute = NoRequest THEN AskForRoute(packet, marked.attempt)
             ELSE /\ pendingRoute' = [pendingRoute EXCEPT !.packets =
                                   @ \cup {[packet |-> packet, attempt |-> marked.attempt]}]
                  /\ UNCHANGED <<requests, queries>>,
             UNCHANGED <<mesh, poolInbox, paid>>
      PROVE  Goal
  <2>1. RouteType'
    <3>1. CASE pendingRoute = NoRequest
      BY <1>1, <1>2, <1>6, <3>1, AskStep
    <3>2. CASE pendingRoute # NoRequest
      <4> DEFINE w == [packet |-> packet, attempt |-> marked.attempt]
      <4>1. w \in Waiting
        BY <1>2 DEF Waiting
      <4>2. pendingRoute' = [pendingRoute EXCEPT !.packets = @ \cup {w}]
            /\ requests' = requests /\ queries' = queries
        BY <1>6, <3>2
      <4> HIDE DEF w
      <4>3. pendingRoute' \in [id : 0 .. requests, packets : SUBSET Waiting]
            /\ pendingRoute'.packets = pendingRoute.packets \cup {w}
        BY <1>1, <4>1, <4>2 DEF RouteType
      <4>4. IsFiniteSet(pendingRoute.packets \cup {w})
            /\ Cardinality(pendingRoute.packets \cup {w}) =
               IF w \in pendingRoute.packets THEN Cardinality(pendingRoute.packets)
               ELSE Cardinality(pendingRoute.packets) + 1
        BY <1>1, FS_AddElement DEF RouteType
      <4>5. Cardinality(pendingRoute.packets) \in Nat
        BY <1>1, FS_CardinalityType DEF RouteType
      <4>6. Cardinality(pendingRoute.packets \cup {w}) <= QueueLimit
        BY <1>6, <4>4, <4>5
      <4>7. QED
        BY <1>1, <4>2, <4>3, <4>4, <4>6 DEF RouteType
    <3>3. QED
      BY <3>1, <3>2
  <2>2. mesh' \subseteq RequestMsg \cup DnsMsg \cup ResponseMsg
    BY <1>1, <1>6 DEF MeshType
  <2>3. QED
    BY <1>2, <1>3, <1>6, <2>1, <2>2
<1>7. ASSUME Purged, poolInbox' = Append(poolInbox, Failure),
             UNCHANGED <<requests, queries, mesh>>
      PROVE  Goal
  <2>1. LocalType' /\ InboxInv' /\ WriterInv' /\ Over'
    <3>1. LocalType /\ InboxInv /\ WriterInv /\ UNCHANGED <<registered, writer, tunnel>>
      BY <1>1
    <3>2. poolInbox' = Append(poolInbox, Failure)
      BY <1>7
    <3>3. QED
      BY <3>1, <3>2, FailureCloses, InboxGets
  <2>2. StreamType' /\ PaidInv' /\ ~stream'.offset /\ pendingRoute' = NoRequest
    BY <1>7, PurgedStep
  <2>3. RouteType'
    BY <1>1, <1>7, <2>2, NothingPending
  <2>4. mesh' \subseteq RequestMsg \cup DnsMsg \cup ResponseMsg
    BY <1>1, <1>7 DEF MeshType
  <2>5. OffsetInv'
    BY <2>1, <2>2 DEF OffsetInv
  <2>6. QED
    BY <2>1, <2>2, <2>3, <2>4, <2>5
<1>8. Cardinality(pendingRoute.packets) \in Nat
  BY <1>1, FS_CardinalityType DEF RouteType
<1>9. \/ stream' = base /\ poolInbox' = Append(poolInbox, Failure)
         /\ UNCHANGED <<pendingRoute, requests, queries, mesh, paid>>
      \/ stream' = s /\ UNCHANGED <<pendingRoute, requests, queries, mesh, poolInbox, paid>>
      \/ /\ s.route # None /\ stream' = marked
         /\ mesh' = IF fits THEN mesh \cup {Request(s.route, packet, marked.attempt)} ELSE mesh
         /\ poolInbox' = IF fits THEN poolInbox ELSE Append(poolInbox, Failure)
         /\ UNCHANGED <<pendingRoute, requests, queries, paid>>
      \/ /\ ~(~fits \/ Cardinality(pendingRoute.packets) >= QueueLimit) /\ stream' = marked
         /\ IF pendingRoute = NoRequest THEN AskForRoute(packet, marked.attempt)
            ELSE /\ pendingRoute' = [pendingRoute EXCEPT !.packets =
                                  @ \cup {[packet |-> packet, attempt |-> marked.attempt]}]
                 /\ UNCHANGED <<requests, queries>>
         /\ UNCHANGED <<mesh, poolInbox, paid>>
      \/ /\ Purged /\ poolInbox' = Append(poolInbox, Failure)
         /\ UNCHANGED <<requests, queries, mesh>>
  BY Zenon, <1>0 DEF ClientData, marked
<1> HIDE DEF Goal
<1>10. Goal
  BY <1>2, <1>4, <1>f, <1>5, <1>6, <1>7, <1>8, <1>9
<1>11. QED
  BY <1>10 DEF Goal

\* The ProxyServer is not concerned
LEMMA ProxyKept ==
  ASSUME StreamType, RouteType, PaidInv,
         UNCHANGED <<stream, pendingRoute, requests, queries, paid>>
  PROVE  StreamType' /\ RouteType' /\ PaidInv'
<1>1. StreamType'
  BY DEF StreamType
<1>2. RouteType'
  BY DEF RouteType
<1>3. PaidInv'
  BY DEF PaidInv
<1>4. QED
  BY <1>1, <1>2, <1>3

\* The exits do not move
LEMMA MeshKept ==
  ASSUME MeshType, UNCHANGED clients,
         mesh' \subseteq RequestMsg \cup DnsMsg \cup ResponseMsg
  PROVE  MeshType'
BY DEF MeshType

---------------------------------------------------------------------------
\* The steps of the browser, the pool and the writer

\* tls_connect makes the stream with its offset and answers, or refuses with a
\* message that closes the browser's stream
LEMMA ConnectStep == ASSUME IInv, NEW tls \in BOOLEAN, Connect(tls) PROVE IInv'
<1> DEFINE m == ToBrowser(IF tls THEN "ok" ELSE "failure", 0, 0, ~tls)
<1>1. /\ BrowserType /\ StreamType /\ RouteType /\ MeshType /\ LocalType /\ ShutInv
      /\ OffsetInv /\ InboxInv /\ WriterInv /\ PaidInv
  BY DEF IInv
<1>2. /\ tunnel /\ ~stream.exists /\ poolInbox' = Append(poolInbox, m)
      /\ stream' = (IF tls THEN [Found(stream) EXCEPT !.offset = TRUE] ELSE stream)
      /\ UNCHANGED <<tunnel, setting, browser, pendingRoute, requests, queries, purges,
                     mesh, shutdowns, registered, writer, paid>>
      /\ UNCHANGED clients
  BY DEF Connect
<1>3. m \in PoolMsg /\ Good(m) /\ (~tls => Closes(m))
  <2>1. CASE tls
    <3>1. m = [kind |-> "transmit", what |-> "ok", seq |-> 0, index |-> 0, last |-> FALSE]
      BY Zenon, <2>1 DEF ToBrowser
    <3> HIDE DEF m
    <3>2. m \in Transmit
      BY <3>1 DEF Transmit
    <3>3. Good(m)
      BY <1>2, <3>1 DEF Good
    <3>4. QED
      BY <2>1, <3>2, <3>3 DEF PoolMsg
  <2>2. CASE ~tls
    <3>1. m = Failure
      BY Zenon, <2>2 DEF ToBrowser, Failure
    <3>2. QED
      BY <3>1, FailureCloses
  <2>3. QED
    BY <2>1, <2>2
<1> HIDE DEF m
<1>4. LocalType' /\ InboxInv' /\ WriterInv' /\ (~tls => Over')
  <2>1. UNCHANGED <<registered, writer, tunnel>> /\ poolInbox' = Append(poolInbox, m)
    BY <1>2
  <2>2. QED
    BY <1>1, <1>3, <2>1, InboxGets
<1>5. StreamType' /\ PaidInv' /\ (stream'.exists <=> tls) /\ (tls => stream'.offset)
  <2>1. CASE tls
    <3>1. stream' = [FreshStream EXCEPT !.offset = TRUE]
      BY <1>2, <2>1 DEF Found
    <3>2. StreamType' /\ stream'.exists /\ stream'.offset /\ stream'.seen = {}
      BY Zenon, <3>1, NoStreamOK DEF StreamType, StreamOK
    <3>3. paid' = <<>>
      BY <1>1, <1>2 DEF PaidInv
    <3>4. IsFiniteSet(stream'.seen) /\ paid' \in Seq(Nat) /\ Len(paid') = 0
      BY <3>2, <3>3, FS_EmptySet
    <3>5. PaidInv'
      BY <3>2, <3>4 DEF PaidInv
    <3>6. QED
      BY <2>1, <3>2, <3>5
  <2>2. CASE ~tls
    <3>1. stream' = stream
      BY <1>2, <2>2
    <3>2. StreamType'
      BY <1>1, <3>1 DEF StreamType
    <3>3. PaidInv'
      BY ZenonT(60), <1>1, <1>2, <3>1 DEF PaidInv
    <3>4. QED
      BY <1>2, <2>2, <3>1, <3>2, <3>3
  <2>3. QED
    BY <2>1, <2>2
<1>6. RouteType' /\ MeshType' /\ BrowserType'
  <2>1. RouteType'
    BY <1>1, <1>2 DEF RouteType
  <2>2. MeshType'
    BY <1>1, <1>2 DEF MeshType
  <2>3. BrowserType'
    BY <1>1, <1>2 DEF BrowserType
  <2>4. QED
    BY <2>1, <2>2, <2>3
<1>7. ShutInv'
  BY <1>1, <1>2 DEF ShutInv
<1>8. OffsetInv'
  BY <1>2, <1>4, <1>5 DEF OffsetInv
<1>9. QED
  BY <1>4, <1>5, <1>6, <1>7, <1>8 DEF IInv

\* A packet of the browser; a tunnel has its stream by then, or is over
LEMMA BrowserSendsStep ==
  ASSUME IInv, NEW hasHost \in BOOLEAN, NEW metered \in BOOLEAN,
         NEW fits \in BOOLEAN, BrowserSends(hasHost, metered, fits)
  PROVE  IInv'
<1> DEFINE packet == [seq |-> browser.sent, last |-> FALSE]
<1>1. /\ BrowserType /\ StreamType /\ RouteType /\ MeshType /\ LocalType /\ ShutInv
      /\ OffsetInv /\ InboxInv /\ WriterInv /\ PaidInv
  BY DEF IInv
<1>0. PICK unheard \in BOOLEAN :
        browser' = [browser EXCEPT !.sent = @ + 1, !.refused = @ \/ unheard]
  BY Zenon DEF BrowserSends
<1>2. /\ browser.sent < Packets
      /\ tunnel => browser.sent > 0 \/ writer.out # <<>>
      /\ ClientData(stream, packet, hasHost, metered, fits)
      /\ UNCHANGED <<tunnel, setting, purges, shutdowns, registered, writer>>
      /\ UNCHANGED clients
  BY DEF BrowserSends
<1>3. packet \in Packet
  BY <1>1 DEF BrowserType, Packet
<1>4. ~Over /\ tunnel => stream.exists
  BY <1>1, <1>2 DEF OffsetInv, BrowserType
<1>5. Same(stream)
  BY <1>1 DEF StreamType, Same
<1> HIDE DEF packet
<1>6. /\ StreamType' /\ RouteType' /\ mesh' \subseteq RequestMsg \cup DnsMsg \cup ResponseMsg
      /\ LocalType' /\ OffsetInv' /\ InboxInv' /\ WriterInv' /\ PaidInv'
  <2>1. UNCHANGED <<tunnel, registered, writer>>
    BY <1>2
  <2>2. PICK s : s = stream
    OBVIOUS
  <2>3. Same(s) /\ ClientData(s, packet, hasHost, metered, fits)
    BY <1>2, <1>5, <2>2
  <2>4. QED
    BY <1>3, <1>4, <2>1, <2>3, ClientDataStep
<1>7. MeshType'
  BY <1>1, <1>2, <1>6, MeshKept
<1>8. BrowserType'
  <2>1. (browser.refused \/ unheard) \in BOOLEAN /\ browser.sent + 1 \in 0 .. Packets
    BY <1>1, <1>2 DEF BrowserType
  <2>2. QED
    BY Zenon, <1>0, <1>1, <1>2, <2>1 DEF BrowserType
<1>9. ShutInv'
  BY <1>1, <1>2 DEF ShutInv
<1>10. QED
  BY <1>6, <1>7, <1>8, <1>9 DEF IInv

\* The mailbox gets the message that closes the browser's stream
LEMMA BrowserClosesStep == ASSUME IInv, BrowserCloses PROVE IInv'
<1> DEFINE m == [kind |-> "remove"]
<1>1. /\ BrowserType /\ StreamType /\ RouteType /\ MeshType /\ LocalType /\ ShutInv
      /\ OffsetInv /\ InboxInv /\ WriterInv /\ PaidInv
  BY DEF IInv
<1>2. /\ browser' = [browser EXCEPT !.open = FALSE] /\ poolInbox' = Append(poolInbox, m)
      /\ UNCHANGED <<tunnel, setting, stream, pendingRoute, requests, queries, purges,
                     mesh, shutdowns, registered, writer, paid>>
      /\ UNCHANGED clients
  BY DEF BrowserCloses, proxy
<1>3. m \in PoolMsg /\ m.kind # "transmit" /\ Closes(m)
  BY DEF PoolMsg, Closes
<1> HIDE DEF m
<1>4. LocalType' /\ InboxInv' /\ WriterInv' /\ Over'
  <2>1. UNCHANGED <<registered, writer, tunnel>>
    BY <1>2
  <2>2. QED
    BY <1>1, <1>2, <1>3, <2>1, InboxGets
<1>5. StreamType' /\ RouteType' /\ PaidInv'
  BY <1>1, <1>2, ProxyKept
<1>6. MeshType'
  BY <1>1, <1>2 DEF MeshType
<1>7. BrowserType'
  BY Zenon, <1>1, <1>2 DEF BrowserType
<1>8. ShutInv'
  BY <1>1, <1>2 DEF ShutInv
<1>9. OffsetInv'
  BY <1>1, <1>2, <1>4 DEF OffsetInv
<1>10. QED
  BY <1>4, <1>5, <1>6, <1>7, <1>8, <1>9 DEF IInv

\* The first message of the pool's mailbox is taken
LEMMA InboxTaken ==
  ASSUME LocalType, poolInbox # <<>>, poolInbox' = Tail(poolInbox)
  PROVE  /\ Head(poolInbox) \in PoolMsg /\ Head(poolInbox) = poolInbox[1]
         /\ Len(poolInbox) \in Nat /\ 1 \in 1 .. Len(poolInbox)
         /\ poolInbox' \in Seq(PoolMsg) /\ Len(poolInbox') = Len(poolInbox) - 1
         /\ \A i \in 1 .. Len(poolInbox') : poolInbox'[i] = poolInbox[i + 1]
         /\ \A i \in 1 .. Len(poolInbox') : i + 1 \in 1 .. Len(poolInbox)
<1>1. poolInbox \in Seq(PoolMsg)
  BY DEF LocalType
<1>2. /\ Head(poolInbox) \in PoolMsg /\ poolInbox' \in Seq(PoolMsg)
      /\ Len(poolInbox') = Len(poolInbox) - 1
      /\ \A i \in 1 .. Len(poolInbox') : poolInbox'[i] = poolInbox[i + 1]
  BY <1>1
<1>3. Len(poolInbox) \in Nat \ {0}
  BY <1>1
<1>4. Head(poolInbox) = poolInbox[1]
  BY <1>1
<1>5. \A i \in 1 .. Len(poolInbox') : i + 1 \in 1 .. Len(poolInbox)
  BY <1>2, <1>3
<1>6. QED
  BY <1>2, <1>3, <1>4, <1>5

\* What follows a message that does not close the stream keeps its number; and the
\* stream was over before if it is over because of a later message
LEMMA InboxShrinks ==
  ASSUME LocalType, InboxInv, poolInbox # <<>>, poolInbox' = Tail(poolInbox),
         UNCHANGED tunnel, registered' => registered /\ ~Closes(poolInbox[1])
  PROVE  InboxInv' /\ (Over => Over')
<1>1. /\ Len(poolInbox) \in Nat /\ 1 \in 1 .. Len(poolInbox)
      /\ Len(poolInbox') = Len(poolInbox) - 1
      /\ \A i \in 1 .. Len(poolInbox') : poolInbox'[i] = poolInbox[i + 1]
      /\ \A i \in 1 .. Len(poolInbox') : i + 1 \in 1 .. Len(poolInbox)
  BY InboxTaken
<1>2. InboxInv'
  <2> SUFFICES ASSUME registered', NEW i \in 1 .. Len(poolInbox'),
                      \A k \in 1 .. (i - 1) : ~Closes(poolInbox'[k]),
                      poolInbox'[i].kind = "transmit"
               PROVE  Good(poolInbox[i])'
    BY Zenon DEF InboxInv, Closes
  <2>1. i + 1 \in 1 .. Len(poolInbox) /\ poolInbox'[i] = poolInbox[i + 1]
    BY <1>1
  <2>2. ASSUME NEW k \in 1 .. (i + 1 - 1) PROVE ~Closes(poolInbox[k])
    <3>1. CASE k = 1
      BY <3>1
    <3>2. CASE k # 1
      <4>1. k - 1 \in 1 .. (i - 1) /\ k - 1 \in 1 .. Len(poolInbox') /\ (k - 1) + 1 = k
        BY <1>1, <3>2
      <4>2. poolInbox'[k - 1] = poolInbox[k]
        BY <1>1, <4>1
      <4>3. QED
        BY <4>1, <4>2
    <3>3. QED
      BY <3>1, <3>2
  <2>3. Good(poolInbox[i + 1])
    BY <2>1, <2>2 DEF InboxInv
  <2>4. QED
    BY <2>1, <2>3 DEF Good, Shift
<1>3. ASSUME Over PROVE Over'
  <2>1. CASE ~registered'
    BY <2>1 DEF Over
  <2>2. CASE registered'
    <3>1. PICK k \in 1 .. Len(poolInbox) : Closes(poolInbox[k])
      BY <1>3, <2>2 DEF Over
    <3>2. k # 1
      BY <2>2, <3>1
    <3>3. k - 1 \in 1 .. Len(poolInbox') /\ (k - 1) + 1 = k
      BY <1>1, <3>2
    <3>4. poolInbox'[k - 1] = poolInbox[k]
      BY <1>1, <3>3
    <3>5. QED
      BY <3>1, <3>3, <3>4 DEF Over, Closes
  <2>3. QED
    BY <2>1, <2>2
<1>4. QED
  BY <1>2, <1>3

\* SequenceBuffer::push keeps a packet or drops it
LEMMA PushKeeps ==
  ASSUME NEW b \in [next : Nat, exhausted : BOOLEAN, packets : SUBSET Transmit],
         NEW m \in Transmit, NEW c, c = Buffer!Push(b, m)
  PROVE  /\ c \in [next : Nat, exhausted : BOOLEAN, packets : SUBSET Transmit]
         /\ c.next = b.next /\ c.exhausted = b.exhausted
         /\ c.packets \subseteq b.packets \cup {m}
<1>1. c = b \/ c = [b EXCEPT !.packets = @ \cup {m}]
  BY DEF Buffer!Push
<1>2. QED
  BY <1>1

\* What the pool hands to the writer has its proper number
LEMMA PoolTransmitsStep == ASSUME IInv, PoolTransmits PROVE IInv'
<1> DEFINE m == poolInbox[1]
<1>1. /\ BrowserType /\ StreamType /\ RouteType /\ MeshType /\ LocalType /\ ShutInv
      /\ OffsetInv /\ InboxInv /\ WriterInv /\ PaidInv
  BY DEF IInv
<1>2. /\ poolInbox # <<>> /\ poolInbox' = Tail(poolInbox)
      /\ UNCHANGED <<tunnel, setting, browser, stream, pendingRoute, requests, queries,
                     purges, mesh, shutdowns, paid>>
      /\ UNCHANGED clients
  BY DEF PoolTransmits, proxy
<1>3. /\ m \in PoolMsg /\ Head(poolInbox) = m /\ poolInbox' \in Seq(PoolMsg)
      /\ 1 \in 1 .. Len(poolInbox)
  BY <1>1, <1>2, InboxTaken
<1>4. /\ m.kind = "transmit"
      /\ registered' = (registered /\ ~m.last /\ writer.state # "gone")
      /\ writer' = IF registered /\ writer.state = "open"
                   THEN [writer EXCEPT !.buffer = Buffer!Push(@, m)] ELSE writer
  BY <1>3 DEF PoolTransmits
<1>5. m \in Transmit
  BY <1>3, <1>4 DEF PoolMsg
<1>6. registered => Good(m)
  BY <1>1, <1>3, <1>4 DEF InboxInv
<1>7. InboxInv' /\ (Over => Over')
  <2>1. registered' => registered /\ ~Closes(poolInbox[1])
    BY Zenon, <1>4 DEF Closes
  <2>2. QED
    BY <1>1, <1>2, <2>1, InboxShrinks
<1> HIDE DEF m
<1>8. ASSUME registered /\ writer.state = "open" PROVE LocalType' /\ WriterInv'
  <2> DEFINE c == Buffer!Push(writer.buffer, m)
  <2>1. /\ c \in [next : Nat, exhausted : BOOLEAN, packets : SUBSET Transmit]
        /\ c.next = writer.buffer.next /\ c.exhausted = writer.buffer.exhausted
        /\ c.packets \subseteq writer.buffer.packets \cup {m}
    <3>1. writer.buffer \in [next : Nat, exhausted : BOOLEAN, packets : SUBSET Transmit]
      BY <1>1 DEF LocalType
    <3> HIDE DEF c
    <3>2. QED
      BY <1>5, <3>1, PushKeeps DEF c
  <2>2. writer' = [writer EXCEPT !.buffer = c]
    BY <1>4, <1>8
  <2> HIDE DEF c
  <2>3. writer'.buffer = c /\ writer'.out = writer.out /\ writer'.state = writer.state
    BY <1>1, <2>2 DEF LocalType
  <2>4. LocalType'
    <3>1. registered' \in BOOLEAN
      BY <1>4, Zenon
    <3>2. writer' \in [buffer : [next : Nat, exhausted : BOOLEAN, packets : SUBSET Transmit],
                       out : Seq(Transmit), state : {"open", "shut", "gone"}]
      BY <1>1, <2>1, <2>2 DEF LocalType
    <3>3. QED
      BY <1>3, <3>1, <3>2 DEF LocalType
  <2>5. WriterInv'
    <3>1. \A p \in writer'.buffer.packets : Good(p)'
      BY <1>1, <1>2, <1>6, <1>8, <2>1, <2>3 DEF WriterInv, Good, Shift
    <3>2. writer'.buffer.next = Len(writer'.out) /\ writer'.buffer.exhausted = FALSE
      BY SMTT(30), <1>1, <2>1, <2>3 DEF WriterInv
    <3>3. \A i \in 1 .. Len(writer'.out) :
            /\ Good(writer.out[i])' /\ writer'.out[i].seq = i - 1
            /\ writer'.state = "open" => ~writer'.out[i].last
            /\ writer'.out[i].what = "failure" => Len(writer'.out) = 1
      BY <1>1, <1>2, <2>3 DEF WriterInv, Good, Shift
    <3>4. QED
      BY SMTT(30), <3>1, <3>2, <3>3 DEF WriterInv
  <2>6. QED
    BY <2>4, <2>5
<1>9. ASSUME ~(registered /\ writer.state = "open") PROVE LocalType' /\ WriterInv'
  <2>1. writer' = writer
    BY <1>4, <1>9
  <2>2. registered' \in BOOLEAN
    BY <1>4, Zenon
  <2>3. LocalType'
    BY <1>1, <1>3, <2>1, <2>2 DEF LocalType
  <2>4. WriterInv'
    BY <1>1, <1>2, <2>1, WriterKept
  <2>5. QED
    BY <2>3, <2>4
<1>10. LocalType' /\ WriterInv'
  BY <1>8, <1>9
<1>11. StreamType' /\ RouteType' /\ PaidInv'
  BY <1>1, <1>2, ProxyKept
<1>12. MeshType'
  BY <1>1, <1>2 DEF MeshType
<1>13. BrowserType'
  BY <1>1, <1>2 DEF BrowserType
<1>14. ShutInv'
  BY Zenon, <1>1, <1>2, <1>4 DEF ShutInv
<1>15. OffsetInv'
  <2>1. ~Over /\ ~stream.exists /\ tunnel => FALSE
    BY <1>1, <1>2 DEF OffsetInv
  <2>2. QED
    BY <1>1, <1>2, <1>7, <2>1 DEF OffsetInv
<1>16. QED
  BY <1>7, <1>10, <1>11, <1>12, <1>13, <1>14, <1>15 DEF IInv

\* The browser's stream leaves the pool, and the ProxyServer is told
LEMMA PoolRemovesStep == ASSUME IInv, PoolRemoves PROVE IInv'
<1>1. /\ BrowserType /\ StreamType /\ RouteType /\ MeshType /\ LocalType /\ ShutInv
      /\ OffsetInv /\ InboxInv /\ WriterInv /\ PaidInv
  BY DEF IInv
<1>2. /\ poolInbox # <<>> /\ poolInbox' = Tail(poolInbox) /\ registered' = FALSE
      /\ shutdowns' = (IF registered THEN [shutdowns EXCEPT !.report = @ + 1]
                       ELSE [shutdowns EXCEPT !.quiet = @ + 1])
      /\ UNCHANGED <<tunnel, setting, browser, stream, pendingRoute, requests, queries,
                     purges, mesh, writer, paid>>
      /\ UNCHANGED clients
  BY DEF PoolRemoves, proxy
<1>3. LocalType' /\ InboxInv' /\ Over'
  <2>1. poolInbox' \in Seq(PoolMsg)
    BY <1>1, <1>2, InboxTaken
  <2>2. QED
    BY Zenon, <1>1, <1>2, <2>1 DEF LocalType, InboxInv, Over
<1>4. WriterInv'
  BY <1>1, <1>2, WriterKept
<1>5. StreamType' /\ RouteType' /\ PaidInv'
  BY <1>1, <1>2, ProxyKept
<1>6. MeshType'
  BY <1>1, <1>2 DEF MeshType
<1>7. BrowserType'
  BY <1>1, <1>2 DEF BrowserType
<1>8. ShutInv'
  BY <1>1, <1>2 DEF ShutInv
<1>9. OffsetInv'
  BY <1>1, <1>2, <1>3 DEF OffsetInv
<1>10. QED
  BY <1>3, <1>4, <1>5, <1>6, <1>7, <1>8, <1>9 DEF IInv

\* The writer writes the packet whose number is the count of those before it
LEMMA WriterWritesStep == ASSUME IInv, WriterWrites PROVE IInv'
<1>1. /\ BrowserType /\ StreamType /\ RouteType /\ MeshType /\ LocalType /\ ShutInv
      /\ OffsetInv /\ InboxInv /\ WriterInv /\ PaidInv
  BY DEF IInv
<1>2. PICK p \in Buffer!Ready(writer.buffer) :
        writer' = [buffer |-> Buffer!Polled(writer.buffer, p), out |-> Append(writer.out, p),
                   state |-> IF p.last THEN "shut" ELSE "open"]
  BY Zenon DEF WriterWrites
<1>3. /\ writer.state = "open"
      /\ UNCHANGED <<tunnel, setting, browser, stream, pendingRoute, requests, queries,
                     purges, mesh, shutdowns, registered, poolInbox, paid>>
      /\ UNCHANGED clients
  BY DEF WriterWrites, proxy
<1>4. /\ p \in writer.buffer.packets /\ p \in Transmit /\ Good(p)
      /\ p.seq = writer.buffer.next /\ p.seq = Len(writer.out) /\ p.seq \in Nat
  BY <1>1, <1>2 DEF Buffer!Ready, LocalType, WriterInv, Transmit
<1>5. p.seq <= Answers + 1
  BY <1>1, <1>4 DEF Good, Shift, Transmit
\* The numbers do not run out
<1>6. /\ writer'.buffer.next = Len(writer.out) + 1 /\ writer'.buffer.exhausted = FALSE
      /\ writer'.buffer.packets = writer.buffer.packets \ {p}
      /\ writer'.buffer \in [next : Nat, exhausted : BOOLEAN, packets : SUBSET Transmit]
  <2>1. writer.buffer.next < Packets + Answers + 2
    BY <1>4, <1>5
  <2>2. Buffer!Polled(writer.buffer, p) =
          [next |-> Len(writer.out) + 1, exhausted |-> FALSE,
           packets |-> writer.buffer.packets \ {p}]
    <3>1. writer.buffer.next # Packets + Answers + 2
      BY <1>4, <2>1
    <3>2. (writer.buffer.next = Packets + Answers + 2) = FALSE
      BY <3>1, Zenon
    <3>3. (IF writer.buffer.next < Packets + Answers + 2
           THEN writer.buffer.next + 1 ELSE writer.buffer.next) = Len(writer.out) + 1
      BY <1>4, <2>1
    <3>4. QED
      BY <3>2, <3>3, Zenon DEF Buffer!Polled
  <2>3. writer.buffer.packets \in SUBSET Transmit /\ Len(writer.out) \in Nat
    BY <1>1, <1>4 DEF LocalType
  <2>4. QED
    BY <1>2, <2>2, <2>3
<1>7. /\ writer'.out \in Seq(Transmit) /\ Len(writer'.out) = Len(writer.out) + 1
      /\ writer'.out[Len(writer.out) + 1] = p
      /\ \A i \in 1 .. Len(writer.out) : writer'.out[i] = writer.out[i]
      /\ writer'.state = IF p.last THEN "shut" ELSE "open"
  <2>1. writer.out \in Seq(Transmit)
    BY <1>1 DEF LocalType
  <2>2. writer'.out = Append(writer.out, p)
    BY <1>2
  <2>3. writer'.state = IF p.last THEN "shut" ELSE "open"
    BY <1>2
  <2>4. QED
    BY <1>4, <2>1, <2>2, <2>3
<1>8. LocalType'
  <2>1. writer' \in [buffer : [next : Nat, exhausted : BOOLEAN, packets : SUBSET Transmit],
                     out : Seq(Transmit), state : {"open", "shut", "gone"}]
    BY <1>2, <1>6, <1>7
  <2>2. QED
    BY SMTT(30), <1>1, <1>3, <2>1 DEF LocalType
<1>9. WriterInv'
  <2>1. \A q \in writer'.buffer.packets : Good(q)'
    BY <1>1, <1>3, <1>6 DEF WriterInv, Good, Shift
  <2>2. ASSUME NEW i \in 1 .. Len(writer.out)
        PROVE  /\ Good(writer.out[i])' /\ writer'.out[i].seq = i - 1
               /\ writer'.state = "open" => ~writer'.out[i].last
               /\ writer'.out[i].what = "failure" => Len(writer'.out) = 1
    <3>1. /\ Good(writer.out[i]) /\ writer.out[i].seq = i - 1 /\ ~writer.out[i].last
      BY <1>1, <1>3, <2>2 DEF WriterInv
    <3>2. writer.out[i].what # "failure"
      BY <3>1 DEF Good
    <3>3. writer'.out[i] = writer.out[i]
      BY <1>7
    <3>4. Good(writer.out[i])'
      BY <1>3, <3>1, <3>3 DEF Good, Shift
    <3>5. QED
      BY SMTT(30), <3>1, <3>2, <3>3, <3>4
  <2>3. ASSUME NEW i, i = Len(writer.out) + 1
        PROVE  /\ Good(writer.out[i])' /\ writer'.out[i].seq = i - 1
               /\ writer'.state = "open" => ~writer'.out[i].last
               /\ writer'.out[i].what = "failure" => Len(writer'.out) = 1
    <3>1. writer'.out[i] = p
      BY <1>7, <2>3
    <3>2. Good(writer.out[i])'
      BY <1>3, <1>4, <3>1 DEF Good, Shift
    <3>3. p.what = "failure" => p.seq = 0
      BY <1>4 DEF Good
    <3>4. p.what = "failure" => Len(writer'.out) = 1
      BY <1>4, <1>7, <3>3
    <3>5. p.seq = i - 1
      BY <1>4, <2>3
    <3>6. QED
      BY <1>7, <3>1, <3>2, <3>4, <3>5
  <2>4. \A i \in 1 .. Len(writer'.out) : i \in 1 .. Len(writer.out) \/ i = Len(writer.out) + 1
    BY <1>4, <1>7
  <2>5. \A i \in 1 .. Len(writer'.out) :
          /\ Good(writer.out[i])' /\ writer'.out[i].seq = i - 1
          /\ writer'.state = "open" => ~writer'.out[i].last
          /\ writer'.out[i].what = "failure" => Len(writer'.out) = 1
    BY Zenon, <2>2, <2>3, <2>4
  <2>6. writer'.buffer.next = Len(writer'.out) /\ writer'.buffer.exhausted = FALSE
    BY SMTT(30), <1>6, <1>7
  <2>7. QED
    BY Zenon, <2>1, <2>5, <2>6 DEF WriterInv
<1>10. InboxInv' /\ (Over' <=> Over)
  BY <1>1, <1>3 DEF InboxInv, Good, Shift, Closes, Over
<1>11. StreamType' /\ RouteType' /\ PaidInv'
  BY <1>1, <1>3, ProxyKept
<1>12. MeshType'
  BY <1>1, <1>3 DEF MeshType
<1>13. BrowserType'
  BY <1>1, <1>3 DEF BrowserType
<1>14. ShutInv'
  BY <1>1, <1>3 DEF ShutInv
<1>15. OffsetInv'
  <2>1. ~Over /\ ~stream.exists /\ tunnel => FALSE
    BY <1>1, <1>4 DEF OffsetInv
  <2>2. QED
    BY <1>1, <1>3, <1>10, <2>1 DEF OffsetInv
<1>16. QED
  BY SMTT(30), <1>8, <1>9, <1>10, <1>11, <1>12, <1>13, <1>14, <1>15 DEF IInv

\* The writer gives up; nothing is written any more
LEMMA WriterEndsStep == ASSUME IInv, WriterEnds PROVE IInv'
<1>1. /\ BrowserType /\ StreamType /\ RouteType /\ MeshType /\ LocalType /\ ShutInv
      /\ OffsetInv /\ InboxInv /\ WriterInv /\ PaidInv
  BY DEF IInv
<1>2. /\ writer' = [writer EXCEPT !.state = "gone"]
      /\ UNCHANGED <<tunnel, setting, browser, stream, pendingRoute, requests, queries,
                     purges, mesh, shutdowns, registered, poolInbox, paid>>
      /\ UNCHANGED clients
  BY DEF WriterEnds, proxy
<1>3. writer'.buffer = writer.buffer /\ writer'.out = writer.out /\ writer'.state = "gone"
  BY <1>1, <1>2 DEF LocalType
<1>4. LocalType'
  BY <1>1, <1>2 DEF LocalType
<1>5. WriterInv'
  BY <1>1, <1>2, <1>3 DEF WriterInv, Good, Shift
<1>6. InboxInv' /\ (Over' <=> Over)
  BY <1>1, <1>2 DEF InboxInv, Good, Shift, Closes, Over
<1>7. StreamType' /\ RouteType' /\ PaidInv'
  BY <1>1, <1>2, ProxyKept
<1>8. MeshType'
  BY <1>1, <1>2 DEF MeshType
<1>9. BrowserType'
  BY <1>1, <1>2 DEF BrowserType
<1>10. ShutInv'
  BY <1>1, <1>2 DEF ShutInv
<1>11. OffsetInv'
  BY <1>1, <1>2, <1>3, <1>6 DEF OffsetInv
<1>12. QED
  BY <1>4, <1>5, <1>6, <1>7, <1>8, <1>9, <1>10, <1>11 DEF IInv

---------------------------------------------------------------------------
\* The steps of the ProxyServer

\* A stream that is shut down has left the pool, so it is over
LEMMA ShutDownStep ==
  ASSUME IInv, ~registered, NEW report \in BOOLEAN, NEW metered \in BOOLEAN,
         ShutDown(report, metered),
         shutdowns' \in [report : Nat, quiet : Nat]
  PROVE  IInv'
<1>1. /\ BrowserType /\ StreamType /\ RouteType /\ MeshType /\ LocalType /\ ShutInv
      /\ OffsetInv /\ InboxInv /\ WriterInv /\ PaidInv
  BY DEF IInv
<1>2. /\ UNCHANGED <<tunnel, setting, browser, registered, writer>> /\ UNCHANGED clients
  BY DEF ShutDown
<1>3. Over
  BY DEF Over
<1>4. ASSUME UNCHANGED <<stream, pendingRoute, requests, queries, mesh, poolInbox, paid>>
      PROVE  /\ StreamType' /\ RouteType' /\ mesh' \subseteq RequestMsg \cup DnsMsg \cup ResponseMsg
             /\ LocalType' /\ OffsetInv' /\ InboxInv' /\ WriterInv' /\ PaidInv'
  <2>1. StreamType' /\ RouteType' /\ PaidInv'
    BY <1>1, <1>4, ProxyKept
  <2>2. LocalType' /\ InboxInv' /\ WriterInv' /\ Over'
    BY <1>1, <1>2, <1>3, <1>4, LocalKept DEF local
  <2>3. OffsetInv'
    BY <1>1, <1>2, <1>4, <2>2 DEF OffsetInv
  <2>4. QED
    BY <1>1, <1>4, <2>1, <2>2, <2>3 DEF MeshType
<1>5. /\ StreamType' /\ RouteType' /\ mesh' \subseteq RequestMsg \cup DnsMsg \cup ResponseMsg
      /\ LocalType' /\ OffsetInv' /\ InboxInv' /\ WriterInv' /\ PaidInv' /\ purges' \in Nat
  <2>1. CASE ~stream.exists
    <3>1. UNCHANGED <<stream, pendingRoute, requests, queries, mesh, poolInbox, paid, purges>>
      BY <2>1 DEF ShutDown, proxy
    <3>2. QED
      BY <1>1, <1>4, <3>1 DEF ShutInv
  <2>2. CASE stream.exists
    <3> DEFINE s == [stream EXCEPT !.leaving = TRUE]
               packet == [seq |-> browser.sent, last |-> TRUE]
    <3>1. Same(s) /\ Continues(s)
      BY Zenon, <1>1, <2>2 DEF StreamType, StreamOK, Same, Continues
    <3>2. packet \in Packet
      BY <1>1 DEF BrowserType, Packet
    <3>3. purges' \in Nat
      BY <1>1, <2>2 DEF ShutDown, SchedulePurge, ShutInv
    <3>4. CASE report
      <4>1. ClientData(s, packet, FALSE, metered, TRUE)
        BY Zenon, <2>2, <3>4 DEF ShutDown
      <4> HIDE DEF s, packet
      <4>2. UNCHANGED <<tunnel, registered, writer>>
        BY <1>2
      <4>3. QED
        BY Zenon, <1>3, <3>1, <3>2, <3>3, <4>1, <4>2, ClientDataStep
    <3>5. CASE ~report
      <4>1. stream' = s /\ UNCHANGED <<pendingRoute, requests, queries, mesh, poolInbox, paid>>
        BY <2>2, <3>5 DEF ShutDown
      <4> HIDE DEF s
      <4>2. StreamType' /\ PaidInv'
        BY Zenon, <1>1, <3>1, <4>1, WindowKept DEF StreamType, Continues
      <4>3. RouteType' /\ mesh' \subseteq RequestMsg \cup DnsMsg \cup ResponseMsg
        BY <1>1, <4>1 DEF RouteType, MeshType
      <4>4. LocalType' /\ InboxInv' /\ WriterInv' /\ Over'
        BY <1>1, <1>2, <1>3, <4>1, LocalKept DEF local
      <4>5. OffsetInv'
        BY <1>1, <1>2, <2>2, <3>1, <4>1, <4>4 DEF OffsetInv, Continues
      <4>6. QED
        BY <3>3, <4>2, <4>3, <4>4, <4>5
    <3>6. QED
      BY <3>4, <3>5
  <2>3. QED
    BY <2>1, <2>2
<1>6. MeshType'
  BY <1>1, <1>2, <1>5, MeshKept
<1>7. BrowserType'
  BY <1>1, <1>2 DEF BrowserType
<1>8. ShutInv'
  BY <1>2, <1>5 DEF ShutInv
<1>9. QED
  BY <1>5, <1>6, <1>7, <1>8 DEF IInv

\* handle_stream_shutdown_msg, with a last packet to the exit
LEMMA ReportedShutdownStep ==
  ASSUME IInv, NEW metered \in BOOLEAN, ReportedShutdown(metered) PROVE IInv'
<1>1. ShutInv
  BY DEF IInv
<1>2. ~registered /\ shutdowns' \in [report : Nat, quiet : Nat]
  <2>1. PICK sent \in BOOLEAN :
          shutdowns' = [report |-> shutdowns.report - 1,
                        quiet |-> shutdowns.quiet + IF sent THEN 1 ELSE 0]
    BY Zenon DEF ReportedShutdown
  <2>2. shutdowns.report > 0
    BY DEF ReportedShutdown
  <2>3. QED
    BY <1>1, <2>1, <2>2 DEF ShutInv
<1>3. ShutDown(TRUE, metered)
  BY Zenon DEF ReportedShutdown
<1>4. QED
  BY Zenon, <1>2, <1>3, ShutDownStep

\* handle_stream_shutdown_msg, without one
LEMMA QuietShutdownStep == ASSUME IInv, QuietShutdown PROVE IInv'
<1>1. ShutInv
  BY DEF IInv
<1>2. ~registered /\ shutdowns' \in [report : Nat, quiet : Nat]
  BY <1>1 DEF QuietShutdown, ShutInv
<1>3. ShutDown(FALSE, TRUE)
  BY Zenon DEF QuietShutdown
<1>4. QED
  BY Zenon, <1>2, <1>3, ShutDownStep

\* handle_stream_key_purge: a timer runs only once the stream is over
LEMMA PurgeTimerStep == ASSUME IInv, PurgeTimer PROVE IInv'
<1>1. /\ BrowserType /\ StreamType /\ RouteType /\ MeshType /\ LocalType /\ ShutInv
      /\ OffsetInv /\ InboxInv /\ WriterInv /\ PaidInv
  BY DEF IInv
<1>2. /\ purges > 0 /\ purges' = purges - 1 /\ Purged
      /\ UNCHANGED <<tunnel, setting, browser, requests, queries, mesh, shutdowns>>
      /\ UNCHANGED local /\ UNCHANGED clients
  BY DEF PurgeTimer
<1>3. /\ StreamType' /\ PaidInv' /\ ~stream'.offset /\ pendingRoute' = NoRequest
  BY <1>2, PurgedStep
<1>4. LocalType' /\ InboxInv' /\ WriterInv' /\ (Over' <=> Over)
  BY <1>1, <1>2, LocalKept
<1>5. ~registered
  BY <1>1, <1>2 DEF ShutInv
<1>6. RouteType'
  BY <1>1, <1>2, <1>3, NothingPending
<1>7. MeshType'
  BY <1>1, <1>2 DEF MeshType
<1>8. BrowserType'
  BY <1>1, <1>2 DEF BrowserType
<1>9. ShutInv'
  BY <1>1, <1>2, <1>5 DEF ShutInv, local
<1>10. OffsetInv'
  BY <1>3, <1>4, <1>5 DEF OffsetInv, Over
<1>11. QED
  BY <1>3, <1>4, <1>6, <1>7, <1>8, <1>9, <1>10 DEF IInv

\* handle_add_route_result_message sends what waits, or ends the browser's stream
LEMMA HandleRouteStep ==
  ASSUME IInv, NEW id \in queries, NEW e \in Exits \cup {None}, NEW usable \in BOOLEAN,
         HandleRoute(id, e, usable)
  PROVE  IInv'
<1>1. /\ BrowserType /\ StreamType /\ RouteType /\ MeshType /\ LocalType /\ ShutInv
      /\ OffsetInv /\ InboxInv /\ WriterInv /\ PaidInv
  BY DEF IInv
<1>2. /\ queries' = queries \ {id}
      /\ UNCHANGED <<tunnel, setting, browser, requests, purges, shutdowns, registered,
                     writer, paid>>
      /\ UNCHANGED clients
  BY DEF HandleRoute
<1>3. /\ StreamType' /\ RouteType' /\ mesh' \subseteq RequestMsg \cup DnsMsg \cup ResponseMsg
      /\ PaidInv'
      /\ stream'.exists = stream.exists /\ stream'.offset = stream.offset
  <2>1. CASE ~stream.retry \/ pendingRoute.id # id
    <3>1. UNCHANGED <<stream, pendingRoute, mesh>>
      BY <2>1 DEF HandleRoute
    <3>2. RouteType'
      BY <1>1, <1>2, <3>1 DEF RouteType
    <3>3. StreamType' /\ PaidInv'
      BY <1>1, <1>2, <3>1 DEF StreamType, PaidInv
    <3>4. QED
      BY <1>1, <3>1, <3>2, <3>3 DEF MeshType
  <2>2. CASE ~(~stream.retry \/ pendingRoute.id # id)
    <3>1. /\ pendingRoute' = NoRequest
          /\ stream' = (IF e = None THEN stream
                        ELSE [stream EXCEPT !.route = IF usable THEN e ELSE None])
          /\ mesh' = (IF e = None \/ ~usable THEN mesh
                      ELSE mesh \cup {Request(e, p.packet, p.attempt) : p \in pendingRoute.packets})
      BY <2>2 DEF HandleRoute
    <3>2. RouteType'
      BY <1>1, <1>2, <3>1, NothingPending
    <3>3. StreamType' /\ stream'.exists = stream.exists /\ stream'.offset = stream.offset
          /\ stream'.next = stream.next /\ stream'.seen = stream.seen
      <4>1. CASE e = None
        BY <1>1, <3>1, <4>1 DEF StreamType
      <4>2. CASE e # None
        <5>1. PICK r : r = IF usable THEN e ELSE None
          OBVIOUS
        <5>2. r \in Exits \cup {None}
          BY <5>1
        <5>3. stream' = [stream EXCEPT !.route = r]
          BY <3>1, <4>2, <5>1
        <5>4. QED
          BY <1>1, <5>2, <5>3 DEF StreamType, StreamOK
      <4>3. QED
        BY <4>1, <4>2
    <3>4. PaidInv'
      BY <1>1, <1>2, <3>3 DEF PaidInv
    <3>5. mesh' \subseteq RequestMsg \cup DnsMsg \cup ResponseMsg
      <4>1. CASE e = None \/ ~usable
        BY <1>1, <3>1, <4>1 DEF MeshType
      <4>2. CASE ~(e = None \/ ~usable)
        <5>1. ASSUME NEW p \in pendingRoute.packets
              PROVE  Request(e, p.packet, p.attempt) \in RequestMsg
          <6>1. p \in Waiting /\ e \in Exits
            BY <1>1, <4>2 DEF RouteType
          <6>2. QED
            BY <6>1 DEF Waiting, Packet, Request, RequestMsg
        <5>2. QED
          BY <1>1, <3>1, <4>2, <5>1 DEF MeshType
      <4>3. QED
        BY <4>1, <4>2
    <3>6. QED
      BY <3>2, <3>3, <3>4, <3>5
  <2>3. QED
    BY <2>1, <2>2
<1>4. LocalType' /\ InboxInv' /\ WriterInv' /\ (Over => Over')
      /\ (poolInbox' = poolInbox \/ Over')
  <2>1. poolInbox' = poolInbox \/ poolInbox' = Append(poolInbox, Failure)
    BY DEF HandleRoute
  <2>2. UNCHANGED <<registered, writer, tunnel>>
    BY <1>2
  <2>3. CASE poolInbox' = poolInbox
    BY <1>1, <2>2, <2>3, LocalKept DEF local
  <2>4. CASE poolInbox' = Append(poolInbox, Failure)
    BY <1>1, <2>2, <2>4, FailureCloses, InboxGets
  <2>5. QED
    BY <2>1, <2>3, <2>4
<1>5. MeshType'
  BY <1>1, <1>2, <1>3, MeshKept
<1>6. BrowserType'
  BY <1>1, <1>2 DEF BrowserType
<1>7. ShutInv'
  BY <1>1, <1>2 DEF ShutInv
<1>8. OffsetInv'
  BY <1>1, <1>2, <1>3, <1>4 DEF OffsetInv
<1>9. QED
  BY <1>3, <1>4, <1>5, <1>6, <1>7, <1>8 DEF IInv

\* handle_dns_resolve_failure asks for another route, or gives up behind a failure
\* message
LEMMA HandleFailureStep ==
  ASSUME IInv, NEW m \in mesh, NEW twice \in BOOLEAN, NEW rotates \in BOOLEAN,
         HandleFailure(m, twice, rotates)
  PROVE  IInv'
<1>1. /\ BrowserType /\ StreamType /\ RouteType /\ MeshType /\ LocalType /\ ShutInv
      /\ OffsetInv /\ InboxInv /\ WriterInv /\ PaidInv
  BY DEF IInv
<1>2. /\ mesh' \subseteq mesh /\ DnsFailure(m, rotates)
      /\ UNCHANGED <<tunnel, setting, browser, shutdowns, registered, writer>>
      /\ UNCHANGED clients
  BY DEF HandleFailure
<1>3. UNCHANGED <<registered, writer, tunnel>>
  BY <1>2
<1>4. ASSUME UNCHANGED <<poolInbox, paid>>, Continues(stream'), stream.exists
      PROVE  StreamType' /\ PaidInv' /\ LocalType' /\ InboxInv' /\ WriterInv' /\ OffsetInv'
  <2>1. LocalType' /\ InboxInv' /\ WriterInv' /\ (Over' <=> Over)
    BY SMTT(30), <1>1, <1>3, <1>4, LocalKept DEF local
  <2>2. StreamType' /\ PaidInv'
    BY SMTT(30), <1>1, <1>4, WindowKept DEF StreamType, Continues
  <2>3. OffsetInv'
    BY <1>1, <1>3, <1>4, <2>1 DEF OffsetInv, Continues
  <2>4. QED
    BY <2>1, <2>2, <2>3
<1>5. /\ StreamType' /\ RouteType' /\ PaidInv' /\ LocalType' /\ InboxInv' /\ WriterInv'
      /\ OffsetInv' /\ purges' = purges
  <2>1. CASE \/ ~stream.exists \/ stream.route = None \/ ~stream.retry
             \/ m.attempt \notin {stream.attempt, Unnumbered} \/ pendingRoute # NoRequest
    <3>1. UNCHANGED <<stream, pendingRoute, requests, queries, purges, poolInbox, paid>>
      BY <1>2, <2>1 DEF DnsFailure, proxy
    <3>2. StreamType' /\ RouteType' /\ PaidInv'
      BY <1>1, <3>1, ProxyKept
    <3>3. LocalType' /\ InboxInv' /\ WriterInv' /\ (Over' <=> Over)
      BY SMTT(30), <1>1, <1>3, <3>1, LocalKept DEF local
    <3>4. OffsetInv'
      BY Zenon, <1>1, <1>2, <3>1, <3>3 DEF OffsetInv
    <3>5. QED
      BY <3>1, <3>2, <3>3, <3>4
  <2>2. CASE /\ stream.exists /\ stream.retry /\ stream.left > 0
             /\ stream' = [stream EXCEPT !.left = @ - 1, !.attempt = @ + 1]
             /\ AskForRoute(stream.first, stream.attempt + 1)
             /\ UNCHANGED <<purges, poolInbox, paid>>
    <3>1. stream.attempt + 1 \in 0 .. Retries /\ stream.first \in Packet
          /\ stream.left - 1 \in 0 .. Retries
          /\ (stream.left - 1) + (stream.attempt + 1) <= Retries
      BY <1>1, <2>2 DEF StreamType, StreamOK
    <3>2. Continues(stream')
      BY Zenon, <1>1, <2>2, <3>1 DEF StreamType, StreamOK, Continues
    <3>3. RouteType'
      BY <1>1, <2>2, <3>1, AskStep
    <3>4. QED
      BY <1>4, <2>2, <3>2, <3>3
  <2>3. CASE /\ Purged /\ poolInbox' = Append(poolInbox, Failure)
             /\ UNCHANGED <<purges, requests, queries>>
    <3>1. LocalType' /\ InboxInv' /\ WriterInv' /\ Over'
      BY <1>1, <1>3, <2>3, FailureCloses, InboxGets
    <3>2. /\ StreamType' /\ PaidInv' /\ ~stream'.offset /\ pendingRoute' = NoRequest
      BY <2>3, PurgedStep
    <3>3. RouteType'
      BY <1>1, <2>3, <3>2, NothingPending
    <3>4. OffsetInv'
      BY <3>1, <3>2 DEF OffsetInv
    <3>5. QED
      BY <2>3, <3>1, <3>2, <3>3, <3>4
  <2>4. QED
    BY <1>2, <2>1, <2>2, <2>3 DEF DnsFailure
<1>6. MeshType'
  BY <1>1, <1>2 DEF MeshType
<1>7. BrowserType'
  BY <1>1, <1>2 DEF BrowserType
<1>8. ShutInv'
  BY <1>1, <1>2, <1>5 DEF ShutInv
<1>9. QED
  BY <1>5, <1>6, <1>7, <1>8 DEF IInv

\* handle_client_response_payload: a response that the window admits was not paid for
LEMMA HandleResponseStep ==
  ASSUME IInv, NEW m \in mesh, NEW twice \in BOOLEAN, HandleResponse(m, twice)
  PROVE  IInv'
<1>1. /\ BrowserType /\ StreamType /\ RouteType /\ MeshType /\ LocalType /\ ShutInv
      /\ OffsetInv /\ InboxInv /\ WriterInv /\ PaidInv
  BY DEF IInv
<1>2. /\ mesh' \subseteq mesh /\ Response(m) /\ m.kind = "response"
      /\ UNCHANGED <<tunnel, setting, browser, requests, queries, purges, shutdowns,
                     registered, writer>>
      /\ UNCHANGED clients
  BY DEF HandleResponse
<1>3. UNCHANGED <<registered, writer, tunnel>>
  BY <1>2
<1>4. m \in ResponseMsg
  BY <1>1, <1>2 DEF MeshType, RequestMsg, DnsMsg
<1>5. m.seq \in 0 .. Answers /\ m.seq \in Nat /\ m.last \in BOOLEAN
  BY <1>4 DEF ResponseMsg
<1>6. /\ StreamType' /\ RouteType' /\ PaidInv' /\ LocalType' /\ InboxInv' /\ WriterInv'
      /\ OffsetInv'
  <2>1. CASE ~stream.exists \/ stream.route = None \/ ~Admits(stream, m.seq)
    <3>1. UNCHANGED <<stream, pendingRoute, poolInbox, paid>>
      BY <1>2, <2>1 DEF Response
    <3>2. StreamType' /\ RouteType' /\ PaidInv'
      BY <1>1, <1>2, <3>1, ProxyKept
    <3>3. LocalType' /\ InboxInv' /\ WriterInv' /\ (Over' <=> Over)
      BY SMTT(30), <1>1, <1>3, <3>1, LocalKept DEF local
    <3>4. OffsetInv'
      BY <1>1, <1>2, <3>1, <3>3 DEF OffsetInv
    <3>5. QED
      BY <3>2, <3>3, <3>4
  <2>2. CASE ~(~stream.exists \/ stream.route = None \/ ~Admits(stream, m.seq))
    <3> DEFINE window == Advanced(stream.next, stream.seen \cup {m.seq})
               t == ToBrowser("response", m.seq + Offset(stream), m.seq, m.last)
    <3>1. /\ IF m.last /\ ~stream.leaving THEN Purged
             ELSE /\ paid' = Append(paid, m.seq)
                  /\ stream' = [stream EXCEPT !.retry = FALSE, !.next = window.next,
                                              !.seen = window.seen]
                  /\ UNCHANGED pendingRoute
          /\ poolInbox' = IF stream.leaving THEN poolInbox ELSE Append(poolInbox, t)
      BY <1>2, <2>2 DEF Response
    <3>2. stream.next \in Nat /\ stream.seen \in SUBSET Nat /\ stream.offset \in BOOLEAN
      BY <1>1 DEF StreamType, StreamOK
    <3>3. t \in Transmit /\ t.kind = "transmit" /\ t.last = m.last
          /\ (~Over => Good(t))
      <4>1. t = [kind |-> "transmit", what |-> "response", seq |-> m.seq + Offset(stream),
                 index |-> m.seq, last |-> m.last]
        BY DEF ToBrowser
      <4> HIDE DEF t
      <4>2. Offset(stream) \in Nat /\ m.seq + Offset(stream) \in Nat
        BY <1>5 DEF Offset
      <4>3. t \in Transmit
        BY <1>5, <4>1, <4>2 DEF Transmit
      <4>4. ~Over => Offset(stream) = Shift
        BY <1>1, <2>2 DEF OffsetInv, Offset, Shift
      <4>5. QED
        BY <1>5, <4>1, <4>3, <4>4 DEF Good
    <3>4. t \in PoolMsg /\ (m.last => Closes(t))
      BY <3>3 DEF PoolMsg, Closes
    <3> HIDE DEF t
    <3>5. LocalType' /\ InboxInv' /\ WriterInv' /\ (Over => Over')
          /\ (m.last /\ ~stream.leaving => Over')
      <4>1. CASE stream.leaving
        BY <1>1, <1>3, <3>1, <4>1, LocalKept DEF local
      <4>2. CASE ~stream.leaving
        BY SMTT(30), <1>1, <1>3, <3>1, <3>3, <3>4, <4>2, InboxGets
      <4>3. QED
        BY <4>1, <4>2
    <3>6. CASE m.last /\ ~stream.leaving
      <4>1. /\ StreamType' /\ PaidInv' /\ ~stream'.offset /\ pendingRoute' = NoRequest
        BY <3>1, <3>6, PurgedStep
      <4>2. RouteType'
        BY <1>1, <1>2, <4>1, NothingPending
      <4>3. OffsetInv'
        BY <3>5, <3>6, <4>1 DEF OffsetInv
      <4>4. QED
        BY <3>5, <4>1, <4>2, <4>3
    <3>7. CASE ~(m.last /\ ~stream.leaving)
      <4>1. /\ paid' = Append(paid, m.seq) /\ UNCHANGED pendingRoute
            /\ stream' = [stream EXCEPT !.retry = FALSE, !.next = window.next,
                                        !.seen = window.seen]
        BY <3>1, <3>7
      <4>2. IsFiniteSet(stream.seen \cup {m.seq}) /\ stream.seen \cup {m.seq} \in SUBSET Nat
        BY Zenon, <1>1, <1>5, <3>2, FS_AddElement DEF PaidInv
      <4>3. /\ window.next \in Nat /\ window.next >= stream.next
            /\ window.seen \in SUBSET (stream.seen \cup {m.seq})
            /\ \A k \in stream.seen \cup {m.seq} : k < window.next \/ k \in window.seen
        BY Zenon, <3>2, <4>2, WindowMoves
      <4> HIDE DEF window
      <4>4. /\ StreamType' /\ stream'.exists /\ stream'.offset = stream.offset
            /\ stream'.next = window.next /\ stream'.seen = window.seen
        BY Zenon, <1>1, <2>2, <4>1, <4>2, <4>3 DEF StreamType, StreamOK
      <4>5. IsFiniteSet(window.seen)
        BY <4>2, <4>3, FS_Subset
      <4>6. /\ paid' \in Seq(Nat) /\ Len(paid') = Len(paid) + 1 /\ Len(paid) \in Nat
            /\ paid'[Len(paid) + 1] = m.seq
            /\ \A i \in 1 .. Len(paid) : paid'[i] = paid[i] /\ paid[i] \in Nat
        BY <1>1, <1>5, <4>1 DEF PaidInv
      <4>7. \A i \in 1 .. Len(paid') : i \in 1 .. Len(paid) \/ i = Len(paid) + 1
        BY <4>6
      <4>8. \A i \in 1 .. Len(paid) : paid[i] # m.seq
        <5>1. m.seq >= stream.next /\ m.seq \notin stream.seen
          BY <2>2 DEF Admits
        <5>2. ASSUME NEW i \in 1 .. Len(paid)
              PROVE  paid[i] < stream.next \/ paid[i] \in stream.seen
          BY <1>1, <5>2 DEF PaidInv
        <5>3. ASSUME NEW i \in 1 .. Len(paid) PROVE paid[i] # m.seq
          <6>1. paid[i] \in Nat
            BY <4>6
          <6>2. QED
            BY <1>5, <3>2, <5>1, <5>2, <6>1
        <5>4. QED
          BY <5>3
      <4>9. \A i \in 1 .. Len(paid') : paid'[i] < window.next \/ paid'[i] \in window.seen
        <5>1. ASSUME NEW i \in 1 .. Len(paid)
              PROVE  paid[i] < window.next \/ paid[i] \in window.seen
          BY SMTT(30), <1>1, <3>2, <4>3, <4>6, <5>1 DEF PaidInv
        <5>2. m.seq < window.next \/ m.seq \in window.seen
          BY <4>3
        <5>3. QED
          BY SMTT(30), <4>6, <4>7, <5>1, <5>2
      <4>10. \A i, j \in 1 .. Len(paid') : paid'[i] = paid'[j] => i = j
        BY Zenon, <1>1, <4>6, <4>7, <4>8 DEF PaidInv
      <4>11. PaidInv'
        BY <4>4, <4>5, <4>6, <4>9, <4>10 DEF PaidInv
      <4>12. RouteType'
        BY <1>1, <1>2, <4>1 DEF RouteType
      <4>13. OffsetInv'
        BY <1>1, <1>2, <2>2, <3>5, <4>4 DEF OffsetInv
      <4>14. QED
        BY <3>5, <4>4, <4>11, <4>12, <4>13
    <3>8. QED
      BY <3>6, <3>7
  <2>3. QED
    BY <2>1, <2>2
<1>7. MeshType'
  BY <1>1, <1>2 DEF MeshType
<1>8. BrowserType'
  BY <1>1, <1>2 DEF BrowserType
<1>9. ShutInv'
  BY <1>1, <1>2 DEF ShutInv
<1>10. QED
  BY <1>6, <1>7, <1>8, <1>9 DEF IInv

---------------------------------------------------------------------------
\* The mesh and the exits

\* Only the mesh and the exits move
LEMMA MeshMoves ==
  ASSUME IInv, MeshType',
         UNCHANGED <<tunnel, setting, browser, proxy, shutdowns, local, paid>>
  PROVE  IInv'
<1>1. /\ BrowserType /\ StreamType /\ RouteType /\ LocalType /\ ShutInv
      /\ OffsetInv /\ InboxInv /\ WriterInv /\ PaidInv
  BY DEF IInv
<1>2. UNCHANGED <<tunnel, setting, browser, shutdowns, paid, registered, writer, poolInbox,
                  stream, pendingRoute, requests, queries, purges>>
  BY DEF proxy, local
<1>3. StreamType' /\ RouteType' /\ PaidInv'
  BY <1>1, <1>2, ProxyKept
<1>4. LocalType' /\ InboxInv' /\ WriterInv' /\ (Over' <=> Over)
  BY <1>1, LocalKept
<1>5. BrowserType'
  BY <1>1, <1>2 DEF BrowserType
<1>6. ShutInv'
  BY <1>1, <1>2 DEF ShutInv
<1>7. OffsetInv'
  BY <1>1, <1>2, <1>4 DEF OffsetInv
<1>8. QED
  BY <1>3, <1>4, <1>5, <1>6, <1>7 DEF IInv

\* An exit's state, and what it sends
Pair(e) == [exit : {x \in Client : x.node = e}, sent : SUBSET (DnsMsg \cup ResponseMsg)]

\* Handler<InboundServerData> sends at most a response
LEMMA RespondOK ==
  ASSUME NEW e \in Exits, NEW s \in Pair(e), NEW seq \in 0 .. Answers, NEW last \in BOOLEAN
  PROVE  Exit!Respond(s, seq, last) \in Pair(e)
<1> DEFINE m == [kind |-> "response", exit |-> s.exit.node, seq |-> seq, last |-> last]
           x == IF last THEN [s.exit EXCEPT !.context = {}] ELSE s.exit
<1>1. s.exit \in Client /\ s.exit.node = e /\ s.sent \in SUBSET (DnsMsg \cup ResponseMsg)
  BY DEF Pair
<1>2. m \in ResponseMsg
  BY <1>1 DEF ResponseMsg
<1>3. x \in Client /\ x.node = e
  BY <1>1 DEF Client
<1>4. Exit!Respond(s, seq, last) = s \/
      Exit!Respond(s, seq, last) = [exit |-> x, sent |-> s.sent \cup {m}]
  BY Zenon DEF Exit!Respond
<1> HIDE DEF m, x
<1>5. QED
  BY <1>1, <1>2, <1>3, <1>4 DEF Pair

\* The connection in the pool is dropped
LEMMA DroppedOK ==
  ASSUME NEW x \in Client
  PROVE  Exit!Dropped(x) \in Client /\ Exit!Dropped(x).node = x.node
<1> DEFINE ls == [n \in DOMAIN x.lines |-> IF n = x.held THEN [x.lines[n] EXCEPT !.up = FALSE]
                                         ELSE x.lines[n]]
<1>1. ls \in [0 .. Packets -> Line]
  BY DEF Client, Line
<1>2. Exit!Dropped(x) = [x EXCEPT !.held = Exit!Absent, !.lines = ls]
  BY DEF Exit!Dropped
<1> HIDE DEF ls
<1>3. QED
  BY <1>1, <1>2 DEF Client

\* do_housekeeping
LEMMA HousekeptOK ==
  ASSUME NEW x \in Client, NEW attempt \in Attempt
  PROVE  Exit!Housekept(x, attempt) \in Pair(x.node)
<1> DEFINE a == [exit |-> [x EXCEPT !.context = {attempt}], sent |-> {}]
           swept == [a EXCEPT !.exit.killed = <<>>]
           b == Exit!CleanUpDeadStreams(a)
<1>0. x.node \in Exits
  BY DEF Client
<1>1. a \in Pair(x.node)
  BY DEF Pair, Client
<1>2. swept \in Pair(x.node) /\ swept.exit \in Client /\ swept.exit.node = x.node
  <2>1. a.exit \in Client /\ a.exit.node = x.node /\ a.sent \in SUBSET (DnsMsg \cup ResponseMsg)
    BY <1>1 DEF Pair
  <2>2. swept = [exit |-> [a.exit EXCEPT !.killed = <<>>], sent |-> a.sent]
    OBVIOUS
  <2> HIDE DEF swept, a
  <2>3. <<>> \in Seq(0 .. Answers)
    OBVIOUS
  <2>4. [a.exit EXCEPT !.killed = <<>>] \in Client /\ [a.exit EXCEPT !.killed = <<>>].node = x.node
    BY <2>1, <2>3 DEF Client
  <2>5. QED
    BY <2>1, <2>2, <2>4 DEF Pair
<1>3. b \in Pair(x.node)
  <2>1. CASE a.exit.killed = <<>> \/ a.exit.held = Exit!Absent
    <3>1. b = swept
      BY <2>1 DEF Exit!CleanUpDeadStreams
    <3>2. QED
      BY <1>2, <3>1
  <2>2. CASE ~(a.exit.killed = <<>> \/ a.exit.held = Exit!Absent)
    <3> DEFINE c == [swept EXCEPT !.exit = Exit!Dropped(@)]
    <3>1. b = Exit!Respond(c, Head(a.exit.killed), TRUE)
      BY <2>2 DEF Exit!CleanUpDeadStreams
    <3>2. Head(a.exit.killed) \in 0 .. Answers
      <4>1. a.exit.killed \in Seq(0 .. Answers)
        BY <1>1 DEF Pair, Client
      <4>2. QED
        BY <2>2, <4>1
    <3>3. c \in Pair(x.node)
      <4>1. Exit!Dropped(swept.exit) \in Client /\ Exit!Dropped(swept.exit).node = x.node
        BY <1>2, DroppedOK
      <4> HIDE DEF swept
      <4>2. QED
        BY <1>2, <4>1 DEF Pair
    <3> HIDE DEF c, a, b
    <3>4. QED
      BY <1>0, <3>1, <3>2, <3>3, RespondOK
  <2>3. QED
    BY <2>1, <2>2
<1> HIDE DEF b
<1>4. Exit!AddNewStreams(b) \in Pair(x.node)
  BY <1>3 DEF Exit!AddNewStreams, Pair, Client, Exit!Absent
<1>5. QED
  BY <1>4 DEF Exit!Housekept, b

\* process_package
LEMMA ReceiveOK ==
  ASSUME NEW x \in Client, NEW seq \in 0 .. Packets, NEW last \in BOOLEAN,
         NEW attempt \in Attempt, NEW gone \in BOOLEAN
  PROVE  Exit!Receive(x, seq, last, attempt, gone) \in Pair(x.node)
<1>0. x.node \in Exits
  BY DEF Client
<1>1. PICK s : s = Exit!Housekept(x, attempt)
  OBVIOUS
<1>2. s \in Pair(x.node)
  BY <1>1, HousekeptOK
<1> DEFINE y == s.exit
           ls == [n \in DOMAIN y.lines |-> IF n = y.held /\ seq = 0
                                         THEN [y.lines[n] EXCEPT !.asked = TRUE] ELSE y.lines[n]]
           written == [y EXCEPT !.lines = ls]
           l == [seq |-> seq, attempt |-> attempt]
<1>3. y \in Client /\ y.node = x.node
  BY <1>2 DEF Pair
<1>4. written \in Client /\ written.node = x.node
  <2>1. ls \in [0 .. Packets -> Line]
    BY <1>3 DEF Client, Line
  <2> HIDE DEF ls
  <2>2. QED
    BY <1>3, <2>1 DEF Client
<1>5. ASSUME NEW z \in Client, z.node = x.node PROVE [s EXCEPT !.exit = z] \in Pair(x.node)
  BY <1>2, <1>5 DEF Pair
<1>6. [s EXCEPT !.exit.lookups = @ \cup {l}] \in Pair(x.node)
  <2>1. l \in Lookup
    BY DEF Lookup
  <2> HIDE DEF l
  <2>2. QED
    BY <1>2, <2>1 DEF Pair, Client
<1>7. Exit!Dropped(y) \in Client /\ Exit!Dropped(y).node = x.node
      /\ Exit!Dropped(written) \in Client /\ Exit!Dropped(written).node = x.node
  <2> HIDE DEF y, written
  <2>1. QED
    BY <1>3, <1>4, DroppedOK
<1>8. 0 \in 0 .. Answers
  OBVIOUS
<1>9. Exit!ProcessPackage(s, seq, last, attempt, gone) \in
        {s, Exit!Respond([s EXCEPT !.exit = Exit!Dropped(y)], 0, TRUE),
         [s EXCEPT !.exit = Exit!Dropped(written)], [s EXCEPT !.exit = written],
         [s EXCEPT !.exit.lookups = @ \cup {l}]}
  BY Zenon DEF Exit!ProcessPackage
<1>10. Exit!Receive(x, seq, last, attempt, gone) = Exit!ProcessPackage(s, seq, last, attempt, gone)
  BY <1>1 DEF Exit!Receive
<1> HIDE DEF y, ls, written, l
<1>11. Exit!Respond([s EXCEPT !.exit = Exit!Dropped(y)], 0, TRUE) \in Pair(x.node)
  <2>1. [s EXCEPT !.exit = Exit!Dropped(y)] \in Pair(x.node)
    BY <1>5, <1>7
  <2>2. QED
    BY <1>0, <1>8, <2>1, RespondOK
<1>12. QED
  BY Zenon, <1>2, <1>4, <1>5, <1>6, <1>7, <1>9, <1>10, <1>11

\* What an exit sends is a DNS failure or a response
LEMMA ExitMoves ==
  ASSUME IInv, NEW e \in Exits, NEW s \in Pair(e), NEW k \in SUBSET mesh,
         clients' = [clients EXCEPT ![e] = s.exit], mesh' = k \cup s.sent,
         UNCHANGED <<tunnel, setting, browser, proxy, shutdowns, local, paid>>
  PROVE  IInv'
<1>1. MeshType
  BY DEF IInv
<1>2. s.exit \in Client /\ s.exit.node = e /\ s.sent \subseteq DnsMsg \cup ResponseMsg
  BY DEF Pair
<1>3. MeshType'
  BY <1>1, <1>2 DEF MeshType
<1>4. QED
  BY <1>3, MeshMoves

\* The state of an exit
LEMMA ClientOK ==
  ASSUME IInv, NEW e \in Exits
  PROVE  clients[e] \in Client /\ clients[e].node = e
BY DEF IInv, MeshType

\* An exit takes a request
LEMMA ExitReceivesStep ==
  ASSUME IInv, NEW m \in mesh, NEW gone \in BOOLEAN, ExitReceives(m, gone) PROVE IInv'
<1> DEFINE attempt == IF m.exit \in setting.legacy THEN Unnumbered ELSE m.attempt
<1>1. PICK s : s = Exit!Receive(clients[m.exit], m.seq, m.last, attempt, gone)
  OBVIOUS
<1>2. /\ m.kind = "request" /\ clients' = [clients EXCEPT ![m.exit] = s.exit]
      /\ mesh' = (mesh \ {m}) \cup s.sent
      /\ UNCHANGED <<tunnel, setting, browser, proxy, shutdowns, local, paid>>
  BY <1>1 DEF ExitReceives
<1>3. m \in RequestMsg
  BY <1>2 DEF IInv, MeshType, DnsMsg, ResponseMsg
<1>4. m.exit \in Exits /\ m.seq \in 0 .. Packets /\ m.last \in BOOLEAN /\ attempt \in Attempt
  BY <1>3 DEF RequestMsg, Attempt
<1> HIDE DEF attempt
<1>5. clients[m.exit] \in Client /\ clients[m.exit].node = m.exit
  BY <1>4, ClientOK
<1>6. s \in Pair(m.exit)
  BY <1>1, <1>4, <1>5, ReceiveOK
<1>7. QED
  BY <1>2, <1>4, <1>6, ExitMoves

\* A connection is made, or cannot be made
LEMMA ExitConnectsStep ==
  ASSUME IInv, NEW e \in Exits, NEW l \in clients[e].lookups, ExitConnects(e, l) PROVE IInv'
<1> DEFINE x == clients[e]
           cleared == [x EXCEPT !.lookups = @ \ {l}]
           t == [exit |-> cleared, sent |-> {}]
           d == [kind |-> "dns", exit |-> x.node, packet |-> l.seq, attempt |-> l.attempt]
           up == [Exit!NoLine EXCEPT !.up = TRUE, !.asked = (l.seq = 0)]
<1>1. PICK s : s = IF e \in setting.reached THEN [exit |-> Exit!Established(x, l), sent |-> {}]
                   ELSE Exit!NotEstablished(x, l, setting.host = "address")
  OBVIOUS
<1>2. /\ clients' = [clients EXCEPT ![e] = s.exit] /\ mesh' = mesh \cup s.sent
      /\ UNCHANGED <<tunnel, setting, browser, proxy, shutdowns, local, paid>>
  BY <1>1 DEF ExitConnects
<1>3. x \in Client /\ x.node = e
  BY ClientOK
<1>4. l \in Lookup /\ l.seq \in 0 .. Packets /\ l.attempt \in Attempt
  BY <1>3 DEF Client, Lookup
<1>5. CASE e \in setting.reached
  <2>1. up \in Line
    <3>1. (l.seq = 0) \in BOOLEAN
      BY Zenon
    <3>2. 0 \in 0 .. Answers
      OBVIOUS
    <3>3. QED
      BY <3>1, <3>2 DEF Exit!NoLine, Line
  <2>2. Exit!Established(x, l) =
          [x EXCEPT !.lookups = @ \ {l}, !.adding = l.seq, !.lines = [@ EXCEPT ![l.seq] = up]]
    BY DEF Exit!Established
  <2> HIDE DEF up, x
  <2>3. Exit!Established(x, l) \in Client /\ Exit!Established(x, l).node = e
    <3>1. PICK ls : ls = [x.lines EXCEPT ![l.seq] = up]
      OBVIOUS
    <3>2. ls \in [0 .. Packets -> Line]
      BY <1>3, <1>4, <2>1, <3>1 DEF Client
    <3>3. Exit!Established(x, l) =
            [x EXCEPT !.lookups = @ \ {l}, !.adding = l.seq, !.lines = ls]
      BY <2>2, <3>1
    <3>4. QED
      BY <1>3, <1>4, <3>2, <3>3 DEF Client
  <2>4. s \in Pair(e)
    BY <1>1, <1>5, <2>3 DEF Pair
  <2>5. QED
    BY <1>2, <2>4, ExitMoves
<1>6. CASE e \notin setting.reached
  <2>1. t \in Pair(e)
    BY <1>3 DEF Pair, Client
  <2>2. Exit!DnsResolveFailed(t, l) \in Pair(e)
    <3>1. d \in DnsMsg
      BY <1>3, <1>4 DEF DnsMsg
    <3>2. Exit!DnsResolveFailed(t, l) = t \/
          Exit!DnsResolveFailed(t, l) = [exit |-> [cleared EXCEPT !.context = {}], sent |-> {d}]
      BY <1>3 DEF Exit!DnsResolveFailed, Client
    <3>3. [cleared EXCEPT !.context = {}] \in Client /\ [cleared EXCEPT !.context = {}].node = e
      BY <1>3 DEF Client
    <3>4. PICK z : z = [cleared EXCEPT !.context = {}]
      OBVIOUS
    <3> HIDE DEF d, t, cleared
    <3>5. [exit |-> z, sent |-> {d}] \in Pair(e)
      BY <3>1, <3>3, <3>4 DEF Pair
    <3>6. QED
      BY <2>1, <3>2, <3>4, <3>5
  <2>3. PICK v : v = IF setting.host = "address" THEN t ELSE Exit!DnsResolveFailed(t, l)
    OBVIOUS
  <2>4. v \in Pair(e)
    BY <2>1, <2>2, <2>3
  <2>5. PICK w : w = IF v.exit.held = Exit!Absent THEN v ELSE [v EXCEPT !.exit = Exit!Dropped(@)]
    OBVIOUS
  <2>6. w \in Pair(e)
    <3>1. v.exit \in Client /\ v.exit.node = e
      BY <2>4 DEF Pair
    <3>2. Exit!Dropped(v.exit) \in Client /\ Exit!Dropped(v.exit).node = e
      BY <3>1, DroppedOK
    <3>3. QED
      BY <2>4, <2>5, <3>2 DEF Pair
  <2>7. s = Exit!Respond(w, 0, TRUE)
    BY <1>1, <1>6, <2>3, <2>5 DEF Exit!NotEstablished
  <2>8. s \in Pair(e)
    <3>1. 0 \in 0 .. Answers
      OBVIOUS
    <3>2. QED
      BY <2>6, <2>7, <3>1, RespondOK
  <2>9. QED
    BY <1>2, <2>8, ExitMoves
<1>7. QED
  BY <1>5, <1>6

\* The server answers; its packets are numbered below Answers
LEMMA ExitAnswersStep ==
  ASSUME IInv, NEW e \in Exits, NEW n \in DOMAIN clients[e].lines, ExitAnswers(e, n)
  PROVE  IInv'
<1> DEFINE x == clients[e]
           t == [exit |-> [x EXCEPT !.lines[n].answered = @ + 1], sent |-> {}]
<1>1. PICK s : s = Exit!Answer(x, n)
  OBVIOUS
<1>2. /\ x.lines[n].answered < Answers
      /\ clients' = [clients EXCEPT ![e] = s.exit] /\ mesh' = mesh \cup s.sent
      /\ UNCHANGED <<tunnel, setting, browser, proxy, shutdowns, local, paid>>
  BY <1>1 DEF ExitAnswers
<1>3. x \in Client /\ x.node = e
  BY ClientOK
<1>4. n \in 0 .. Packets /\ x.lines[n] \in Line /\ x.lines[n].answered \in 0 .. Answers
  BY <1>3 DEF Client, Line
<1>5. t \in Pair(e)
  <2>1. x.lines[n].answered + 1 \in 0 .. Answers
    BY <1>2, <1>4
  <2> HIDE DEF x
  <2>2. [x.lines EXCEPT ![n].answered = @ + 1] \in [0 .. Packets -> Line]
    BY <1>3, <1>4, <2>1 DEF Client, Line
  <2>3. PICK ls : ls = [x.lines EXCEPT ![n].answered = @ + 1]
    OBVIOUS
  <2>4. t = [exit |-> [x EXCEPT !.lines = ls], sent |-> {}]
    BY <2>3
  <2>5. [x EXCEPT !.lines = ls] \in Client /\ [x EXCEPT !.lines = ls].node = e
    BY <1>3, <2>2, <2>3 DEF Client
  <2>6. QED
    BY <2>4, <2>5 DEF Pair
<1>6. s = Exit!Respond(t, x.lines[n].answered, FALSE)
  BY <1>1 DEF Exit!Answer
<1> HIDE DEF t, x
<1>7. s \in Pair(e)
  BY <1>4, <1>5, <1>6, RespondOK
<1>8. QED
  BY <1>2, <1>7, ExitMoves

\* The server closes a connection
LEMMA ServerClosesStep ==
  ASSUME IInv, NEW e \in Exits, NEW n \in DOMAIN clients[e].lines, ServerCloses(e, n)
  PROVE  IInv'
<1> DEFINE x == clients[e]
<1>1. /\ clients' = [clients EXCEPT ![e] = Exit!Close(x, n)] /\ mesh' = mesh
      /\ UNCHANGED <<tunnel, setting, browser, proxy, shutdowns, local, paid>>
  BY DEF ServerCloses
<1>2. x \in Client /\ x.node = e
  BY ClientOK
<1>3. n \in 0 .. Packets /\ x.lines[n] \in Line /\ x.lines[n].answered \in 0 .. Answers
  BY <1>2 DEF Client, Line
<1> HIDE DEF x
<1>4. Exit!Close(x, n) \in Client /\ Exit!Close(x, n).node = e
  <2>1. [x.lines EXCEPT ![n].up = FALSE] \in [0 .. Packets -> Line]
    BY <1>2, <1>3 DEF Client, Line
  <2>2. Append(x.killed, x.lines[n].answered) \in Seq(0 .. Answers)
    BY <1>2, <1>3 DEF Client
  <2>3. Exit!Close(x, n) = [x EXCEPT !.lines = [x.lines EXCEPT ![n].up = FALSE],
                                     !.killed = Append(x.killed, x.lines[n].answered)]
    BY DEF Exit!Close
  <2>4. QED
    BY <1>2, <2>1, <2>2, <2>3 DEF Client
<1>5. PICK s : s = [exit |-> Exit!Close(x, n), sent |-> {}]
  OBVIOUS
<1>6. s \in Pair(e) /\ s.exit = Exit!Close(x, n) /\ s.sent = {}
  BY <1>4, <1>5 DEF Pair
<1>7. QED
  BY <1>1, <1>6, ExitMoves

\* A package is lost
LEMMA LoseStep == ASSUME IInv, NEW m \in mesh, Lose(m) PROVE IInv'
<1>1. MeshType'
  BY DEF IInv, MeshType, Lose
<1>2. UNCHANGED <<tunnel, setting, browser, proxy, shutdowns, local, paid>>
  BY DEF Lose
<1>3. QED
  BY <1>1, <1>2, MeshMoves

---------------------------------------------------------------------------
\* Every step keeps the invariant
LEMMA StepInv == ASSUME IInv, [BrowserNext]_browserVars PROVE IInv'
<1>1. CASE UNCHANGED browserVars
  <2>1. MeshType'
    BY <1>1 DEF IInv, MeshType, browserVars
  <2>2. UNCHANGED <<tunnel, setting, browser, proxy, shutdowns, local, paid>>
    BY <1>1 DEF browserVars
  <2>3. QED
    BY <2>1, <2>2, MeshMoves
<1>2. ASSUME NEW tls \in BOOLEAN, Connect(tls) PROVE IInv'
  BY <1>2, ConnectStep
<1>3. ASSUME NEW hasHost \in BOOLEAN, NEW metered \in BOOLEAN, NEW fits \in BOOLEAN,
             BrowserSends(hasHost, metered, fits)
      PROVE  IInv'
  BY <1>3, BrowserSendsStep
<1>4. CASE BrowserCloses \/ PoolTransmits \/ PoolRemoves \/ WriterWrites \/ WriterEnds
           \/ QuietShutdown \/ PurgeTimer
  BY <1>4, BrowserClosesStep, PoolTransmitsStep, PoolRemovesStep, WriterWritesStep,
     WriterEndsStep, QuietShutdownStep, PurgeTimerStep
<1>5. ASSUME NEW metered \in BOOLEAN, ReportedShutdown(metered) PROVE IInv'
  BY <1>5, ReportedShutdownStep
<1>6. ASSUME NEW id \in queries, NEW e \in Exits \cup {None}, NEW usable \in BOOLEAN,
             HandleRoute(id, e, usable)
      PROVE  IInv'
  BY <1>6, HandleRouteStep
<1>7. ASSUME NEW m \in mesh, NEW twice \in BOOLEAN, NEW rotates \in BOOLEAN,
             HandleFailure(m, twice, rotates)
      PROVE  IInv'
  BY <1>7, HandleFailureStep
<1>8. ASSUME NEW m \in mesh, NEW twice \in BOOLEAN, HandleResponse(m, twice) PROVE IInv'
  BY <1>8, HandleResponseStep
<1>9. ASSUME NEW m \in mesh, Lose(m) PROVE IInv'
  BY <1>9, LoseStep
<1>10. ASSUME NEW m \in mesh, NEW gone \in BOOLEAN, ExitReceives(m, gone) PROVE IInv'
  BY <1>10, ExitReceivesStep
<1>11. ASSUME NEW e \in Exits, NEW l \in clients[e].lookups, ExitConnects(e, l) PROVE IInv'
  BY <1>11, ExitConnectsStep
<1>12. ASSUME NEW e \in Exits, NEW n \in DOMAIN clients[e].lines,
              ExitAnswers(e, n) \/ ServerCloses(e, n)
       PROVE  IInv'
  BY <1>12, ExitAnswersStep, ServerClosesStep
<1>13. QED
  BY <1>1, <1>2, <1>3, <1>4, <1>5, <1>6, <1>7, <1>8, <1>9, <1>10, <1>11, <1>12 DEF BrowserNext

\* The inductive invariant
LEMMA InvHolds == BrowserSpec => []IInv
<1>1. BrowserInit => IInv
  BY InitInv
<1>2. IInv /\ [BrowserNext]_browserVars => IInv'
  BY StepInv
<1>3. QED
  BY <1>1, <1>2, PTL DEF BrowserSpec

\* What the browser reads is the answer to its CONNECT and the server's packets in
\* their order, or one failure message.  It holds although the mesh reorders and
\* repeats responses, streams are purged and made anew under the same key without
\* their offset, and failure messages are sent at any time.
THEOREM ReadsInOrder == BrowserSpec => []BrowserReadsInOrder
<1>1. IInv => BrowserReadsInOrder
  <2> SUFFICES ASSUME IInv, NEW i \in DOMAIN writer.out
               PROVE  LET p == writer.out[i]
                      IN /\ p.what = "ok" <=> (i = 1 /\ tunnel /\ writer.out[1].what # "failure")
                         /\ p.what = "failure" => Len(writer.out) = 1
                         /\ p.what = "response" => p.index = i - IF tunnel THEN 2 ELSE 1
    BY DEF BrowserReadsInOrder
  <2>1. LocalType /\ WriterInv /\ BrowserType
    BY DEF IInv
  <2>2. i \in 1 .. Len(writer.out) /\ Len(writer.out) \in Nat
    BY <2>1 DEF LocalType
  <2>3. Good(writer.out[i]) /\ writer.out[i].seq = i - 1
        /\ (writer.out[i].what = "failure" => Len(writer.out) = 1)
    BY <2>1, <2>2 DEF WriterInv
  <2>4. ASSUME i = 1, tunnel PROVE writer.out[i].what \in {"ok", "failure"}
    BY <2>3, <2>4 DEF Good, Shift
  <2>5. writer.out[i].what = "ok" => i = 1 /\ tunnel
    BY <2>2, <2>3 DEF Good
  <2>6. writer.out[i].what = "ok" <=> (i = 1 /\ tunnel /\ writer.out[1].what # "failure")
    BY <2>4, <2>5
  <2>7. writer.out[i].what = "response" => writer.out[i].index = i - IF tunnel THEN 2 ELSE 1
    BY SMTT(30), <2>2, <2>3 DEF Good, Shift
  <2>8. QED
    BY <2>3, <2>6, <2>7
<1>2. QED
  BY <1>1, InvHolds, PTL

\* A response is paid for at most once in the life of a stream, however often it is
\* delivered, over whichever route, and however the window has moved
THEOREM NeverPaidTwice == BrowserSpec => []PaidOnce
<1>1. IInv => PaidOnce
  <2> SUFFICES ASSUME IInv PROVE PaidOnce
    OBVIOUS
  <2>1. PaidInv
    BY DEF IInv
  <2>2. DOMAIN paid = 1 .. Len(paid)
    BY SMTT(30), <2>1 DEF PaidInv
  <2>3. QED
    BY <2>1, <2>2 DEF PaidInv, PaidOnce
<1>2. QED
  BY <1>1, InvHolds, PTL

\* The state keeps its types: the queue for a route keeps its limit
\* (MAX_PENDING_ROUTE_PACKETS_PER_STREAM), attempts and retries stay within
\* DNS_FAILURE_RETRIES, and only requests that were made are pending
THEOREM TypedBrowser == BrowserSpec => []BrowserTypeOK
<1>1. IInv => BrowserTypeOK
  <2> SUFFICES ASSUME IInv PROVE BrowserTypeOK
    OBVIOUS
  <2>1. BrowserType /\ StreamType /\ RouteType /\ MeshType /\ LocalType
    BY SMTT(30) DEF IInv
  <2>2. DOMAIN stream = DOMAIN NoStream
    BY <2>1 DEF StreamType, StreamOK, NoStream
  <2>3. stream.route \in Exits \cup {None} /\ stream.left \in 0 .. Retries
        /\ stream.attempt \in 0 .. Retries
    BY <2>1 DEF StreamType, StreamOK
  <2>4. writer.state \in {"open", "shut", "gone"}
    BY <2>1 DEF LocalType
  <2>5. pendingRoute.id \in 0 .. requests
    BY <2>1 DEF RouteType
  <2>6. ASSUME NEW e \in Exits
        PROVE  /\ clients[e].context \subseteq 0 .. Retries \cup {Unnumbered}
               /\ \A n \in DOMAIN clients[e].lines : clients[e].lines[n].answered \in 0 .. Answers
    <3>1. clients[e] \in Client
      BY <2>1 DEF MeshType
    <3>2. QED
      BY <3>1 DEF Client, Line, Attempt
  <2>7. QED
    BY <2>1, <2>2, <2>3, <2>4, <2>5, <2>6 DEF BrowserTypeOK, BrowserType, RouteType
<1>2. QED
  BY <1>1, InvHolds, PTL
===========================================================================
