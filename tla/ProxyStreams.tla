--------------------------- MODULE ProxyStreams ---------------------------
(***************************************************************************)
(* One browser connection through the ProxyServer (proxy_server/mod.rs):   *)
(* the stream's StreamInfo, the packets that wait for a route, the retries *)
(* after a DNS failure and the way back through the StreamHandlerPool to   *)
(* the sorted writer of the browser's TCP stream.                          *)
(*                                                                         *)
(* The ProxyServer is one actor, so each handler is one step.  What comes  *)
(* from the Neighborhood and the mesh is a set: it is handled in any       *)
(* order.  A StreamKey is a hash of the browser's address and of a salt    *)
(* drawn once, so the connection has the same key as long as it lives.     *)
(* A metered stream's receipts are the subject of module ReceiptSession;   *)
(* here they are a reason for which a packet may be refused.  What an exit *)
(* does with the stream is in module ExitStreams.                          *)
(***************************************************************************)
EXTENDS Integers, Sequences, FiniteSets

CONSTANTS
    Exits,       \* Nodes a route may end at
    Retries,     \* DNS_FAILURE_RETRIES
    QueueLimit,  \* MAX_PENDING_ROUTE_PACKETS_PER_STREAM
    Packets,     \* bound: packets the browser sends
    Answers,     \* bound: packets a server sends on a connection
    Window,      \* MAX_SEQUENCE_REORDER_WINDOW
    Faults       \* bound: packages the mesh loses, reorders or delivers twice

None == "none"

\* The attempt of a DNS failure that says none
Unnumbered == -1

ASSUME BrowserAssumption ==
    Retries \in Nat /\ QueueLimit \in Nat \ {0} /\ Packets \in Nat /\ Answers \in Nat
    /\ Window \in Nat \ {0}

VARIABLES
    tunnel,      \* the browser begins with a CONNECT
    setting,     \* what stays as it is: consuming wallet, host and exits
    browser,     \* [open, sent]: the connection and its StreamReader's sequencer;
                 \* [refused]: history, its first packet ended in the log
    stream,      \* stream_info of the key (keys_and_addrs changes with it)
    pendingRoute, \* pending_route_requests of the key
    requests,    \* number of route requests made so far
    queries,     \* route requests the Neighborhood has still to answer
    mesh,        \* packages on their way
    purges,      \* StreamKeyPurge timers that are set
    shutdowns,   \* StreamShutdownMsgs under way, as a bag: [report, quiet]
    registered,  \* the pool's stream_writers has the browser's stream
    poolInbox,   \* mailbox of the StreamHandlerPool
    writer,      \* StreamWriterSorted of the browser's stream
    clients,     \* the ProxyClient of each exit (ExitStreams)
    paid,        \* history: sequence numbers of the responses paid for, per stream
    faults

proxy == <<stream, pendingRoute, requests, queries, purges>>
local == <<registered, poolInbox, writer>>
browserVars == <<tunnel, setting, browser, proxy, mesh, shutdowns, local, clients,
          paid, faults>>

NoStream == [exists |-> FALSE, route |-> None, retry |-> FALSE, left |-> 0,
             attempt |-> 0, first |-> None, offset |-> FALSE, leaving |-> FALSE,
             next |-> 0, seen |-> {}]
FreshStream == [NoStream EXCEPT !.exists = TRUE]
NoRequest == [id |-> 0, packets |-> {}]

Buffer == INSTANCE SequenceBuffer WITH MaxSequence <- Packets + Answers + 2,
                                       ReorderWindow <- Window
Exit == INSTANCE ExitStreams

\* The host is a name, an address, or one that validate_non_loopback_host refuses;
\* it can be reached at some exits, and some of the others run a version that does
\* not number its DNS failures
Settings == {c \in [wallet : BOOLEAN, host : {"name", "address", "local"},
                    reached : SUBSET Exits, legacy : SUBSET Exits] :
               c.legacy \cap c.reached = {}}

BrowserInit ==
    /\ tunnel \in BOOLEAN /\ setting \in Settings
    /\ browser = [open |-> TRUE, sent |-> 0, refused |-> FALSE]
    /\ stream = NoStream /\ pendingRoute = NoRequest /\ requests = 0
    /\ queries = {} /\ mesh = {} /\ purges = 0
    /\ shutdowns = [report |-> 0, quiet |-> 0]
    /\ registered = TRUE /\ poolInbox = <<>>
    /\ writer = [buffer |-> Buffer!EmptyBuffer, out |-> <<>>, state |-> "open"]
    /\ clients = [e \in Exits |-> Exit!Idle(e)]
    /\ paid = <<>> /\ faults = 0

---------------------------------------------------------------------------
\* Packages in the mesh, and what the ProxyServer sends to the browser

Request(e, p, attempt) ==
    [kind |-> "request", exit |-> e, seq |-> p.seq, last |-> p.last,
     attempt |-> attempt]
\* `index` is the server's number of a response
ToBrowser(what, seq, index, last) ==
    [kind |-> "transmit", what |-> what, seq |-> seq, index |-> index, last |-> last]


\* send_route_failure and send_dns_failure_response_to_the_browser
Failure == ToBrowser("failure", 0, 0, TRUE)

\* purge_stream_key
Purged == stream' = NoStream /\ pendingRoute' = NoRequest /\ paid' = <<>>

\* A new pending route request.  Its packets are sent in one step when the route
\* is found, so that their order is lost in the mesh anyway.
AskForRoute(packet, attempt) ==
    /\ requests' = requests + 1
    /\ pendingRoute' = [id |-> requests',
                    packets |-> {[packet |-> packet, attempt |-> attempt]}]
    /\ queries' = queries \cup {requests'}

\* find_or_generate_stream_key
Found(s) == IF s.exists THEN s ELSE FreshStream

\* make_payload and validate_non_loopback_host: the packet itself names its host or
\* the stream has one, and its receipt session is in order (`metered`)
Taken(s, hasHost, metered) ==
    (hasHost \/ s.route # None) /\ metered /\ setting.host # "local"

\* handle_normal_client_data.  A packet that is not taken ends in the log.  `fits` is
\* whether it can be packaged, and keeps the queue within its limit of bytes.
ClientData(base, packet, hasHost, metered, fits) ==
    LET s == Found(base)
        taken == setting.wallet /\ Taken(s, hasHost, metered)
        marked == IF s.retry THEN s
                  ELSE [s EXCEPT !.retry = TRUE, !.left = Retries,
                                 !.attempt = 0, !.first = packet]
        full == ~fits \/ Cardinality(pendingRoute.packets) >= QueueLimit
    IN \/ /\ ~setting.wallet
          /\ stream' = base
          /\ poolInbox' = Append(poolInbox, Failure)
          /\ UNCHANGED <<pendingRoute, requests, queries, mesh, paid>>
       \/ /\ setting.wallet /\ ~taken
          /\ stream' = s
          /\ UNCHANGED <<pendingRoute, requests, queries, mesh, poolInbox, paid>>
       \/ /\ taken /\ s.route # None
          /\ stream' = marked
          /\ mesh' = IF fits THEN mesh \cup {Request(s.route, packet, marked.attempt)} ELSE mesh
          /\ poolInbox' = IF fits THEN poolInbox ELSE Append(poolInbox, Failure)
          /\ UNCHANGED <<pendingRoute, requests, queries, paid>>
       \/ /\ taken /\ s.route = None /\ ~full
          /\ stream' = marked
          /\ IF pendingRoute = NoRequest THEN AskForRoute(packet, marked.attempt)
             ELSE /\ pendingRoute' = [pendingRoute EXCEPT !.packets =
                                   @ \cup {[packet |-> packet, attempt |-> marked.attempt]}]
                  /\ UNCHANGED <<requests, queries>>
          /\ UNCHANGED <<mesh, poolInbox, paid>>
       \/ /\ taken /\ s.route = None /\ full
          /\ Purged
          /\ poolInbox' = Append(poolInbox, Failure)
          /\ UNCHANGED <<requests, queries, mesh>>

---------------------------------------------------------------------------
\* The browser.  Its StreamReader numbers the packets; a CONNECT is not counted.

\* tls_connect: only port 443 is tunneled
Connect(tls) ==
    /\ browser.open /\ browser.sent = 0 /\ tunnel
    /\ writer.out = <<>> /\ poolInbox = <<>> /\ ~stream.exists /\ registered
    /\ stream' = IF tls THEN [Found(stream) EXCEPT !.offset = TRUE] ELSE stream
    /\ poolInbox' = Append(poolInbox, ToBrowser(IF tls THEN "ok" ELSE "failure", 0, 0, ~tls))
    /\ UNCHANGED <<tunnel, setting, browser, pendingRoute, requests, queries, purges,
                   mesh, shutdowns, registered, writer, clients, paid, faults>>

BrowserSends(hasHost, metered, fits) ==
    /\ browser.open /\ browser.sent < Packets
    /\ tunnel => browser.sent > 0 \/ (writer.out # <<>> /\ writer.out[1].what = "ok")
    /\ LET unheard == /\ browser.sent = 0 /\ setting.wallet
                      /\ ~Taken(Found(stream), hasHost, metered)
       IN browser' = [browser EXCEPT !.sent = @ + 1, !.refused = @ \/ unheard]
    /\ ClientData(stream, [seq |-> browser.sent, last |-> FALSE], hasHost, metered, fits)
    /\ UNCHANGED <<tunnel, setting, purges, shutdowns, registered, writer, clients, faults>>

\* StreamReader::shutdown
BrowserCloses ==
    /\ browser.open
    /\ browser' = [browser EXCEPT !.open = FALSE]
    /\ poolInbox' = Append(poolInbox, [kind |-> "remove"])
    /\ UNCHANGED <<tunnel, setting, proxy, mesh, shutdowns, registered, writer,
                   clients, paid, faults>>

---------------------------------------------------------------------------
\* The way back to the browser

\* The StreamHandlerPool.  Local streams are never opened by the pool: a packet
\* for one that is not registered is discarded.
PoolTransmits ==
    /\ poolInbox # <<>> /\ Head(poolInbox).kind = "transmit"
    /\ poolInbox' = Tail(poolInbox)
    /\ LET m == Head(poolInbox)
       IN /\ registered' = (registered /\ ~m.last /\ writer.state # "gone")
          /\ writer' = IF registered /\ writer.state = "open"
                       THEN [writer EXCEPT !.buffer = Buffer!Push(@, m)] ELSE writer
    /\ UNCHANGED <<tunnel, setting, browser, proxy, mesh, shutdowns, clients,
                   paid, faults>>

PoolRemoves ==
    /\ poolInbox # <<>> /\ Head(poolInbox).kind = "remove"
    /\ poolInbox' = Tail(poolInbox)
    /\ registered' = FALSE
    /\ shutdowns' = IF registered THEN [shutdowns EXCEPT !.report = @ + 1]
                    ELSE [shutdowns EXCEPT !.quiet = @ + 1]
    /\ UNCHANGED <<tunnel, setting, browser, proxy, mesh, writer, clients, paid, faults>>

\* StreamWriterSorted: the next packet is written (the last one shuts the
\* stream down), or the stream fails, or all is written and the pool has let go
WriterWrites ==
    /\ writer.state = "open"
    /\ \E p \in Buffer!Ready(writer.buffer) :
         writer' = [buffer |-> Buffer!Polled(writer.buffer, p),
                    out |-> Append(writer.out, p),
                    state |-> IF p.last THEN "shut" ELSE "open"]
    /\ UNCHANGED <<tunnel, setting, browser, proxy, mesh, shutdowns, registered,
                   poolInbox, clients, paid, faults>>

WriterEnds ==
    /\ writer.state = "open"
    /\ ~browser.open \/ (~registered /\ Buffer!Ready(writer.buffer) = {})
    /\ writer' = [writer EXCEPT !.state = "gone"]
    /\ UNCHANGED <<tunnel, setting, browser, proxy, mesh, shutdowns, registered,
                   poolInbox, clients, paid, faults>>

---------------------------------------------------------------------------
\* Messages to the ProxyServer

\* Mutant: no timer is set
NoPurge == UNCHANGED purges

\* schedule_stream_key_purge
SchedulePurge == purges' = purges + 1

\* handle_stream_shutdown_msg.  A report has the stream's last data sent, without
\* content and hence without a host name; when it is on its way, transmit_to_hopper
\* has the ProxyServer shut the stream down once more.
ShutDown(report, metered) ==
    /\ IF ~stream.exists
       THEN UNCHANGED <<proxy, mesh, poolInbox, paid>>
       ELSE LET s == [stream EXCEPT !.leaving = TRUE]
            IN /\ SchedulePurge
               /\ IF report
                  THEN ClientData(s, [seq |-> browser.sent, last |-> TRUE], FALSE, metered, TRUE)
                  ELSE /\ stream' = s
                       /\ UNCHANGED <<pendingRoute, requests, queries, mesh, poolInbox, paid>>
    /\ UNCHANGED <<tunnel, setting, browser, registered, writer, clients, faults>>

ReportedShutdown(metered) ==
    /\ shutdowns.report > 0
    /\ LET sent == setting.wallet /\ stream.route # None /\ Taken(stream, FALSE, metered)
       IN shutdowns' = [report |-> shutdowns.report - 1,
                        quiet |-> shutdowns.quiet + IF sent THEN 1 ELSE 0]
    /\ ShutDown(TRUE, metered)

QuietShutdown ==
    /\ shutdowns.quiet > 0
    /\ shutdowns' = [shutdowns EXCEPT !.quiet = @ - 1]
    /\ ShutDown(FALSE, TRUE)

\* handle_stream_key_purge, 30 s after schedule_stream_key_purge
PurgeTimer ==
    /\ purges > 0
    /\ purges' = purges - 1
    /\ Purged
    /\ UNCHANGED <<tunnel, setting, browser, requests, queries, mesh, shutdowns,
                   local, clients, faults>>

\* handle_add_route_result_message.  An answer that is not the one the stream waits
\* for is discarded; note that a stream whose retry context is gone keeps its
\* pending request.  `usable` is whether the packets can be packaged for the route.
HandleRoute(id, e, usable) ==
    /\ id \in queries
    /\ queries' = queries \ {id}
    /\ e = None => usable
    /\ IF ~stream.retry \/ pendingRoute.id # id
       THEN UNCHANGED <<stream, pendingRoute, mesh, poolInbox>>
       ELSE /\ pendingRoute' = NoRequest
            /\ stream' = IF e = None THEN stream
                         ELSE [stream EXCEPT !.route = IF usable THEN e ELSE None]
            /\ mesh' = IF e = None \/ ~usable THEN mesh
                       ELSE mesh \cup {Request(e, p.packet, p.attempt) : p \in pendingRoute.packets}
            /\ poolInbox' = IF e = None \/ ~usable THEN Append(poolInbox, Failure)
                            ELSE poolInbox
    /\ UNCHANGED <<tunnel, setting, browser, requests, purges, shutdowns, registered,
                   writer, clients, paid, faults>>

\* handle_dns_resolve_failure and retry_dns_resolution.  A failure without a number
\* counts as that of the first attempt, and after a retry ends the stream; so does a
\* receipt session that cannot be rotated (`rotates`).
DnsFailure(m, rotates) ==
    IF \/ ~stream.exists \/ stream.route = None \/ ~stream.retry
       \/ m.attempt \notin {stream.attempt, Unnumbered} \/ pendingRoute # NoRequest
    THEN UNCHANGED <<proxy, poolInbox, paid>>
    ELSE LET again == /\ m.attempt = Unnumbered => stream.attempt = 0
                      /\ stream.left > 0 /\ rotates
         IN \/ /\ again
               /\ stream' = [stream EXCEPT !.left = @ - 1, !.attempt = @ + 1]
               /\ AskForRoute(stream.first, stream.attempt + 1)
               /\ UNCHANGED <<purges, poolInbox, paid>>
            \/ /\ ~again
               /\ Purged
               /\ poolInbox' = Append(poolInbox, Failure)
               /\ UNCHANGED <<purges, requests, queries>>

\* Mutant: what lies before the window is admitted again
AdmitsAgain(s, seq) == seq \notin s.seen /\ seq < s.next + Window

\* ResponseSequenceReplayWindow::admit.  (The numbers, of 64 bits, do not run out.)
Admits(s, seq) == seq >= s.next /\ seq \notin s.seen /\ seq < s.next + Window
Advanced(next, seen) ==
    LET n == CHOOSE k \in next .. next + Cardinality(seen) :
               k \notin seen /\ next .. k - 1 \subseteq seen
    IN [next |-> n, seen |-> {k \in seen : k >= n}]

\* Mutant: the answer to the CONNECT is not counted
NoOffset(s) == 0

\* The CONNECT's answer has taken a sequence number of the browser's stream
Offset(s) == IF s.offset THEN 1 ELSE 0

\* handle_client_response_payload
Response(m) ==
    IF ~stream.exists \/ stream.route = None \/ ~Admits(stream, m.seq)
    THEN UNCHANGED <<stream, pendingRoute, poolInbox, paid>>
    ELSE LET window == Advanced(stream.next, stream.seen \cup {m.seq})
             seq == m.seq + Offset(stream)
         IN /\ IF m.last /\ ~stream.leaving THEN Purged
               ELSE /\ paid' = Append(paid, m.seq)
                    /\ stream' = [stream EXCEPT !.retry = FALSE, !.next = window.next,
                                                !.seen = window.seen]
                    /\ UNCHANGED pendingRoute
            /\ poolInbox' = IF stream.leaving THEN poolInbox
                            ELSE Append(poolInbox, ToBrowser("response", seq, m.seq, m.last))

---------------------------------------------------------------------------
\* The mesh and the exits

\* The mesh keeps the packages to one Node in order: one that overtakes an earlier one
\* of the stream, or that arrives twice, is a fault
Overtakes(m, o) ==
    /\ o.kind = m.kind /\ o.exit = m.exit
    /\ \/ m.kind = "response" /\ o.seq < m.seq
       \/ m.kind = "request" /\ o.attempt < m.attempt
       \/ m.kind = "request" /\ o.attempt = m.attempt /\ o.seq < m.seq

Received(m, twice) ==
    LET fault == twice \/ \E o \in mesh : Overtakes(m, o)
    IN /\ m \in mesh
       /\ fault => faults < Faults
       /\ faults' = IF fault THEN faults + 1 ELSE faults

HandleFailure(m, twice, rotates) ==
    /\ m.kind = "dns" /\ Received(m, twice)
    /\ mesh' = IF twice THEN mesh ELSE mesh \ {m}
    /\ DnsFailure(m, rotates)
    /\ UNCHANGED <<tunnel, setting, browser, shutdowns, registered, writer,
                   clients>>

HandleResponse(m, twice) ==
    /\ m.kind = "response" /\ Received(m, twice)
    /\ mesh' = IF twice THEN mesh ELSE mesh \ {m}
    /\ Response(m)
    /\ UNCHANGED <<tunnel, setting, browser, requests, queries, purges, shutdowns,
                   registered, writer, clients>>

\* Handler<ExpiredCoresPackage<ClientRequestPayload_0v1>> of the ProxyClient
ExitReceives(m, gone) ==
    /\ m.kind = "request" /\ Received(m, FALSE)
    /\ LET attempt == IF m.exit \in setting.legacy THEN Unnumbered ELSE m.attempt
           x == clients[m.exit]
           s == Exit!Receive(x, m.seq, m.last, attempt, gone)
       IN /\ gone => Exit!WriterGone(x, attempt)
          /\ clients' = [clients EXCEPT ![m.exit] = s.exit]
          /\ mesh' = (mesh \ {m}) \cup s.sent
    /\ UNCHANGED <<tunnel, setting, browser, proxy, shutdowns, local, paid>>

\* lookup_dns and handle_ip come to an end
ExitConnects(e, l) ==
    /\ l \in clients[e].lookups
    /\ LET x == clients[e]
           s == IF e \in setting.reached THEN [exit |-> Exit!Established(x, l), sent |-> {}]
                ELSE Exit!NotEstablished(x, l, setting.host = "address")
       IN /\ clients' = [clients EXCEPT ![e] = s.exit]
          /\ mesh' = mesh \cup s.sent
    /\ UNCHANGED <<tunnel, setting, browser, proxy, shutdowns, local, paid, faults>>

\* A server that has been asked answers
ExitAnswers(e, n) ==
    /\ clients[e].lines[n].up /\ clients[e].lines[n].asked
    /\ clients[e].lines[n].answered < Answers
    /\ LET s == Exit!Answer(clients[e], n)
       IN /\ clients' = [clients EXCEPT ![e] = s.exit]
          /\ mesh' = mesh \cup s.sent
    /\ UNCHANGED <<tunnel, setting, browser, proxy, shutdowns, local, paid, faults>>

\* The server closes a connection; that it does so without an answer is a fault
ServerCloses(e, n) ==
    /\ clients[e].lines[n].up
    /\ LET fault == clients[e].lines[n].answered = 0
       IN /\ fault => faults < Faults
          /\ faults' = IF fault THEN faults + 1 ELSE faults
    /\ clients' = [clients EXCEPT ![e] = Exit!Close(@, n)]
    /\ UNCHANGED <<tunnel, setting, browser, proxy, mesh, shutdowns, local, paid>>

Lose(m) ==
    /\ m \in mesh /\ faults < Faults
    /\ faults' = faults + 1
    /\ mesh' = mesh \ {m}
    /\ UNCHANGED <<tunnel, setting, browser, proxy, shutdowns, local, clients, paid>>

---------------------------------------------------------------------------
BrowserNext ==
    \/ \E tls \in BOOLEAN : Connect(tls)
    \/ \E hasHost, metered, fits \in BOOLEAN : BrowserSends(hasHost, metered, fits)
    \/ BrowserCloses
    \/ PoolTransmits \/ PoolRemoves \/ WriterWrites \/ WriterEnds
    \/ (\E metered \in BOOLEAN : ReportedShutdown(metered)) \/ QuietShutdown \/ PurgeTimer
    \/ \E id \in queries, e \in Exits \cup {None}, usable \in BOOLEAN :
         HandleRoute(id, e, usable)
    \/ \E m \in mesh, twice, rotates \in BOOLEAN : HandleFailure(m, twice, rotates)
    \/ \E m \in mesh, twice \in BOOLEAN : HandleResponse(m, twice)
    \/ \E m \in mesh : Lose(m) \/ \E gone \in BOOLEAN : ExitReceives(m, gone)
    \/ \E e \in Exits : \/ \E l \in clients[e].lookups : ExitConnects(e, l)
                       \/ \E n \in DOMAIN clients[e].lines : ExitAnswers(e, n) \/ ServerCloses(e, n)

BrowserSpec == BrowserInit /\ [][BrowserNext]_browserVars

\* The actors' threads, the timers and the writer's task always run on; a package
\* that is not lost arrives, and a server that has a request answers it.  The
\* browser owes nothing.
BrowserFairness ==
    /\ WF_browserVars(PoolTransmits \/ PoolRemoves) /\ WF_browserVars(WriterWrites)
    /\ WF_browserVars(\E metered \in BOOLEAN : ReportedShutdown(metered)) /\ WF_browserVars(QuietShutdown)
    /\ WF_browserVars(PurgeTimer)
    /\ WF_browserVars(\E id \in queries, e \in Exits \cup {None} : HandleRoute(id, e, TRUE))
    /\ WF_browserVars(\E m \in mesh : HandleFailure(m, FALSE, TRUE))
    /\ WF_browserVars(\E m \in mesh : HandleResponse(m, FALSE))
    /\ WF_browserVars(\E m \in mesh : ExitReceives(m, FALSE))
    /\ WF_browserVars(\E e \in Exits : \E l \in clients[e].lookups : ExitConnects(e, l))
    /\ WF_browserVars(\E e \in Exits : \E n \in DOMAIN clients[e].lines : ExitAnswers(e, n))
BrowserFairSpec == BrowserSpec /\ BrowserFairness

---------------------------------------------------------------------------
BrowserTypeOK ==
    /\ tunnel \in BOOLEAN /\ setting \in Settings
    /\ browser \in [open : BOOLEAN, sent : 0 .. Packets, refused : BOOLEAN]
    /\ DOMAIN stream = DOMAIN NoStream /\ stream.route \in Exits \cup {None}
    /\ stream.left \in 0 .. Retries /\ stream.attempt \in 0 .. Retries
    /\ pendingRoute.id \in 0 .. requests /\ Cardinality(pendingRoute.packets) <= QueueLimit
    /\ queries \subseteq 1 .. requests
    /\ writer.state \in {"open", "shut", "gone"}
    /\ \A e \in Exits : /\ clients[e].context \subseteq 0 .. Retries \cup {Unnumbered}
                        /\ \A n \in DOMAIN clients[e].lines : clients[e].lines[n].answered \in 0 .. Answers

\* What the browser reads is in order and without a gap or a repetition: the
\* answer to a CONNECT, then packets numbered by the server's side in their order, or
\* a failure message in their place (the sequence offset, the replay window and the
\* writer).  The number is that of the packet's connection: an exit may open several.
BrowserReadsInOrder ==
    \A i \in DOMAIN writer.out :
      LET p == writer.out[i]
      IN /\ p.what = "ok" <=> (i = 1 /\ tunnel /\ writer.out[1].what # "failure")
         /\ p.what = "failure" => Len(writer.out) = 1
         /\ p.what = "response" => p.index = i - IF tunnel THEN 2 ELSE 1

\* A response is paid for once in the life of a stream, however often the mesh
\* delivers it and whatever route the stream has by then (admit before
\* report_response_services_consumed).
PaidOnce ==
    \A i, j \in DOMAIN paid : paid[i] = paid[j] => i = j

\* Once the browser has closed its connection the stream is forgotten, whatever
\* the mesh and the Neighborhood still deliver (StreamShutdownMsg, StreamKeyPurge).
StreamIsForgotten == [](~browser.open => <>~stream.exists)

\* A browser gets an answer, the server's or a failure message, as long as the mesh
\* loses nothing, the server answers and the browser stays.  The exception is a browser
\* whose first packet is refused: that it names no host, or one that stands for this
\* computer, or that the receipt session is not in order, is only logged
\* (handle_normal_client_data), and whatever follows waits for it at the exit.
Answered(n) == Len(writer.out) > n
\* The same for the first packet in a tunnel, once it has a route: when its host cannot
\* be resolved the browser is told, after the answer to its CONNECT
\* (send_dns_failure_response_to_the_browser).
TunnelIsAnswered ==
    [](browser.sent = 1 /\ tunnel /\ stream.route # None =>
         <>(Answered(1) \/ browser.sent > 1 \/ ~browser.open \/ faults > 0))
===========================================================================
