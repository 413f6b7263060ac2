---------------------------- MODULE ExitStreams ----------------------------
(***************************************************************************)
(* An exit's side of one browser stream: the ProxyClient's context of the   *)
(* stream key (proxy_client/mod.rs), the TCP connections its pool opens for *)
(* the key (stream_handler_pool.rs, stream_establisher.rs) and their        *)
(* readers (stream_reader.rs).                                              *)
(*                                                                          *)
(* An operator takes the exit's state and what it has sent so far to the    *)
(* same pair afterwards.  The ProxyClient is an actor, and what its pool    *)
(* posts to it while it handles a message is handled next: that is part of  *)
(* the step.  A connection has the number of the packet that opened it.     *)
(* Its writer holds the packets back until it has got number 0, so that all *)
(* there is to know is whether the server has been `asked`.                 *)
(***************************************************************************)
EXTENDS Integers, Sequences

CONSTANTS
    Packets,    \* bound: packets of the browser
    Answers     \* bound: packets of the server on a connection

\* No connection
Absent == -1

NoLine == [up |-> FALSE, asked |-> FALSE, answered |-> 0]

\* stream_contexts holds the attempt of the stream's last packet, if there is one;
\* `killed` is what readers that have ended put into stream_killer, `adding` the last
\* connection put into stream_adder, `held` the one in stream_writer_channels
Idle(e) == [node |-> e, context |-> {}, lookups |-> {},
            lines |-> [n \in 0 .. Packets |-> NoLine],
            adding |-> Absent, held |-> Absent, killed |-> <<>>]

\* Handler<InboundServerData>: without a context the data is ignored
Respond(s, seq, last) ==
    IF s.exit.context = {} THEN s
    ELSE [exit |-> IF last THEN [s.exit EXCEPT !.context = {}] ELSE s.exit,
          sent |-> s.sent \cup {[kind |-> "response", exit |-> s.exit.node, seq |-> seq,
                                 last |-> last]}]

\* The connection in the pool is dropped and its reader told to stop
Dropped(x) ==
    [x EXCEPT !.held = Absent,
              !.lines = [n \in DOMAIN @ |-> IF n = x.held THEN [@[n] EXCEPT !.up = FALSE]
                                            ELSE @[n]]]

\* clean_up_dead_streams: the end of a connection is reported when the next package
\* comes, if the pool has a connection for the key, which need not be that one
CleanUpDeadStreams(s) ==
    LET swept == [s EXCEPT !.exit.killed = <<>>]
    IN IF s.exit.killed = <<>> \/ s.exit.held = Absent THEN swept
       ELSE Respond([swept EXCEPT !.exit = Dropped(@)], Head(s.exit.killed), TRUE)

\* add_new_streams: what was opened last replaces what the pool has
AddNewStreams(s) ==
    IF s.exit.adding = Absent THEN s
    ELSE [s EXCEPT !.exit.held = s.exit.adding, !.exit.adding = Absent]

\* process_package.  `gone` is whether the connection's writer has ended.
ProcessPackage(s, seq, last, attempt, gone) ==
    LET x == s.exit
        written == [x EXCEPT !.lines = [n \in DOMAIN @ |->
                                          IF n = x.held /\ seq = 0
                                          THEN [@[n] EXCEPT !.asked = TRUE] ELSE @[n]]]
    IN IF x.held # Absent
       THEN IF gone THEN Respond([s EXCEPT !.exit = Dropped(x)], 0, TRUE)
            ELSE [s EXCEPT !.exit = IF last THEN Dropped(written) ELSE written]
       ELSE IF last THEN s
       ELSE [s EXCEPT !.exit.lookups = @ \cup {[seq |-> seq, attempt |-> attempt]}]

Housekept(x, attempt) ==
    AddNewStreams(CleanUpDeadStreams([exit |-> [x EXCEPT !.context = {attempt}], sent |-> {}]))

\* Handler<ExpiredCoresPackage<ClientRequestPayload_0v1>>
Receive(x, seq, last, attempt, gone) ==
    ProcessPackage(Housekept(x, attempt), seq, last, attempt, gone)

\* A writer ends only after its connection has
WriterGone(x, attempt) ==
    LET h == Housekept(x, attempt).exit IN h.held # Absent /\ ~h.lines[h.held].up

\* The connection is made and the packet written to it
Established(x, l) ==
    [x EXCEPT !.lookups = @ \ {l}, !.adding = l.seq,
              !.lines[l.seq] = [NoLine EXCEPT !.up = TRUE, !.asked = (l.seq = 0)]]

\* Handler<DnsResolveFailure_0v1>: only the failure of the last attempt goes back
DnsResolveFailed(s, l) ==
    IF s.exit.context # {l.attempt} THEN s
    ELSE [exit |-> [s.exit EXCEPT !.context = {}],
          sent |-> s.sent \cup {[kind |-> "dns", exit |-> s.exit.node, packet |-> l.seq,
                                 attempt |-> l.attempt]}]

\* The host cannot be resolved or reached; clean_up_bad_stream ends the stream, unless
\* the ProxyClient has forgotten it.  A host that is an `address` is not looked up.
NotEstablished(x, l, address) ==
    LET s == [exit |-> [x EXCEPT !.lookups = @ \ {l}], sent |-> {}]
        t == IF address THEN s ELSE DnsResolveFailed(s, l)
    IN Respond(IF t.exit.held = Absent THEN t ELSE [t EXCEPT !.exit = Dropped(@)], 0, TRUE)

\* StreamReader: data, or the end of the connection, which takes a number too
Answer(x, n) ==
    Respond([exit |-> [x EXCEPT !.lines[n].answered = @ + 1], sent |-> {}],
            x.lines[n].answered, FALSE)

Close(x, n) ==
    [x EXCEPT !.lines[n].up = FALSE,
              !.killed = Append(@, x.lines[n].answered)]
=============================================================================
