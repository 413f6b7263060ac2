--------------------------- MODULE MCMeshProgress ---------------------------
(***************************************************************************)
(* The parts of the Node that must not come to a halt, side by side: the    *)
(* browser's stream, the stream writers, the connection to the entry Nodes  *)
(* and the gossip among Nodes.  They share no state here.  `part` says      *)
(* which of them moves in a behaviour; the others have nothing to do.       *)
(***************************************************************************)
EXTENDS Integers, Sequences, TLC

VARIABLES
    part,
    tunnel, setting, browser, stream, pendingRoute, requests, queries, mesh, purges,
    shutdowns, registered, poolInbox, writer, clients, paid, faults,
    kind, length, final, channel, open, sends, task, closed, shuttingDown, waits, woken,
    buffer, errors, written, panicked,
    nb, asks, lease, reported, pending, hopsCall, inbox, disp, link, events,
    database, byIp, passed, peers, wire, lost, waiting, retries, losses, bans

\* Two packets in a mesh that loses nothing, or one packet and a fault: a route can
\* fail and be retried while an answer of the first one is still under way.
Browser == INSTANCE ProxyStreams WITH
    Exits <- {"x", "y"}, Retries <- 1, QueueLimit <- 2,
    Packets <- 2, Answers <- 1, Window <- 4, Faults <- 0
Faulty == INSTANCE ProxyStreams WITH
    Exits <- {"x", "y"}, Retries <- 1, QueueLimit <- 2,
    Packets <- 1, Answers <- 1, Window <- 4, Faults <- 1

\* Two packets of up to two bytes, one of which comes twice or not at all
Writer == INSTANCE StreamWriter WITH
    MaxSequence <- 1, ReorderWindow <- 2, MaxErrors <- 2, MaxBytes <- 2, MaxSends <- 3

\* Two entry Nodes and one event, or one entry Node and two events
Contact == INSTANCE EntryConnection WITH
    Peers <- {"a", "b", "c"}, Entry <- <<"a", "b">>, Refreshed <- <<"b", "c">>,
    Demotion <- 1, MaxEvents <- 1
OneContact == INSTANCE EntryConnection WITH
    Peers <- {"a", "b", "c"}, Entry <- <<"a">>, Refreshed <- <<"b">>,
    Demotion <- 1, MaxEvents <- 2

\* Two Nodes that meet at a third one; two Nodes whose stream breaks and who retry.
\* (A Node without peers stands by, so that both are about the same three Nodes.)
Mesh == INSTANCE Gossip WITH
    Nodes <- 1 .. 3, Standard <- 1 .. 3, Entry <- <<{}, {1}, {1}>>, MaxDegree <- 5,
    Sparse <- 2, PatchSize <- 3, MaxRetries <- 0, MaxLosses <- 0
Pair == INSTANCE Gossip WITH
    Nodes <- 1 .. 3, Standard <- 1 .. 2, Entry <- <<{}, {1}, {}>>, MaxDegree <- 5,
    Sparse <- 2, PatchSize <- 3, MaxRetries <- 2, MaxLosses <- 1

browserVars == <<tunnel, setting, browser, stream, pendingRoute, requests, queries,
                 mesh, purges, shutdowns, registered, poolInbox, writer, clients,
                 paid, faults>>
writerVars == <<kind, length, final, channel, open, sends, task, closed, shuttingDown,
                waits, woken, buffer, errors, written, panicked>>
contactVars == <<nb, asks, lease, reported, pending, hopsCall, inbox, disp, link, events>>
meshVars == <<database, byIp, passed, peers, wire, lost, waiting, retries, losses, bans>>
vars == <<part, browserVars, writerVars, contactVars, meshVars>>

\* As in MCMesh; of a tunnel only the end is looked at here
Chosen ==
    /\ setting.reached \in IF tunnel THEN {{"x"}} ELSE {{}, {"x"}, {"x", "y"}}
    /\ setting.legacy = IF ~tunnel /\ setting.reached = {"x"} THEN {"y"} ELSE {}
    /\ setting.host = "address" => ~tunnel /\ setting.reached = {}

BrowserRests ==
    /\ Browser!BrowserInit /\ Chosen
    /\ ~tunnel /\ ~setting.wallet /\ setting.host = "name" /\ setting.reached = {}

WriterRests ==
    /\ kind = "sorted" /\ length = [n \in 0 .. 1 |-> 0] /\ final = 0
    /\ channel = <<>> /\ open = TRUE /\ sends = 0
    /\ task = "parked" /\ closed = FALSE /\ shuttingDown = FALSE
    /\ waits = {} /\ woken = FALSE /\ buffer = Writer!EmptyBuffer
    /\ errors = 0 /\ written = <<>> /\ panicked = FALSE

ContactRests ==
    /\ nb = [stage |-> 0, progress |-> <<>>]
    /\ asks = <<>> /\ lease = 0 /\ reported = 0 /\ pending = <<>> /\ hopsCall = FALSE
    /\ inbox = <<>> /\ disp = <<>> /\ events = 0
    /\ link = [p \in {"a", "b", "c"} |-> "absent"]

MeshRests ==
    /\ database = <<>> /\ byIp = <<>> /\ passed = <<>> /\ peers = <<>>
    /\ wire = [n \in 1 .. 3 |-> [m \in 1 .. 3 |-> <<>>]]
    /\ lost = [n \in 1 .. 3 |-> {}] /\ waiting = {} /\ retries = 0 /\ losses = 0
    /\ bans = {}

Init ==
    \/ part = "browser" /\ Browser!BrowserInit /\ Chosen /\ WriterRests /\ ContactRests /\ MeshRests
    \/ part = "faulty" /\ Faulty!BrowserInit /\ Chosen /\ WriterRests /\ ContactRests /\ MeshRests
    \/ part = "writer" /\ Writer!WriterInit /\ BrowserRests /\ ContactRests /\ MeshRests
    \/ part = "contact" /\ Contact!ContactInit /\ BrowserRests /\ WriterRests /\ MeshRests
    \/ part = "oneContact" /\ OneContact!ContactInit /\ BrowserRests /\ WriterRests /\ MeshRests
    \/ part = "mesh" /\ Mesh!Init /\ BrowserRests /\ WriterRests /\ ContactRests
    \/ part = "pair" /\ Pair!Init /\ BrowserRests /\ WriterRests /\ ContactRests

Next ==
    /\ UNCHANGED part
    /\ \/ /\ part = "browser" /\ Browser!BrowserNext
          /\ UNCHANGED <<writerVars, contactVars, meshVars>>
       \/ /\ part = "faulty" /\ Faulty!BrowserNext
          /\ UNCHANGED <<writerVars, contactVars, meshVars>>
       \/ /\ part = "writer" /\ Writer!WriterNext
          /\ UNCHANGED <<browserVars, contactVars, meshVars>>
       \/ /\ part = "contact" /\ Contact!ContactNext
          /\ UNCHANGED <<browserVars, writerVars, meshVars>>
       \/ /\ part = "oneContact" /\ OneContact!ContactNext
          /\ UNCHANGED <<browserVars, writerVars, meshVars>>
       \/ /\ part = "mesh" /\ Mesh!Next
          /\ UNCHANGED <<browserVars, writerVars, contactVars>>
       \/ /\ part = "pair" /\ Pair!Next
          /\ UNCHANGED <<browserVars, writerVars, contactVars>>

\* A part that rests satisfies its fairness: none of its fair actions is enabled.
\* The instances of one component have the same fair actions: these do not depend on
\* the constants in which the instances differ.
Spec == Init /\ [][Next]_vars
             /\ Browser!BrowserFairness /\ Writer!WriterFairness /\ Contact!ContactFairness /\ Mesh!Fairness

---------------------------------------------------------------------------
\* Once the browser has closed its connection the stream is forgotten.
StreamIsForgotten == part \in {"browser", "faulty"} => Browser!StreamIsForgotten


\* A stream writer misses no wake-up.
WritesOn == part = "writer" => Writer!WritesOn

\* A failed attempt to reach an entry Node is retried.
FailureIsRetried == part \in {"contact", "oneContact"} => Contact!FailureIsRetried

\* Gossip among Nodes comes to an end.
GossipSettles == part \in {"mesh", "pair"} => Mesh!GossipSettles
=============================================================================
