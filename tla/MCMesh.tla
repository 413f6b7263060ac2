------------------------------- MODULE MCMesh -------------------------------
(***************************************************************************)
(* The Node's side of the mesh: the connection to the entry Nodes, gossip   *)
(* among Nodes, the browser's stream and the stream writers.  They share no *)
(* state here.  `part` says which of them moves in a behaviour; the others  *)
(* have no state then.                                                      *)
(***************************************************************************)
EXTENDS EntryConnection, ProxyStreams, StreamWriter, TLC

VARIABLES
    part,
    database, byIp, passed, peers, wire, lost, waiting, retries, losses, bans

\* The configuration gives the browser two packets, two exits, a retry, and a package
\* that the mesh loses, reorders or delivers twice; the queue for a route takes both
\* packets.  It gives the Node two entry Nodes, which may both pass to a third one, and
\* two events from outside; a route is demoted after two failures.  The stream writers get
\* three sequence numbers, one more than the window, and packets of up to two bytes
TwoEntries == <<"a", "b">>
OneRefreshed == <<"b">>

\* Four Nodes, one of which only consumes, so small that a Node is full with one
\* neighbor: debuts are passed on and refused
Crowd == INSTANCE Gossip WITH
    Nodes <- 1 .. 4, Standard <- {1, 2, 4}, Entry <- <<{}, {1}, {1}, {2}>>,
    MaxDegree <- 1, Sparse <- 2, PatchSize <- 3, MaxRetries <- 0, MaxLosses <- 0

\* Three Nodes and a stream that breaks, with room for all or with a debut repeated
Roomy == INSTANCE Gossip WITH
    Nodes <- 1 .. 3, Standard <- {1, 2}, Entry <- <<{}, {1}, {1}>>,
    MaxDegree <- 5, Sparse <- 2, PatchSize <- 3, MaxRetries <- 0, MaxLosses <- 1
Narrow == INSTANCE Gossip WITH
    Nodes <- 1 .. 3, Standard <- {1, 2}, Entry <- <<{}, {1}, {1}>>,
    MaxDegree <- 1, Sparse <- 2, PatchSize <- 3, MaxRetries <- 1, MaxLosses <- 1

gossipVars == <<database, byIp, passed, peers, wire, lost, waiting, retries, losses, bans>>
vars == <<part, browserVars, writerVars, contactVars, gossipVars>>

\* The exits are alike, so that it does not matter which of them reaches the host; one
\* of an older version and one host without a name are enough
BrowserBegins ==
    /\ BrowserInit
    /\ setting.reached \in {{}, {"x"}, {"x", "y"}}
    /\ setting.legacy = IF ~tunnel /\ setting.reached = {"x"} THEN {"y"} ELSE {}
    /\ setting.host = "address" => ~tunnel /\ setting.reached = {}

\* A part that does not move stays as it begins, or is given no state
BrowserRests == BrowserBegins /\ ~tunnel /\ ~setting.wallet /\ setting.host = "name" /\ setting.reached = {}

GossipRests ==
    /\ database = None /\ byIp = None /\ passed = None /\ peers = None /\ wire = None
    /\ lost = None /\ waiting = None /\ retries = None /\ losses = None /\ bans = None

\* The writer that does not move has nothing to write, for Ordered!Spec is about it
WriterRests ==
    /\ kind = "sorted" /\ length = <<>> /\ final = -1
    /\ channel = None /\ open = None /\ sends = None /\ task = "parked" /\ closed = None
    /\ shuttingDown = FALSE /\ waits = None /\ woken = None /\ buffer = None
    /\ errors = None /\ written = <<>> /\ panicked = FALSE

Init ==
    \/ part = "browser" /\ BrowserBegins /\ WriterRests /\ ContactInit /\ GossipRests
    \/ part = "writer" /\ WriterInit /\ BrowserRests /\ ContactInit /\ GossipRests
    \/ part = "contact" /\ ContactInit /\ BrowserRests /\ WriterRests /\ GossipRests
    \/ /\ \/ part = "crowd" /\ Crowd!Init
          \/ part = "roomy" /\ Roomy!Init
          \/ part = "narrow" /\ Narrow!Init
       /\ BrowserRests /\ WriterRests /\ ContactInit

Next ==
    /\ UNCHANGED part
    /\ \/ /\ part = "browser" /\ BrowserNext
          /\ UNCHANGED <<writerVars, contactVars, gossipVars>>
       \/ /\ part = "writer" /\ WriterNext
          /\ UNCHANGED <<browserVars, contactVars, gossipVars>>
       \/ /\ part = "contact" /\ ContactNext
          /\ UNCHANGED <<browserVars, writerVars, gossipVars>>
       \/ /\ \/ part = "crowd" /\ Crowd!Next
             \/ part = "roomy" /\ Roomy!Next
             \/ part = "narrow" /\ Narrow!Next
          /\ UNCHANGED <<browserVars, writerVars, contactVars>>

Spec == Init /\ [][Next]_vars

---------------------------------------------------------------------------
\* Every variable stays in its domain: the queue for a route within its limit, the
\* reordering buffer within its window, the failure count below the demotion.
TypeOK ==
    /\ part = "browser" => BrowserTypeOK
    /\ part = "contact" => ContactTypeOK
    /\ part = "writer" => WriterTypeOK
    /\ part = "crowd" => Crowd!TypeOK
    /\ part = "roomy" => Roomy!TypeOK
    /\ part = "narrow" => Narrow!TypeOK

\* A Node can reach its neighbors, and its index by address is in step with its
\* records (neighborhood_database.rs, the handlers of gossip_acceptor.rs).
NeighborsAreReachable ==
    /\ part = "crowd" => Crowd!NeighborsAreReachable
    /\ part = "roomy" => Roomy!NeighborsAreReachable
    /\ part = "narrow" => Narrow!NeighborsAreReachable

\* Old news that arrives late never replaces newer news, and whoever changes its
\* neighbors says so under a new version (identify_obsolete_nodes).
NewsNeverGoesBack ==
    [][/\ part = "crowd" => Crowd!NewsIsKept
       /\ part = "roomy" => Roomy!NewsIsKept
       /\ part = "narrow" => Narrow!NewsIsKept]_vars
=============================================================================
