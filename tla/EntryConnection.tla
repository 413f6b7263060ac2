------------------------- MODULE EntryConnection -------------------------
(***************************************************************************)
(* How the embedded Node reaches the mesh: the Neighborhood's connection   *)
(* progress (node/src/neighborhood/overall_connection_status.rs and the    *)
(* handlers of neighborhood/mod.rs), the messages it exchanges with the    *)
(* StreamHandlerPool and the Dispatcher, and the calls of                  *)
(* mobile_runtime.rs that ask for a retry.                                 *)
(*                                                                         *)
(* Each actor runs on an Arbiter thread of its own, so a handler is one    *)
(* step and the mailboxes are first-in-first-out queues: `inbox` is the    *)
(* Neighborhood's and `disp` the Dispatcher's.  A message from outside is  *)
(* handled in the step in which it arrives: it was queued before whatever  *)
(* `inbox` holds.  Of the StreamHandlerPool the model keeps what the       *)
(* Neighborhood can see: a packet for a peer without a stream opens one,   *)
(* and a stream opens, fails to open or ends.                              *)
(***************************************************************************)
EXTENDS Integers, Sequences, FiniteSets

CONSTANTS
    Peers,        \* IP addresses of the Nodes the mobile Node may meet
    Entry,        \* the entry nodes it starts with, a sequence of peers
    Refreshed,    \* the entry nodes a mobile retry hands over
    Demotion,     \* CONSECUTIVE_ROUTE_FAILURES_BEFORE_DEMOTION
    MaxEvents     \* bound: Gossip packages, calls of the mobile runtime,
                  \* streams that die and reports of a route that worked

ASSUME ContactAssumption ==
    /\ MaxEvents \in Nat /\ Demotion \in Nat
    /\ Entry \in Seq(Peers) /\ Refreshed \in Seq(Peers)

VARIABLES
    nb,           \* the Neighborhood actor (see NeighborhoodState)
    asks,         \* AskAboutDebutGossip timers, in the order they fire
    lease,        \* generation of the readiness timer that is set, or 0
    reported,     \* mobile_runtime::ROUTE_STAGE
    pending,      \* mobile_runtime::PENDING_ENTRY_NODES, <<>> for None
    hopsCall,     \* a set_min_hops call between its message and its store
    inbox, disp,
    link,         \* the stream to a peer: absent, open or being opened for
                  \* a packet sent by key or by socket address
    events        \* number of events from outside so far

mobile == <<reported, pending, hopsCall>>
contactVars == <<nb, asks, lease, mobile, inbox, disp, link, events>>

FailedStages == {"TcpConnectionFailed", "NoGossipResponseReceived",
                 "PassLoopFound", "DebutRejected"}
Stages == {"StageZero", "TcpConnectionEstablished",
           "NeighborshipEstablished"} \cup FailedStages
OverallStages == 0 .. 2
NotConnected == 0
ConnectedToNeighbor == 1
RouteFound == 2

Progress(p) == [init |-> p, peer |-> p, stage |-> "StageZero"]

NeighborhoodState ==
    [stage : OverallStages,
     progress : Seq([init : Peers, peer : Peers, stage : Stages]),
     topology : BOOLEAN, failures : 0 .. Demotion, generation : 0 .. MaxEvents,
     stale : BOOLEAN, half : SUBSET Peers, full : SUBSET Peers,
     passed : SUBSET Peers]

---------------------------------------------------------------------------
\* Connection progress

Valid(from, to) ==
    \/ from = "StageZero" /\ to \in {"TcpConnectionEstablished"} \cup FailedStages
    \/ from = "TcpConnectionEstablished"
       /\ to \in {"NeighborshipEstablished"} \cup FailedStages
    \/ from = "NeighborshipEstablished" /\ to \in FailedStages

\* get_connection_progress_by_ip: the first attempt at this peer, 0 if none
AtPeer(n, p) ==
    LET found == {i \in DOMAIN n.progress : n.progress[i].peer = p}
    IN IF found = {} THEN 0 ELSE CHOOSE i \in found : \A j \in found : i <= j

PeersOf(n) == {n.progress[i].peer : i \in DOMAIN n.progress}

\* update_stage of attempt i; a duplicate or an out-of-order stage is ignored
Applies(n, i, stage) == i # 0 /\ Valid(n.progress[i].stage, stage)
UpdateStage(n, i, stage) ==
    IF Applies(n, i, stage) THEN [n EXCEPT !.progress[i].stage = stage] ELSE n

EventStage(e) ==
    CASE e = "TcpConnectionSuccessful" -> "TcpConnectionEstablished"
      [] e \in {"IntroductionGossipReceived", "StandardGossipReceived"} ->
            "NeighborshipEstablished"
      [] OTHER -> e

\* Mutant: a Pass to a peer of another attempt is followed
FollowsAnyPass(n, target) == FALSE

\* A Pass to the current peer of any attempt is refused
PassIsRefused(n, target) == target \in PeersOf(n)

\* Mutant: the attempt goes back to its first peer in the stage it failed in
RetryInFailedStage(n, i) == [n EXCEPT !.progress[i].peer = n.progress[i].init]

\* retry_initial_node
RetryInitialNode(n, i) == [n EXCEPT !.progress[i] = Progress(@.init)]

\* reset_initial_node_for_user_retry, for every attempt
Reset(n) ==
    [n EXCEPT !.progress = [i \in DOMAIN @ |-> Progress(@[i].init)]]

---------------------------------------------------------------------------
\* The overall stage and the topology flag.  Searching for a route is a query
\* of the Node database: without a full neighbor there is no route, with one
\* the answer depends on the rest of the neighborhood.

Fallback(n) == IF n.full = {} THEN NotConnected ELSE ConnectedToNeighbor

\* update_ocs_stage_and_send_message_to_ui: mobile_runtime is told of changes
Report(n, m) == reported' = IF n.stage # m.stage THEN m.stage ELSE reported

Search(n) ==
    {[n EXCEPT !.topology = found] :
        found \in IF n.full = {} THEN {FALSE} ELSE BOOLEAN}
CheckConnectedness(n) == IF n.topology THEN {n} ELSE Search(n)

\* invalidate_route_after_neighbor_loss
InvalidateRoute(n) ==
    CheckConnectedness(
        [n EXCEPT !.topology = FALSE, !.stale = FALSE,
                  !.stage = IF @ = RouteFound \/ n.full = {}
                            THEN Fallback(n) ELSE @])

\* What sending does to the streams: only a peer without one needs a new one.
\* A packet sent by key belongs to a neighbor and is sent first.
Send(byKey, bySocket) ==
    link' = [p \in Peers |->
               CASE link[p] # "absent" -> link[p]
                 [] p \in byKey -> "openingByKey"
                 [] p \in bySocket -> "openingBySocket"
                 [] OTHER -> "absent"]

Message(kind, p) == [kind |-> kind, peer |-> p]
Event(p, e, target) ==
    [kind |-> "progress", peer |-> p, event |-> e, target |-> target]

---------------------------------------------------------------------------
ContactInit ==
    /\ nb = [stage |-> NotConnected,
             progress |-> [i \in DOMAIN Entry |-> Progress(Entry[i])],
             topology |-> FALSE, failures |-> 0, generation |-> 0,
             stale |-> FALSE, half |-> {}, full |-> {}, passed |-> {}]
    /\ asks = <<>> /\ lease = 0
    /\ reported = NotConnected /\ pending = <<>> /\ hopsCall = FALSE
    /\ inbox = <<Message("start", "none")>> /\ disp = <<>>
    /\ link = [p \in Peers |-> "absent"]
    /\ events = 0

External == events < MaxEvents /\ events' = events + 1

---------------------------------------------------------------------------
\* Calls of the mobile runtime

\* retry_connection: the new entry nodes are left in PENDING_ENTRY_NODES, the
\* published stage is cleared and the Neighborhood is asked to start again.
\* The core's own check of a descriptor is weaker than the Neighborhood's, so
\* the list may also turn out not to parse.
RetryConnection(list) ==
    /\ External
    /\ pending' = list
    /\ reported' = NotConnected
    /\ inbox' = Append(inbox, Message("start", "none"))
    /\ UNCHANGED <<nb, asks, lease, hopsCall, disp, link>>

\* set_min_hops sends the new length and lowers the published stage afterwards
SendMinHops ==
    /\ External
    /\ ~hopsCall /\ hopsCall' = TRUE
    /\ inbox' = Append(inbox, Message("hops", "none"))
    /\ UNCHANGED <<nb, asks, lease, reported, pending, disp, link>>

LowerStage ==
    /\ hopsCall /\ hopsCall' = FALSE
    /\ reported' = IF reported > 1 THEN 1 ELSE reported
    /\ UNCHANGED <<nb, asks, lease, pending, inbox, disp, link, events>>

---------------------------------------------------------------------------
\* Messages in the Neighborhood's mailbox

Unparsable == <<"unparsable">>

\* send_ask_about_debut_gossip_message: a timer with a snapshot of the attempt
Ask(n, p) == Append(asks, n.progress[AtPeer(n, p)])

\* handle_start_message: fresh GossipAcceptor, then the attempts begin again.
\* A list that does not parse is ignored, and the old entry nodes are used.
Restarted ==
    LET n == [nb EXCEPT !.passed = {}]
    IN CASE pending = Unparsable -> n
         [] pending = <<>> -> IF n.stage = NotConnected THEN Reset(n) ELSE n
         [] OTHER ->
              [n EXCEPT !.progress = [i \in DOMAIN pending |-> Progress(pending[i])],
                        !.topology = FALSE, !.stale = FALSE, !.failures = 0,
                        !.stage = NotConnected]

HandleStart ==
    /\ inbox # <<>> /\ Head(inbox).kind = "start"
    /\ inbox' = Tail(inbox)
    /\ pending' = <<>>
    /\ nb' = Restarted
    /\ Report(nb, nb')
    /\ Send({}, {nb'.progress[i].init : i \in DOMAIN nb'.progress})
    /\ UNCHANGED <<asks, lease, hopsCall, disp, events>>

\* ConfigChange::UpdateMinHops
HandleMinHops ==
    /\ inbox # <<>> /\ Head(inbox).kind = "hops"
    /\ inbox' = Tail(inbox)
    /\ nb' \in Search([nb EXCEPT !.topology = FALSE, !.stale = FALSE,
                                 !.stage = IF @ = RouteFound
                                           THEN ConnectedToNeighbor ELSE @])
    /\ Report(nb, nb')
    /\ UNCHANGED <<asks, lease, pending, hopsCall, disp, link, events>>

\* Handler<ConnectionProgressMessage>.  A Pass moves the attempt to its target.
HandleProgress ==
    /\ inbox # <<>> /\ Head(inbox).kind = "progress"
    /\ inbox' = Tail(inbox)
    /\ LET m == Head(inbox)
           i == AtPeer(nb, m.peer)
           pass == m.event = "PassGossipReceived"
           applied ==
             IF pass
             THEN /\ ~PassIsRefused(nb, m.target)
                  /\ i # 0
                  /\ nb.progress[i].stage \in {"StageZero", "TcpConnectionEstablished"}
             ELSE Applies(nb, i, EventStage(m.event))
           moved ==
             IF pass THEN [nb EXCEPT !.progress[i].peer = m.target,
                                     !.progress[i].stage = "StageZero"]
                     ELSE UpdateStage(nb, i, EventStage(m.event))
           new == EventStage(m.event)
       IN IF ~applied THEN UNCHANGED <<nb, asks>>
          ELSE /\ nb' = IF new = "NeighborshipEstablished" /\ nb.stage = NotConnected
                        THEN [moved EXCEPT !.stage = ConnectedToNeighbor] ELSE moved
               /\ asks' = IF \/ new = "TcpConnectionEstablished"
                             \/ new \in FailedStages /\ nb.stage = NotConnected
                          THEN Ask(moved, m.peer) ELSE asks
    /\ Report(nb, nb')
    /\ UNCHANGED <<lease, pending, hopsCall, disp, link, events>>

\* NeighborhoodDatabase::remove_neighbor and what follows it in both callers
RemoveNeighbor(n, p) ==
    IF p \in n.half
    THEN LET gone == [n EXCEPT !.half = @ \ {p}, !.full = @ \ {p}]
         IN nb' \in InvalidateRoute(gone) /\ Send(gone.half, {})
    ELSE nb' = n /\ link' = link

HandleRemoveNeighbor ==
    /\ inbox # <<>> /\ Head(inbox).kind = "remove"
    /\ inbox' = Tail(inbox)
    /\ RemoveNeighbor(nb, Head(inbox).peer)
    /\ Report(nb, nb')
    /\ UNCHANGED <<asks, lease, pending, hopsCall, disp, events>>

\* handle_stream_shutdown_msg: the attempt at this peer fails, without a timer
HandleStreamShutdown ==
    /\ inbox # <<>> /\ Head(inbox).kind = "shutdown"
    /\ inbox' = Tail(inbox)
    /\ LET p == Head(inbox).peer
           i == AtPeer(nb, p)
           failed == UpdateStage(nb, i, "TcpConnectionFailed")
           active == \E j \in DOMAIN failed.progress :
                         failed.progress[j].stage = "NeighborshipEstablished"
           n == IF i # 0 /\ ~active
                THEN [failed EXCEPT !.stage = NotConnected] ELSE failed
       IN RemoveNeighbor(n, p)
    /\ Report(nb, nb')
    /\ UNCHANGED <<asks, lease, pending, hopsCall, disp, events>>

---------------------------------------------------------------------------
\* Timers.  A mailbox is drained in far less than a timer's ten seconds or
\* five minutes, so a timer fires when no message is waiting.

Quiet == inbox = <<>> /\ disp = <<>>

\* Handler<AskAboutDebutGossipMessage>: the snapshot must still be current.
\* Timers have one length, so they fire in the order in which they were set.
FireAsk ==
    /\ Quiet /\ asks # <<>>
    /\ LET old == Head(asks)
           i == IF \E j \in DOMAIN nb.progress : nb.progress[j].init = old.init
                THEN CHOOSE j \in DOMAIN nb.progress : nb.progress[j].init = old.init
                ELSE 0
           current == i # 0 /\ nb.progress[i] = old
           inUse == \E j \in DOMAIN nb.progress :
                        /\ nb.progress[j].init # old.init
                        /\ nb.progress[j].peer = old.init
           silent == UpdateStage(nb, i, "NoGossipResponseReceived")
           later(n) == Append(Tail(asks), n.progress[AtPeer(n, old.peer)])
       IN CASE current /\ old.stage = "TcpConnectionEstablished" ->
                 nb' = silent /\ asks' = later(silent) /\ link' = link
            [] current /\ old.stage \in FailedStages /\ nb.stage = NotConnected /\ inUse ->
                 nb' = nb /\ asks' = later(nb) /\ link' = link
            [] current /\ old.stage \in FailedStages /\ nb.stage = NotConnected /\ ~inUse ->
                 /\ nb' = RetryInitialNode(nb, i)
                 /\ asks' = Tail(asks)
                 /\ Send({}, {old.init})
            [] OTHER -> nb' = nb /\ asks' = Tail(asks) /\ link' = link
    /\ UNCHANGED <<lease, mobile, inbox, disp, events>>

\* The closure of run_later and expire_route_readiness_lease
FireLease ==
    /\ Quiet /\ lease # 0
    /\ lease' = 0
    /\ nb' = IF lease = nb.generation /\ nb.stage = RouteFound
             THEN [nb EXCEPT !.stale = TRUE, !.stage = Fallback(nb)] ELSE nb
    /\ Report(nb, nb')
    /\ UNCHANGED <<asks, pending, hopsCall, inbox, disp, link, events>>

---------------------------------------------------------------------------
\* Reports of the ProxyServer.  They may be about a request made long before.

\* Mutant: the timer is set only when none is running
RouteUseSucceededOnOldLease ==
    /\ External
    /\ nb' = [nb EXCEPT !.failures = 0, !.topology = TRUE, !.stale = FALSE,
                        !.generation = @ + 1, !.stage = RouteFound]
    /\ lease' = IF lease = 0 THEN nb'.generation ELSE lease
    /\ Report(nb, nb')
    /\ UNCHANGED <<asks, pending, hopsCall, inbox, disp, link>>

RouteUseSucceeded ==
    /\ External
    /\ nb' = [nb EXCEPT !.failures = 0, !.topology = TRUE, !.stale = FALSE,
                        !.generation = @ + 1, !.stage = RouteFound]
    /\ lease' = nb'.generation
    /\ Report(nb, nb')
    /\ UNCHANGED <<asks, pending, hopsCall, inbox, disp, link>>

RouteUseFailed ==
    /\ nb.topology \/ nb.generation > 0
    /\ LET n == [nb EXCEPT !.failures = IF @ < Demotion THEN @ + 1 ELSE @]
       IN nb' = IF n.failures < Demotion \/ n.stage # RouteFound THEN n
                ELSE [n EXCEPT !.topology = FALSE, !.stale = FALSE,
                               !.stage = Fallback(n)]
    /\ Report(nb, nb')
    /\ UNCHANGED <<asks, lease, pending, hopsCall, inbox, disp, link, events>>

---------------------------------------------------------------------------
\* Gossip from a peer.  What the GossipAcceptor makes of a package is a choice
\* here (module Gossip has the acceptor): an outcome is the new Neighborhood,
\* whether the change is gossiped to the neighbors, the peers to debut to and
\* the progress event it queues for itself.

Outcome(n, accepted, debuts, queued) ==
    [n |-> n, accepted |-> accepted, debuts |-> debuts, queued |-> queued]

\* DebutHandler: a peer with nobody to introduce debuts back.  No event.
DebutBack(p) ==
    IF p \in nb.half THEN {}
    ELSE {Outcome([nb EXCEPT !.half = @ \cup {p}, !.full = @ \cup {p}], TRUE, {}, <<>>)}

\* IntroductionHandler: the introducer becomes a neighbor unless its record
\* was already here in this version; the introducee is sent a Debut
Introduction(p) ==
    {Outcome(IF new THEN [nb EXCEPT !.half = @ \cup {p}, !.full = @ \cup {p}] ELSE nb,
             new, {q}, <<Event(p, "IntroductionGossipReceived", q)>>) :
        new \in BOOLEAN, q \in Peers \ (nb.half \cup {p})}

\* StandardGossipHandler: the source becomes a half neighbor; its record makes
\* it a full one or no longer one
StandardGossip(p) ==
    {Outcome([nb EXCEPT !.half = @ \cup {p},
                        !.full = IF lists THEN @ \cup {p} ELSE @ \ {p}],
             TRUE, {},
             IF lists /\ p \notin nb.full
             THEN <<Event(p, "StandardGossipReceived", p)>> ELSE <<>>) :
        lists \in BOOLEAN}

\* PassHandler: a target met before, or under way, is a loop, except that a
\* target is forgotten after PASS_GOSSIP_EXPIRED_TIME
PassLoop(p) ==
    {Outcome(nb, FALSE, {}, <<Event(p, "PassLoopFound", q)>>) :
        q \in (nb.passed \cup PeersOf(nb)) \ {p}}
Pass(p) ==
    {Outcome([nb EXCEPT !.passed = @ \cup {q}], FALSE, {q},
             <<Event(p, "PassGossipReceived", q)>>) :
        q \in (nb.passed \cup (Peers \ PeersOf(nb))) \ {p}}

ReceiveGossip(p) ==
    /\ External
    /\ link[p] = "open"
    /\ \E o \in UNION {DebutBack(p), Introduction(p), StandardGossip(p),
                       PassLoop(p), Pass(p)} :
         /\ nb' \in CheckConnectedness(o.n)
         /\ Send(IF o.accepted THEN o.n.half ELSE {}, o.debuts)
         /\ inbox' = inbox \o o.queued
    /\ UNCHANGED <<asks, lease, mobile, disp>>

\* Handler<ExpiredCoresPackage<GossipFailure_0v1>> and handle_gossip_failure
ReceiveRefusal(p, manual) ==
    /\ External
    /\ link[p] = "open"
    /\ LET i == AtPeer(nb, p)
           applied == /\ i # 0
                      /\ nb.progress[i].stage \in {"StageZero", "TcpConnectionEstablished"}
           refused == UpdateStage(nb, i, "DebutRejected")
       IN /\ nb' = IF applied THEN refused ELSE nb
          /\ asks' = IF applied /\ ~manual /\ nb.stage = NotConnected
                     THEN Ask(refused, p) ELSE asks
    /\ UNCHANGED <<lease, mobile, inbox, disp, link>>

---------------------------------------------------------------------------
\* What the StreamHandlerPool and the Dispatcher tell the Neighborhood.  A
\* mobile Node accepts no connections: it has opened every stream itself.

Opening == {"openingByKey", "openingBySocket"}

\* StreamStartSuccessHandler
ConnectSucceeds(p) ==
    /\ link[p] \in Opening
    /\ link' = [link EXCEPT ![p] = "open"]
    /\ inbox' = Append(inbox, Event(p, "TcpConnectionSuccessful", p))
    /\ UNCHANGED <<nb, asks, lease, mobile, disp, events>>

\* StreamStartFailureHandler: the event is in the Neighborhood's mailbox before
\* the pool removes the stream.  A packet sent to a socket address carries no
\* key, and the RemoveNeighborMessage for it does nothing.
ConnectFails(p) ==
    /\ link[p] \in Opening
    /\ link' = [link EXCEPT ![p] = "absent"]
    /\ inbox' = inbox \o (IF link[p] = "openingByKey"
                          THEN <<Message("remove", p)>> ELSE <<>>)
                      \o <<Event(p, "TcpConnectionFailed", p)>>
    /\ disp' = Append(disp, Message("shutdown", p))
    /\ UNCHANGED <<nb, asks, lease, mobile, events>>

\* StreamReader::shutdown and handle_remove_stream_msg
StreamEnds(p) ==
    /\ External
    /\ link[p] = "open"
    /\ link' = [link EXCEPT ![p] = "absent"]
    /\ disp' = Append(disp, Message("shutdown", p))
    /\ UNCHANGED <<nb, asks, lease, mobile, inbox>>

\* The Dispatcher passes a clandestine shutdown on to the Neighborhood
Dispatch ==
    /\ disp # <<>>
    /\ disp' = Tail(disp)
    /\ inbox' = Append(inbox, Head(disp))
    /\ UNCHANGED <<nb, asks, lease, mobile, link, events>>

---------------------------------------------------------------------------
Handlers ==
    \/ HandleStart \/ HandleMinHops \/ HandleProgress \/ HandleRemoveNeighbor
    \/ HandleStreamShutdown \/ Dispatch

ContactNext ==
    \/ \E list \in {Refreshed, Unparsable} : RetryConnection(list)
    \/ SendMinHops \/ LowerStage
    \/ Handlers
    \/ FireAsk \/ FireLease
    \/ RouteUseSucceeded \/ RouteUseFailed
    \/ \E p \in Peers : ReceiveGossip(p)
    \/ \E p \in Peers, manual \in BOOLEAN : ReceiveRefusal(p, manual)
    \/ \E p \in Peers : ConnectSucceeds(p) \/ ConnectFails(p) \/ StreamEnds(p)

ContactSpec == ContactInit /\ [][ContactNext]_contactVars

\* Mailboxes are drained, timers fire and a connection attempt ends
ContactFairness ==
    /\ WF_contactVars(Handlers) /\ WF_contactVars(FireAsk) /\ WF_contactVars(FireLease)
    /\ WF_contactVars(LowerStage)
    /\ \A p \in Peers : WF_contactVars(ConnectSucceeds(p) \/ ConnectFails(p))

ContactFairSpec == ContactSpec /\ ContactFairness

---------------------------------------------------------------------------
ContactTypeOK ==
    /\ nb \in NeighborhoodState
    /\ \A i \in DOMAIN asks : asks[i].stage \in Stages
    /\ lease \in 0 .. MaxEvents
    /\ reported \in OverallStages
    /\ pending \in {<<>>, Refreshed, Unparsable}
    /\ hopsCall \in BOOLEAN
    /\ link \in [Peers -> {"absent", "open"} \cup Opening]

\* RouteFound is a lease: while the Neighborhood says that a route works, the timer
\* that takes the claim back is set for the claim of this generation; and the stage
\* that the app reads from mobile_runtime never runs ahead of the Neighborhood's,
\* whatever retry or hop change races with its reports.
ReadinessIsHonest ==
    /\ nb.stage = RouteFound => lease # 0 /\ lease = nb.generation /\ ~nb.stale
    /\ reported <= nb.stage

\* No two attempts are at the same peer, so that an event about an address reaches
\* the attempt it belongs to; and an attempt whose stream is open is watched: a timer
\* holds its snapshot, so that silence ends the attempt (handle_pass_gossip, the
\* check before a retry in AskAboutDebutGossipMessage, and the timers it sets).
AttemptsAreWatched ==
    \A i \in DOMAIN nb.progress :
        /\ \A j \in DOMAIN nb.progress :
              nb.progress[i].peer = nb.progress[j].peer => i = j
        /\ nb.progress[i].stage = "TcpConnectionEstablished" =>
              \E k \in DOMAIN asks : asks[k] = nb.progress[i]

\* A failure that has a timer is retried, unless a connection is made first or
\* another attempt has come to the peer where this one began (the handler of
\* AskAboutDebutGossipMessage).
FailureIsRetried ==
    \A e \in Peers :
        (/\ nb.stage = NotConnected
         /\ \E i \in DOMAIN nb.progress :
              /\ nb.progress[i].init = e /\ nb.progress[i].stage \in FailedStages
              /\ \E k \in DOMAIN asks : asks[k] = nb.progress[i])
        ~> (\/ nb.stage # NotConnected
            \/ \E i \in DOMAIN nb.progress :
                  nb.progress[i].init # e /\ nb.progress[i].peer = e
            \/ ~\E i \in DOMAIN nb.progress :
                  nb.progress[i].init = e /\ nb.progress[i].stage \in FailedStages)
===========================================================================
