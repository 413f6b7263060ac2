------------------------------- MODULE Gossip -------------------------------
(***************************************************************************)
(* How Nodes find each other: neighborhood/gossip_acceptor.rs with its four *)
(* handlers, gossip_producer.rs, neighborhood_database.rs, and the parts of *)
(* neighborhood/mod.rs that call them.  Several honest Nodes run this code. *)
(*                                                                          *)
(* A Node is its public key, a number (neighbors is an ordered set of keys);*)
(* its IP address is the same number.  A Node of Standard accepts           *)
(* connections and routes data; the others consume only, as the mobile      *)
(* Node does, and have no address of their own to publish.  Signatures are  *)
(* always valid and rate packs always within the limits.                    *)
(***************************************************************************)
EXTENDS Integers, Sequences, FiniteSets, SequencesExt, TLC

CONSTANTS
    Nodes,      \* the keys, a finite set of positive numbers
    Standard,   \* the Nodes that accept connections and route data
    Entry,      \* Entry[n]: the initial descriptors of n
    MaxDegree,  \* MAX_DEGREE
    Sparse,     \* a neighbor of at most this degree is not more appropriate (2)
    PatchSize,  \* db_patch_size
    MaxRetries, \* debuts sent again after a silence
    MaxLosses   \* streams that break

VARIABLES
    database,  \* database[n]: by_public_key, a record for each key known to n
    byIp,      \* byIp[n]: by_ip_addr
    passed,    \* passed[n]: keys of previous_pass_targets
    peers,     \* peers[n]: current_peer_addr of each ConnectionProgress
    wire,      \* wire[n][m]: what n has sent to m
    lost,      \* lost[n]: peers whose StreamShutdownMsg waits for n
    waiting,   \* the Nodes that have not handled their StartMessage yet
    retries, losses,
    bans       \* <<n, m>>: n has taken gossip of m for a malefactor's

vars == <<database, byIp, passed, peers, wire, lost, waiting, retries, losses, bans>>

NoAddr == 0

\* A GossipFailure: a message without a record
Refusal == <<>>

(***************************************************************************)
(* NeighborhoodDatabase.  d is the database of Node n.                      *)
(***************************************************************************)
Known(d, k) == k \in DOMAIN d

HalfNeighbors(d, k) == IF Known(d, k) THEN d[k].neighbors ELSE {}

FullNeighbors(d, k) == {m \in HalfNeighbors(d, k) : k \in HalfNeighbors(d, m)}

\* A neighbor that is not in the database is counted as a full one
GossipTargetDegree(d, k) ==
    Cardinality(FullNeighbors(d, k) \cap Standard)
        + Cardinality(HalfNeighbors(d, k) \ DOMAIN d)

LeastConnected(d, keys) ==
    {k \in keys : \A m \in keys : GossipTargetDegree(d, k) <= GossipTargetDegree(d, m)}

ReferencedKeys(d, n) == UNION {d[k].neighbors : k \in DOMAIN d} \cup {n}

WithRecord(f, k, r) == [m \in DOMAIN f \cup {k} |-> IF m = k THEN r ELSE f[m]]

Without(f, keys) == [m \in DOMAIN f \ keys |-> f[m]]

\* add_node
AddNode(s, k, r) ==
    [s EXCEPT !.database = WithRecord(@, k, r),
              !.byIp = IF r.addr = NoAddr THEN @ ELSE WithRecord(@, r.addr, k)]

\* add_half_neighbor, with the new version that every caller gives the record
AddHalfNeighbor(s, n, k) ==
    IF k \in s.database[n].neighbors \/ k = n THEN s
    ELSE [s EXCEPT !.database[n].neighbors = @ \cup {k}, !.database[n].version = @ + 1]

\* Mutant: what comes last is taken for the newest
LastIsNews(old, new) == new # old

\* Mutant: the same version counts as news
SameIsNews(old, new) == new.version >= old.version

\* A record replaces the one in the database when its version is newer
IsNews(old, new) == new.version > old.version

\* NodeRecord::update: the index by address is left as it is
UpdateIsProper(old, new) == NoAddr \in {old.addr, new.addr} \/ old.addr = new.addr

Updated(old, new) == [new EXCEPT !.addr = IF @ = NoAddr THEN old.addr ELSE @]

NodeByIp(s, ip) ==
    IF ip \in DOMAIN s.byIp /\ s.byIp[ip] \in DOMAIN s.database
    THEN {s.byIp[ip]} ELSE {}

(***************************************************************************)
(* Gossip: what GossipBuilder makes of some records of d.                   *)
(***************************************************************************)
Shown(d, k, reveal) ==
    [d[k] EXCEPT !.addr = IF reveal /\ k \in Standard THEN @ ELSE NoAddr]

Build(d, keys) == [k \in keys |-> Shown(d, k, TRUE)]

Debut(d, n) == Build(d, {n})

\* GossipProducer::produce
Produce(d, n, target) ==
    [k \in (DOMAIN d \cap ReferencedKeys(d, n)) \ {target} |->
        Shown(d, k, k = n \/ k \in d[target].neighbors)]

(***************************************************************************)
(* A handler takes the state of its Node and gives the new one, whether to  *)
(* gossip to the neighbors (Accepted), the replies to send, and whether it  *)
(* found a malefactor.                                                      *)
(***************************************************************************)
Result(s, accepted, replies, ban) ==
    [state |-> s, accepted |-> accepted, replies |-> replies, ban |-> ban]

Reply(k, addr, gossip) == [to |-> k, at |-> addr, what |-> gossip]

Malformed(s) == Result(s, FALSE, {}, TRUE)

(***************************************************************************)
(* DebutHandler.  g has the one record of k, received from source.          *)
(***************************************************************************)
TryAcceptDebut(s, n, k, r) ==
    LET t == AddHalfNeighbor(AddNode(s, k, r), n, k)
        d == t.database
        knowsUs == n \in r.neighbors
        introducible == (FullNeighbors(d, n) \cap Standard) \ ({k} \cup r.neighbors)
    IN IF r.neighbors \cap DOMAIN d \cap Standard # {} \/ introducible = {}
       THEN IF knowsUs THEN {Result(t, TRUE, {}, FALSE)}
            ELSE LET record == Debut(d, n)[n]
                     alone == [record EXCEPT !.neighbors = {k}]
                     redebut == r.neighbors \cap DOMAIN d \cap Standard # {}
                 IN {Result(t, FALSE,
                            {Reply(k, r.addr, (n :> IF redebut THEN record ELSE alone))},
                            FALSE)}
       ELSE {Result(t, FALSE, {Reply(k, r.addr, Build(d, {n, m}))}, FALSE)
                : m \in LeastConnected(d, introducible)}

HandleDebut(s, n, k, record, source) ==
    LET r == [record EXCEPT !.addr = IF @ = NoAddr THEN source ELSE @]
        d == s.database
        excluded == {k} \cup r.neighbors
        Pass(m) == Result(s, FALSE, {Reply(k, r.addr, Build(d, {m}))}, FALSE)
        appropriate ==
            LeastConnected(d, {m \in (FullNeighbors(d, n) \cap Standard) \ excluded
                                  : GossipTargetDegree(d, m) > Sparse})
        sparser == {m \in appropriate : GossipTargetDegree(d, m) < GossipTargetDegree(d, n)}
        others == LeastConnected(d, HalfNeighbors(d, n) \ excluded)
    IN IF sparser # {} THEN {Pass(m) : m \in sparser}
       ELSE IF GossipTargetDegree(d, n) < MaxDegree THEN TryAcceptDebut(s, n, k, r)
       ELSE IF others # {} THEN {Pass(m) : m \in others}
       ELSE {Result(s, FALSE, {Reply(k, r.addr, Refusal)}, FALSE)}

(***************************************************************************)
(* PassHandler.  Whether a former pass to the same target is more than      *)
(* PASS_GOSSIP_EXPIRED_TIME ago is open.  The ConnectionProgressMessage is  *)
(* taken to be handled at once.                                             *)
(***************************************************************************)
HandlePass(s, n, k, r, source) ==
    LET follow == Result(
            [s EXCEPT !.passed = @ \cup {r.addr},
                      !.peers = IF source \in @ THEN (@ \ {source}) \cup {r.addr} ELSE @],
            FALSE, {Reply(k, r.addr, Debut(s.database, n))}, FALSE)
        loop == Result(s, FALSE, {}, FALSE)
    IN IF r.addr \in s.passed THEN {loop, follow}
       ELSE IF r.addr \in s.peers THEN {loop}
       ELSE {follow}

(***************************************************************************)
(* IntroductionHandler                                                      *)
(***************************************************************************)
HandleIntroduction(s, n, g, introducer, introducee) ==
    LET d == s.database
        new == g[introducer]
        debut(t) == {Reply(introducee, g[introducee].addr, Debut(t.database, n))}
        adopt(t) ==
            LET u == AddHalfNeighbor(t, n, introducer)
            IN Result(u, TRUE, debut(u), FALSE)
    IN IF Cardinality(FullNeighbors(d, n)) >= MaxDegree
       THEN {Result(s, FALSE, {}, FALSE)}
       ELSE IF ~Known(d, introducer) THEN {adopt(AddNode(s, introducer, new))}
       ELSE IF ~IsNews(d[introducer], new)
       THEN {Result(s, FALSE, debut(s), FALSE)}
       ELSE IF UpdateIsProper(d[introducer], new)
       THEN {adopt([s EXCEPT !.database[introducer] = Updated(@, new)])}
       ELSE {Malformed(s)}

(***************************************************************************)
(* StandardGossipHandler                                                    *)
(***************************************************************************)
RECURSIVE Walk(_, _, _, _, _)
Walk(patch, k, hops, g, root) ==
    LET with == patch \cup {k}
        neighbors == IF k = root.key THEN root.neighbors ELSE g[k].neighbors
    IN IF hops = 0 THEN with
       ELSE IF k # root.key /\ k \notin DOMAIN g THEN with \ {k}
       ELSE FoldLeft(LAMBDA p, m : IF m \in p THEN p ELSE Walk(p, m, hops - 1, g, root),
                     with, SetToSortSeq(neighbors, <))

ComputePatch(g, n, neighbors) ==
    Walk({}, n, PatchSize, g, [key |-> n, neighbors |-> neighbors])

SelfRecord(s, g, source) ==
    {k \in DOMAIN g : IF k \in Standard THEN g[k].addr = source
                      ELSE NodeByIp(s, source) = {k}}

HandleStandard(s, n, g, source) ==
    LET d == s.database
        inPatch == DOMAIN g \cap ComputePatch(g, n, d[n].neighbors)
        worthy == {k \in inPatch : \/ g[k].addr \in {NoAddr, source}
                                   \/ k \in d[n].neighbors}
        new == {k \in worthy : ~Known(d, k)}
        obsolete == {k \in worthy \ new : IsNews(d[k], g[k])}
        added == [s EXCEPT !.database = [k \in DOMAIN d \cup new |->
                    IF k \in new THEN g[k]
                    ELSE IF k \in obsolete /\ UpdateIsProper(d[k], g[k])
                    THEN Updated(d[k], g[k]) ELSE d[k]],
                           !.byIp = [ip \in (DOMAIN @ \cup {g[k].addr : k \in new}) \ {NoAddr} |->
                    IF \E k \in new : g[k].addr = ip
                    THEN CHOOSE k \in new : g[k].addr = ip ELSE @[ip]]]
        full == Cardinality(FullNeighbors(added.database, n)) >= MaxDegree
        t == IF full \/ NodeByIp(added, source) = {} THEN added
             ELSE AddHalfNeighbor(added, n, added.byIp[source])
    IN IF SelfRecord(s, g, source) = {} THEN Malformed(s)
       ELSE Result(t, new \cup obsolete # {} \/ t # added, {}, worthy # inPatch)

(***************************************************************************)
(* GossipAcceptorReal::handle: the first handler whose qualification is not *)
(* Unmatched.                                                               *)
(***************************************************************************)
IsDebut(s, g, source) ==
    \E k \in DOMAIN g :
        /\ DOMAIN g = {k} /\ ~Known(s.database, k)
        /\ k \in Standard => g[k].addr \in {NoAddr, source}

DebutIsMalformed(g) == \E k \in DOMAIN g : (k \in Standard) # (g[k].addr # NoAddr)

IsPass(g, source) ==
    \E k \in DOMAIN g : DOMAIN g = {k} /\ g[k].addr \notin {NoAddr, source}

Introducers(g, source) == {k \in DOMAIN g : g[k].addr = source}

IntroductionIsMalformed(n, g, source) ==
    Cardinality(Introducers(g, source)) # 1 \/ n \in Introducers(g, source)

IsIntroduction(s, n, g, source) ==
    /\ Cardinality(DOMAIN g) = 2
    /\ \A k \in DOMAIN g : g[k].addr # NoAddr
    /\ \/ IntroductionIsMalformed(n, g, source)
       \/ ~(DOMAIN g \subseteq s.database[n].neighbors)

StandardIsMalformed(n, g) ==
    \/ n \in DOMAIN g
    \/ n \in Standard /\ \E k \in DOMAIN g : g[k].addr = n
    \/ \E k, m \in DOMAIN g : k # m /\ g[k].addr = g[m].addr /\ g[k].addr # NoAddr

Accept(s, n, g, source) ==
    IF IsDebut(s, g, source)
    THEN IF DebutIsMalformed(g) THEN {Malformed(s)}
         ELSE LET k == CHOOSE k \in DOMAIN g : TRUE IN HandleDebut(s, n, k, g[k], source)
    ELSE IF IsPass(g, source)
    THEN LET k == CHOOSE k \in DOMAIN g : TRUE IN HandlePass(s, n, k, g[k], source)
    ELSE IF IsIntroduction(s, n, g, source)
    THEN IF IntroductionIsMalformed(n, g, source) THEN {Malformed(s)}
         ELSE LET k == CHOOSE k \in Introducers(g, source) : TRUE
              IN HandleIntroduction(s, n, g, k, CHOOSE m \in DOMAIN g : m # k)
    ELSE IF StandardIsMalformed(n, g) THEN {Malformed(s)}
    ELSE {HandleStandard(s, n, g, source)}

(***************************************************************************)
(* Neighborhood                                                             *)
(***************************************************************************)
NodeState(n) ==
    [database |-> database[n], byIp |-> byIp[n], passed |-> passed[n], peers |-> peers[n]]

Become(n, s) ==
    /\ database' = [database EXCEPT ![n] = s.database]
    /\ byIp' = [byIp EXCEPT ![n] = s.byIp]
    /\ passed' = [passed EXCEPT ![n] = s.passed]
    /\ peers' = [peers EXCEPT ![n] = s.peers]

\* What is sent to the address of another Node cannot be decrypted there
Posted(w, n, replies) ==
    [w EXCEPT ![n] = [m \in Nodes |->
        w[n][m] \o SetToSeq({r.what : r \in {x \in replies : x.to = m /\ x.at = m}})]]

Culled(s, keys) ==
    [s EXCEPT !.database = Without(@, keys),
              !.byIp = Without(@, {s.database[k].addr : k \in keys})]

\* gossip_to_neighbors, with the check for dead Nodes that produce makes when a
\* minute has passed: it removes those nobody refers to that are old enough
GossipToNeighbors(n, s, w, replies) ==
    LET dead == IF s.database[n].neighbors = {} THEN {}
                ELSE DOMAIN s.database \ ReferencedKeys(s.database, n)
    IN \E keys \in SUBSET dead : \E t \in {Culled(s, keys)} :
        /\ Become(n, t)
        /\ wire' = Posted(Posted(w, n,
                {Reply(m, t.database[m].addr, Produce(t.database, n, m))
                    : m \in t.database[n].neighbors}), n, replies)

Init ==
    /\ database = [n \in Nodes |-> (n :> [version |-> 0, neighbors |-> {},
                                        addr |-> IF n \in Standard THEN n ELSE NoAddr])]
    /\ byIp = [n \in Nodes |-> IF n \in Standard THEN (n :> n) ELSE <<>>]
    /\ passed = [n \in Nodes |-> {}]
    /\ peers = Entry
    /\ wire = [n \in Nodes |-> [m \in Nodes |-> <<>>]]
    /\ lost = [n \in Nodes |-> {}]
    /\ waiting = Nodes
    /\ retries = 0 /\ losses = 0
    /\ bans = {}

SendDebuts(n, targets) ==
    wire' = Posted(wire, n, {Reply(e, e, Debut(database[n], n)) : e \in targets})

\* handle_start_message
Start(n) ==
    /\ n \in waiting
    /\ waiting' = waiting \ {n}
    /\ SendDebuts(n, peers[n])
    /\ UNCHANGED <<database, byIp, passed, peers, lost, retries, losses, bans>>

\* AskAboutDebutGossipMessage: the debut is sent again.  When that is due is the
\* subject of EntryConnection; here it may happen at any time.
Retry(n) ==
    /\ n \notin waiting /\ retries < MaxRetries
    /\ retries' = retries + 1
    /\ \E e \in peers[n] : SendDebuts(n, {e})
    /\ UNCHANGED <<database, byIp, passed, peers, lost, waiting, losses, bans>>

\* Handler<ExpiredCoresPackage<Gossip_0v1>>: handle_gossip, handle_agrs.  The
\* GossipFailure only moves the ConnectionProgress.
HandleGossip(n, source) ==
    /\ wire[source][n] # <<>>
    /\ LET g == Head(wire[source][n])
           w == [wire EXCEPT ![source][n] = Tail(@)]
       IN \/ /\ DOMAIN g = {}
             /\ wire' = w
             /\ UNCHANGED <<database, byIp, passed, peers, bans>>
          \/ /\ DOMAIN g # {}
             /\ \E result \in Accept(NodeState(n), n, g, source) :
                /\ IF result.accepted
                   THEN GossipToNeighbors(n, result.state, w, result.replies)
                   ELSE Become(n, result.state) /\ wire' = Posted(w, n, result.replies)
                /\ bans' = IF result.ban THEN bans \cup {<<n, source>>} ELSE bans
    /\ UNCHANGED <<lost, waiting, retries, losses>>

\* A TCP stream breaks: what is on it is lost, and both ends will notice
StreamBreaks(n, m) ==
    /\ n < m /\ losses < MaxLosses
    /\ \/ m \in database[n][n].neighbors
       \/ n \in database[m][m].neighbors
    /\ losses' = losses + 1
    /\ wire' = [wire EXCEPT ![n][m] = <<>>, ![m][n] = <<>>]
    /\ lost' = [lost EXCEPT ![n] = @ \cup {m}, ![m] = @ \cup {n}]
    /\ UNCHANGED <<database, byIp, passed, peers, waiting, retries, bans>>

\* Mutant: the index by address keeps the neighbor
RemoveNeighborFromKeys(s, n, k) ==
    IF k \in s.database[n].neighbors
    THEN [s EXCEPT !.database[k].addr = NoAddr,
                   !.database[n].neighbors = @ \ {k}, !.database[n].version = @ + 1]
    ELSE [s EXCEPT !.database[k].addr = NoAddr]

\* remove_neighbor of the database
RemoveNeighbor(s, n, k) ==
    LET forgotten == [s EXCEPT !.database[k].addr = NoAddr,
                               !.byIp = Without(@, {s.database[k].addr})]
    IN IF k \in s.database[n].neighbors
       THEN [forgotten EXCEPT !.database[n].neighbors = @ \ {k},
                              !.database[n].version = @ + 1]
       ELSE forgotten

\* handle_stream_shutdown_msg
HandleStreamShutdown(n, ip) ==
    /\ ip \in lost[n]
    /\ lost' = [lost EXCEPT ![n] = @ \ {ip}]
    /\ \/ /\ NodeByIp(NodeState(n), ip) = {}
          /\ UNCHANGED <<database, byIp, passed, peers, wire>>
       \/ \E k \in NodeByIp(NodeState(n), ip) :
            \E s \in {RemoveNeighbor(NodeState(n), n, k)} :
                IF k \in database[n][n].neighbors THEN GossipToNeighbors(n, s, wire, {})
                ELSE Become(n, s) /\ UNCHANGED wire
    /\ UNCHANGED <<waiting, retries, losses, bans>>

Next ==
    \E n \in Nodes :
        \/ Start(n)
        \/ Retry(n)
        \/ \E m \in Nodes : HandleGossip(n, m) \/ StreamBreaks(n, m) \/ HandleStreamShutdown(n, m)

Spec == Init /\ [][Next]_vars

\* Every actor handles what is in its mailbox, and TCP delivers: the Nodes go on as
\* long as there is something to handle.  This is WF_vars of the handlers with
\* ENABLED written out.
Quiet ==
    /\ waiting = {}
    /\ \A n \in Nodes : lost[n] = {} /\ \A m \in Nodes : wire[n][m] = <<>>

Fairness == []<>Quiet \/ []<><<TRUE>>_vars

FairSpec == Spec /\ Fairness

-----------------------------------------------------------------------------
TypeOK ==
    /\ \A n \in Nodes :
        /\ n \in DOMAIN database[n] /\ DOMAIN database[n] \subseteq Nodes
        /\ \A k \in DOMAIN database[n] :
            /\ database[n][k].version \in Nat
            /\ database[n][k].neighbors \subseteq Nodes \ {k}
            /\ database[n][k].addr \in Nodes \cup {NoAddr}
        /\ DOMAIN byIp[n] \cup passed[n] \cup peers[n] \cup lost[n] \subseteq Nodes
    /\ retries \in 0 .. MaxRetries /\ losses \in 0 .. MaxLosses

\* A Node can reach its neighbors, and only them through the index by address: every
\* half neighbor is in the database with an address (gossip_to_neighbor would send
\* nothing otherwise), and by_ip_addr leads to records that have that address.  The
\* removal of a neighbor, the culling of dead Nodes and the four handlers keep
\* by_public_key, by_ip_addr and neighbors in step, in whatever order the news comes.
NeighborsAreReachable ==
    \A n \in Nodes :
        /\ \A k \in database[n][n].neighbors :
            Known(database[n], k) /\ database[n][k].addr # NoAddr
        /\ \A ip \in DOMAIN byIp[n] :
            Known(database[n], byIp[n][ip]) /\ database[n][byIp[n][ip]].addr = ip

\* Old news that arrives late, over another neighbor, never replaces what a Node
\* already knows of a third one, and whoever changes its neighbors says so under a
\* new version (identify_obsolete_nodes, add_half_neighbor, remove_neighbor).
NewsIsKept ==
    \A n \in Nodes :
        /\ \A k \in DOMAIN database[n] \cap DOMAIN database'[n] :
            database'[n][k].version >= database[n][k].version
        /\ database'[n][n].neighbors # database[n][n].neighbors =>
            database'[n][n].version > database[n][n].version

\* Gossip comes to an end: handlers that answer gossip with gossip stop once
\* everyone has heard everything ("Gossip contained nothing new").
GossipSettles == <>[]Quiet

\* A half neighbor is "in the process of connecting", banned or gone: when all has
\* been said and every stream is up, a Node that has another as its neighbor is that
\* Node's neighbor too, unless that one is full or has banned it (try_accept_debut,
\* add_src_node_as_half_neighbor).
NeighborsAreMutual ==
    Quiet /\ losses = 0 => \A n \in Nodes : \A k \in database[n][n].neighbors :
        \/ n \in database[k][k].neighbors
        \/ Cardinality(FullNeighbors(database[k], k)) >= MaxDegree
        \/ <<k, n>> \in bans
=============================================================================
