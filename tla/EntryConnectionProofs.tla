----------------------- MODULE EntryConnectionProofs -----------------------
(***************************************************************************)
(* Proofs about EntryConnection, for any set of peers, any entry nodes and *)
(* any number of events.                                                   *)
(*                                                                         *)
(* ReadinessIsHonest is inductive over the types.  AttemptsAreWatched also *)
(* needs that no two attempts began at the same peer (InitsDiffer): this   *)
(* is what makes the attempt that a timer finds by its entry node the one  *)
(* the timer was set for, and what lets every attempt go back to its entry *)
(* node at once when the user asks for a retry.                            *)
(***************************************************************************)
EXTENDS EntryConnection, TLAPS, WellFoundedInduction

\* The constants are what the module says they are.
Bounds == /\ MaxEvents \in Nat /\ Demotion \in Nat
          /\ Entry \in Seq(Peers) /\ Refreshed \in Seq(Peers)

\* An entry list names an address once.  The Node takes the list as it is given.
ListsAreDistinct ==
    /\ \A i, j \in DOMAIN Entry : Entry[i] = Entry[j] => i = j
    /\ \A i, j \in DOMAIN Refreshed : Refreshed[i] = Refreshed[j] => i = j

\* A ConnectionProgress.
Attempt == [init : Peers, peer : Peers, stage : Stages]

\* The messages to the Neighborhood and to the Dispatcher.
Events == {"TcpConnectionSuccessful", "TcpConnectionFailed", "IntroductionGossipReceived",
           "StandardGossipReceived", "PassLoopFound", "PassGossipReceived"}
Mail == [kind : {"start", "hops"}, peer : {"none"}]
        \cup [kind : {"remove", "shutdown"}, peer : Peers]
        \cup [kind : {"progress"}, peer : Peers, event : Events, target : Peers]
Shutdowns == [kind : {"shutdown"}, peer : Peers]

\* Generations are counted by the events that begin them.
NbType == nb \in NeighborhoodState /\ nb.generation <= events
LinkType == link \in [Peers -> {"absent", "open"} \cup Opening]
Types ==
    /\ NbType /\ LinkType
    /\ asks \in Seq(Attempt) /\ inbox \in Seq(Mail) /\ disp \in Seq(Shutdowns)
    /\ lease \in 0 .. MaxEvents /\ events \in 0 .. MaxEvents
    /\ reported \in OverallStages /\ pending \in {<<>>, Refreshed, Unparsable}
    /\ hopsCall \in BOOLEAN

\* What the steps keep of a Neighborhood: the claim, and the attempts but for
\* their stages.
SameClaim(n, m) ==
    /\ m \in NeighborhoodState /\ m.stage = n.stage /\ m.generation = n.generation
    /\ m.stale <=> n.stale
SameAttempts(n, m) ==
    /\ DOMAIN m.progress = DOMAIN n.progress
    /\ \A i \in DOMAIN n.progress :
          m.progress[i].init = n.progress[i].init /\ m.progress[i].peer = n.progress[i].peer

---------------------------------------------------------------------------
(* The operators of the module.                                            *)

\* A set of natural numbers has a least element.
LEMMA LeastIndex ==
  ASSUME NEW T, T \subseteq Nat, T # {}
  PROVE  \E i \in T : \A j \in T : i <= j
<1>1. PICK i \in T : \A j \in T : ~(<<j, i>> \in OpToRel(<, Nat))
  BY NatLessThanWellFounded, WFMin
<1>2. \A j \in T : <<j, i>> \in OpToRel(<, Nat) <=> j < i
  BY DEF OpToRel
<1>3. \A j \in T : ~(j < i)
  BY <1>1, <1>2
<1>4. \A j \in T : i \in Nat /\ j \in Nat
  OBVIOUS
<1> QED BY <1>3, <1>4

\* The attempts of a Neighborhood.
LEMMA Attempts ==
  ASSUME NEW n \in NeighborhoodState
  PROVE  /\ n.progress \in Seq(Attempt) /\ Len(n.progress) \in Nat
         /\ DOMAIN n.progress = 1 .. Len(n.progress)
         /\ \A i \in DOMAIN n.progress : n.progress[i] \in Attempt
<1>1. n.progress \in Seq(Attempt)
  BY DEF NeighborhoodState, Attempt
<1> QED BY <1>1

\* get_connection_progress_by_ip finds the first attempt at a peer.
LEMMA AtPeerFinds ==
  ASSUME NEW n \in NeighborhoodState, NEW p
  PROVE  /\ AtPeer(n, p) # 0 => /\ AtPeer(n, p) \in DOMAIN n.progress
                                /\ n.progress[AtPeer(n, p)].peer = p
         /\ \A i \in DOMAIN n.progress : n.progress[i].peer = p => AtPeer(n, p) # 0
<1> DEFINE found == {i \in DOMAIN n.progress : n.progress[i].peer = p}
<1>1. found \subseteq Nat /\ 0 \notin found
  BY Attempts
<1>2. CASE found = {}
  BY <1>2 DEF AtPeer
<1>3. CASE found # {}
  <2>1. \E i \in found : \A j \in found : i <= j
    BY Zenon, <1>1, <1>3, LeastIndex
  <2>2. AtPeer(n, p) = CHOOSE i \in found : \A j \in found : i <= j
    BY <1>3 DEF AtPeer
  <2> HIDE DEF found
  <2>3. AtPeer(n, p) \in found
    BY <2>1, <2>2
  <2> QED BY <1>1, <2>3 DEF found
<1> QED BY <1>2, <1>3

\* It finds the same attempt when only stages changed.
LEMMA AtPeerStays ==
  ASSUME NEW n, NEW m, SameAttempts(n, m), NEW p
  PROVE  AtPeer(m, p) = AtPeer(n, p)
<1> DEFINE foundIn(r) == {i \in DOMAIN r.progress : r.progress[i].peer = p}
           first(S) == IF S = {} THEN 0 ELSE CHOOSE i \in S : \A j \in S : i <= j
<1>1. foundIn(m) = foundIn(n)
  BY DEF SameAttempts
<1>2. AtPeer(m, p) = first(foundIn(m)) /\ AtPeer(n, p) = first(foundIn(n))
  BY Zenon DEF AtPeer
<1> HIDE DEF foundIn, first
<1> QED BY <1>1, <1>2

\* update_stage changes one stage, or nothing.
LEMMA UpdateStageKeeps ==
  ASSUME NEW n \in NeighborhoodState, NEW i \in DOMAIN n.progress \cup {0}, NEW stage,
         NEW m, m = UpdateStage(n, i, stage)
  PROVE  /\ SameClaim(n, m) /\ SameAttempts(n, m)
         /\ m.half = n.half /\ m.full = n.full
         /\ ~Applies(n, i, stage) => m = n
         /\ Applies(n, i, stage) => /\ i \in DOMAIN n.progress /\ stage \in Stages
                                    /\ m.progress[i].stage = stage
                                    /\ \A j \in DOMAIN n.progress \ {i} :
                                         m.progress[j] = n.progress[j]
<1>1. CASE ~Applies(n, i, stage)
  BY <1>1 DEF UpdateStage, SameClaim, SameAttempts
<1>2. CASE Applies(n, i, stage)
  <2>1. stage \in Stages /\ i \in DOMAIN n.progress
    BY <1>2, Attempts DEF Applies, Valid, Stages
  <2>2. m = [n EXCEPT !.progress[i].stage = stage]
    BY <1>2 DEF UpdateStage
  <2>3. /\ n.progress \in Seq(Attempt) /\ n.progress[i] \in Attempt
        /\ DOMAIN n.progress = 1 .. Len(n.progress)
    BY <2>1, Attempts
  <2> DEFINE a == [n.progress[i] EXCEPT !.stage = stage]
             s == [n.progress EXCEPT ![i] = a]
  <2>4. a \in Attempt /\ a.stage = stage /\ a.init = n.progress[i].init /\ a.peer = n.progress[i].peer
    BY <2>1, <2>3 DEF Attempt
  <2>5. /\ s \in Seq(Attempt) /\ DOMAIN s = DOMAIN n.progress /\ s[i] = a
        /\ \A j \in DOMAIN n.progress \ {i} : s[j] = n.progress[j]
    BY <2>1, <2>3, <2>4
  <2>6. m = [n EXCEPT !.progress = s]
    BY <2>2 DEF NeighborhoodState
  <2> HIDE DEF a, s
  <2>7. /\ m \in NeighborhoodState /\ m.progress = s /\ m.stage = n.stage
        /\ m.generation = n.generation /\ (m.stale <=> n.stale)
        /\ m.half = n.half /\ m.full = n.full
    BY SMTT(30), <2>5, <2>6 DEF NeighborhoodState, Attempt
  <2>8. SameClaim(n, m) /\ SameAttempts(n, m)
    BY <2>3, <2>4, <2>5, <2>7 DEF SameClaim, SameAttempts
  <2> QED BY <1>2, <2>1, <2>4, <2>5, <2>7, <2>8
<1> QED BY <1>1, <1>2

\* Searching for a route changes nothing but the topology flag.
LEMMA SearchKeeps ==
  ASSUME NEW n \in NeighborhoodState, NEW m, m \in Search(n) \/ m \in CheckConnectedness(n)
  PROVE  /\ SameClaim(n, m) /\ m.progress = n.progress
         /\ m.half = n.half /\ m.full = n.full
<1>1. CASE m = n
  BY <1>1 DEF SameClaim
<1>2. CASE m \in Search(n)
  <2>1. PICK found \in BOOLEAN : m = [n EXCEPT !.topology = found]
    BY Zenon, <1>2 DEF Search
  <2> QED BY <2>1 DEF SameClaim, NeighborhoodState
<1> QED BY <1>1, <1>2 DEF CheckConnectedness

\* Losing a neighbor takes a claim back.
LEMMA InvalidateRouteKeeps ==
  ASSUME NEW n \in NeighborhoodState, NEW m \in InvalidateRoute(n)
  PROVE  /\ m \in NeighborhoodState /\ m.generation = n.generation
         /\ m.progress = n.progress /\ m.stage # RouteFound
<1> DEFINE stage == IF n.stage = RouteFound \/ n.full = {} THEN Fallback(n) ELSE n.stage
           c == [n EXCEPT !.topology = FALSE, !.stale = FALSE, !.stage = stage]
<1>1. stage \in OverallStages /\ stage # RouteFound
  BY DEF Fallback, NeighborhoodState, OverallStages, NotConnected, ConnectedToNeighbor, RouteFound
<1>2. m \in CheckConnectedness(c)
  BY DEF InvalidateRoute
<1> HIDE DEF stage
<1>3. c \in NeighborhoodState /\ c.generation = n.generation /\ c.progress = n.progress
      /\ c.stage = stage
  BY Zenon, <1>1 DEF NeighborhoodState
<1> HIDE DEF c
<1> QED BY <1>1, <1>2, <1>3, SearchKeeps DEF SameClaim

\* Sending keeps the streams typed.
LEMMA SendKeeps ==
  ASSUME LinkType, NEW A, NEW B, Send(A, B)
  PROVE  LinkType'
BY DEF LinkType, Send, Opening

\* Taking a message from the mailbox.
LEMMA TakeMail ==
  ASSUME inbox \in Seq(Mail), inbox # <<>>, inbox' = Tail(inbox)
  PROVE  /\ Head(inbox) \in Mail /\ inbox' \in Seq(Mail)
         /\ Head(inbox).kind = "progress" =>
               Head(inbox).peer \in Peers /\ Head(inbox).event \in Events
                 /\ Head(inbox).target \in Peers
<1>1. Head(inbox) \in Mail /\ inbox' \in Seq(Mail)
  OBVIOUS
<1>2. Head(inbox).kind = "progress" =>
        Head(inbox) \in [kind : {"progress"}, peer : Peers, event : Events, target : Peers]
  BY <1>1 DEF Mail
<1> QED BY <1>1, <1>2

\* The report to mobile_runtime stays typed and never runs ahead.
LEMMA ReportKeeps ==
  ASSUME nb \in NeighborhoodState, nb' \in NeighborhoodState, reported \in OverallStages,
         Report(nb, nb')
  PROVE  reported' \in OverallStages /\ (reported <= nb.stage => reported' <= nb'.stage)
BY DEF Report, NeighborhoodState, OverallStages

---------------------------------------------------------------------------
(* The claim: types and ReadinessIsHonest.                                 *)

\* The invariant of the claim.
IInv == Types /\ ReadinessIsHonest

\* The Neighborhood's claim did not change, and the app was told no more than before.
LEMMA ClaimStays ==
  ASSUME IInv, SameClaim(nb, nb'), lease' = lease, reported' \in OverallStages,
         reported' <= reported
  PROVE  ReadinessIsHonest'
BY DEF IInv, Types, NbType, SameClaim, ReadinessIsHonest, NeighborhoodState, OverallStages

\* A report follows a claim that did not change or was taken back.
LEMMA ClaimIsReported ==
  ASSUME IInv, nb' \in NeighborhoodState, SameClaim(nb, nb') \/ nb'.stage # RouteFound,
         lease' = lease, Report(nb, nb')
  PROVE  reported' \in OverallStages /\ ReadinessIsHonest'
<1>1. reported' \in OverallStages /\ reported' <= nb'.stage
  BY ReportKeeps DEF IInv, Types, NbType, ReadinessIsHonest
<1> QED BY <1>1 DEF IInv, SameClaim, ReadinessIsHonest

\* The calls of mobile_runtime.
LEMMA RuntimeStep ==
  ASSUME Bounds, IInv,
         \/ \E list \in {Refreshed, Unparsable} : RetryConnection(list)
         \/ SendMinHops
         \/ LowerStage
  PROVE  IInv'
<1>1. \A kind \in {"start", "hops"} : Message(kind, "none") \in Mail
  BY DEF Message, Mail
<1>2. SameClaim(nb, nb') /\ lease' = lease /\ NbType' /\ LinkType'
  <2>1. UNCHANGED <<nb, link, lease>> /\ (events' = events \/ events' = events + 1)
    BY DEF RetryConnection, SendMinHops, LowerStage, External
  <2> QED BY <2>1 DEF IInv, Types, NbType, LinkType, SameClaim, NeighborhoodState
<1>3. CASE \E list \in {Refreshed, Unparsable} : RetryConnection(list)
  <2>1. /\ inbox' = Append(inbox, Message("start", "none")) /\ reported' = 0
        /\ events' \in 0 .. MaxEvents /\ pending' \in {<<>>, Refreshed, Unparsable}
        /\ UNCHANGED <<asks, hopsCall, disp>>
    BY <1>3 DEF RetryConnection, External, NotConnected, IInv, Types, Bounds
  <2>2. inbox' \in Seq(Mail)
    BY <1>1, <2>1 DEF IInv, Types
  <2>3. reported' \in OverallStages /\ reported' <= reported
    BY <2>1 DEF OverallStages, IInv, Types
  <2> QED BY <1>2, <2>1, <2>2, <2>3, ClaimStays DEF IInv, Types
<1>4. CASE SendMinHops
  <2>1. /\ inbox' = Append(inbox, Message("hops", "none")) /\ reported' = reported
        /\ events' \in 0 .. MaxEvents /\ hopsCall' \in BOOLEAN
        /\ UNCHANGED <<asks, pending, disp>>
    BY <1>4 DEF SendMinHops, External, IInv, Types, Bounds
  <2>2. inbox' \in Seq(Mail)
    BY <1>1, <2>1 DEF IInv, Types
  <2>3. reported' \in OverallStages /\ reported' <= reported
    BY <2>1 DEF OverallStages, IInv, Types
  <2> QED BY <1>2, <2>1, <2>2, <2>3, ClaimStays DEF IInv, Types
<1>5. CASE LowerStage
  <2>1. /\ hopsCall' \in BOOLEAN
        /\ UNCHANGED <<asks, pending, inbox, disp, events>>
    BY Zenon, <1>5 DEF LowerStage
  <2>2. reported' \in OverallStages /\ reported' <= reported
    BY <1>5 DEF LowerStage, OverallStages, IInv, Types
  <2> QED BY <1>2, <2>1, <2>2, ClaimStays DEF IInv, Types
<1> QED BY <1>3, <1>4, <1>5

\* What handle_start_message makes of the Neighborhood.
LEMMA RestartedKeeps ==
  ASSUME Bounds, Types
  PROVE  /\ Restarted \in NeighborhoodState /\ Restarted.generation = nb.generation
         /\ SameClaim(nb, Restarted) \/ Restarted.stage # RouteFound
         /\ \/ Restarted.progress = nb.progress
            \/ /\ DOMAIN Restarted.progress = DOMAIN nb.progress
               /\ \A i \in DOMAIN nb.progress :
                    Restarted.progress[i] = Progress(nb.progress[i].init)
            \/ /\ DOMAIN Restarted.progress = DOMAIN Refreshed
               /\ \A i \in DOMAIN Refreshed : Restarted.progress[i] = Progress(Refreshed[i])
<1> DEFINE n == [nb EXCEPT !.passed = {}]
<1>1. /\ n \in NeighborhoodState /\ n.generation = nb.generation /\ n.progress = nb.progress
      /\ n.stage = nb.stage /\ SameClaim(nb, n)
  BY Zenon DEF Types, NbType, NeighborhoodState, SameClaim
<1>2. \A p \in Peers : Progress(p) \in Attempt
  BY DEF Progress, Attempt, Stages
<1> HIDE DEF n
<1>3. CASE Restarted = n
  BY <1>1, <1>3
<1>4. CASE Restarted = Reset(n) /\ n.stage = NotConnected
  <2> DEFINE s == [i \in DOMAIN n.progress |-> Progress(n.progress[i].init)]
  <2>1. /\ s \in Seq(Attempt)
        /\ DOMAIN s = DOMAIN n.progress
        /\ \A i \in DOMAIN n.progress : s[i] = Progress(n.progress[i].init)
    <3>1. \A i \in DOMAIN n.progress : Progress(n.progress[i].init) \in Attempt
      BY <1>1, <1>2, Attempts DEF Attempt
    <3>2. Len(n.progress) \in Nat /\ DOMAIN n.progress = 1 .. Len(n.progress)
      BY <1>1, Attempts
    <3> QED BY <3>1, <3>2
  <2>2. Restarted = [n EXCEPT !.progress = s]
    BY <1>1, <1>4 DEF Reset, NeighborhoodState
  <2> HIDE DEF s
  <2>3. /\ Restarted \in NeighborhoodState /\ Restarted.generation = n.generation
        /\ Restarted.progress = s /\ Restarted.stage = n.stage
    BY <1>1, <2>1, <2>2 DEF NeighborhoodState, Attempt
  <2> QED BY <1>1, <1>4, <2>1, <2>3 DEF NotConnected, RouteFound
<1>5. CASE /\ pending = Refreshed
           /\ Restarted = [n EXCEPT !.progress = [i \in DOMAIN pending |-> Progress(pending[i])],
                                    !.topology = FALSE, !.stale = FALSE, !.failures = 0,
                                    !.stage = NotConnected]
  <2> DEFINE s == [i \in DOMAIN Refreshed |-> Progress(Refreshed[i])]
  <2>1. /\ s \in Seq(Attempt)
        /\ DOMAIN s = DOMAIN Refreshed
        /\ \A i \in DOMAIN Refreshed : s[i] = Progress(Refreshed[i])
    <3>1. Len(Refreshed) \in Nat /\ DOMAIN Refreshed = 1 .. Len(Refreshed)
      BY DEF Bounds
    <3>2. \A i \in DOMAIN Refreshed : Progress(Refreshed[i]) \in Attempt
      BY <1>2, <3>1 DEF Bounds
    <3> QED BY <3>1, <3>2
  <2>2. Restarted = [n EXCEPT !.progress = s, !.topology = FALSE, !.stale = FALSE,
                              !.failures = 0, !.stage = NotConnected]
    BY <1>5
  <2> HIDE DEF s
  <2>3. /\ Restarted.generation = n.generation /\ Restarted.progress = s
        /\ Restarted.stage = NotConnected
    BY <1>1, <2>2 DEF NeighborhoodState
  <2>4. Restarted \in NeighborhoodState
    <3>1. NotConnected \in OverallStages /\ 0 \in 0 .. Demotion
      BY DEF NotConnected, OverallStages, Bounds
    <3> QED BY Zenon, <1>1, <2>1, <2>2, <3>1 DEF NeighborhoodState, Attempt
  <2> QED BY <1>1, <2>1, <2>3, <2>4 DEF NotConnected, RouteFound
<1>6. CASE pending = Unparsable
  <2>1. pending # <<>>
    BY <1>6 DEF Unparsable
  <2> QED BY Zenon, <1>3, <1>6, <2>1 DEF Restarted, n
<1>7. CASE pending = <<>>
  <2>1. pending # Unparsable
    BY <1>7 DEF Unparsable
  <2>2. Restarted = IF n.stage = NotConnected THEN Reset(n) ELSE n
    BY SMTT(30), <1>7, <2>1 DEF Restarted, n
  <2> QED BY <1>3, <1>4, <2>2
<1>8. CASE pending # Unparsable /\ pending # <<>>
  BY Zenon, <1>5, <1>8 DEF Restarted, n, Types
<1> QED BY <1>6, <1>7, <1>8

\* handle_start_message keeps the claim honest.
LEMMA HandleStartStep == ASSUME Bounds, IInv, HandleStart PROVE IInv'
<1>1. /\ nb' \in NeighborhoodState /\ nb'.generation = nb.generation
      /\ SameClaim(nb, nb') \/ nb'.stage # RouteFound
  BY RestartedKeeps DEF HandleStart, IInv
<1>2. /\ Report(nb, nb') /\ pending' = <<>> /\ inbox' = Tail(inbox) /\ inbox # <<>>
      /\ UNCHANGED <<asks, lease, hopsCall, disp, events>>
  BY DEF HandleStart
<1>3. reported' \in OverallStages /\ ReadinessIsHonest'
  BY <1>1, <1>2, ClaimIsReported
<1>4. NbType' /\ LinkType' /\ inbox' \in Seq(Mail)
  BY <1>1, <1>2, TakeMail, SendKeeps DEF IInv, Types, NbType, HandleStart
<1> QED BY <1>2, <1>3, <1>4 DEF IInv, Types

\* A new route length takes a claim back.
LEMMA HandleMinHopsStep == ASSUME Bounds, IInv, HandleMinHops PROVE IInv'
<1> DEFINE stage == IF nb.stage = RouteFound THEN ConnectedToNeighbor ELSE nb.stage
           n == [nb EXCEPT !.topology = FALSE, !.stale = FALSE, !.stage = stage]
<1>1. stage \in OverallStages /\ stage # RouteFound
  BY DEF IInv, Types, NbType, NeighborhoodState, OverallStages, ConnectedToNeighbor, RouteFound
<1>2. nb' \in Search(n)
  BY DEF HandleMinHops
<1> HIDE DEF stage
<1>3. n \in NeighborhoodState /\ n.generation = nb.generation /\ n.stage = stage
  BY Zenon, <1>1 DEF IInv, Types, NbType, NeighborhoodState
<1> HIDE DEF n
<1>4. nb' \in NeighborhoodState /\ nb'.generation = nb.generation /\ nb'.stage # RouteFound
  BY <1>1, <1>2, <1>3, SearchKeeps DEF SameClaim
<1>5. /\ Report(nb, nb') /\ inbox' = Tail(inbox) /\ inbox # <<>>
      /\ UNCHANGED <<asks, lease, pending, hopsCall, disp, link, events>>
  BY DEF HandleMinHops
<1>6. reported' \in OverallStages /\ ReadinessIsHonest'
  BY <1>4, <1>5, ClaimIsReported
<1>7. NbType' /\ LinkType' /\ inbox' \in Seq(Mail)
  BY <1>4, <1>5, TakeMail DEF IInv, Types, NbType, LinkType
<1> QED BY <1>5, <1>6, <1>7 DEF IInv, Types

\* remove_neighbor, from either caller, keeps the attempts.
LEMMA RemoveNeighborKeeps ==
  ASSUME LinkType, NEW n \in NeighborhoodState, NEW p, RemoveNeighbor(n, p)
  PROVE  /\ nb' \in NeighborhoodState /\ nb'.generation = n.generation
         /\ nb'.progress = n.progress /\ LinkType'
         /\ nb' = n \/ nb'.stage # RouteFound
<1>1. CASE p \in n.half
  <2> DEFINE gone == [n EXCEPT !.half = @ \ {p}, !.full = @ \ {p}]
  <2>1. gone \in NeighborhoodState /\ gone.generation = n.generation /\ gone.progress = n.progress
    BY Zenon DEF NeighborhoodState
  <2>2. nb' \in InvalidateRoute(gone) /\ Send(gone.half, {})
    BY <1>1 DEF RemoveNeighbor
  <2> HIDE DEF gone
  <2> QED BY <2>1, <2>2, InvalidateRouteKeeps, SendKeeps
<1>2. CASE p \notin n.half
  BY <1>2 DEF RemoveNeighbor, LinkType
<1> QED BY <1>1, <1>2

\* A lost neighbor keeps the claim honest.
LEMMA HandleRemoveNeighborStep == ASSUME Bounds, IInv, HandleRemoveNeighbor PROVE IInv'
<1>1. /\ nb' \in NeighborhoodState /\ nb'.generation = nb.generation /\ LinkType'
      /\ nb' = nb \/ nb'.stage # RouteFound
  BY RemoveNeighborKeeps DEF HandleRemoveNeighbor, IInv, Types, NbType
<1>2. /\ Report(nb, nb') /\ inbox' = Tail(inbox) /\ inbox # <<>>
      /\ UNCHANGED <<asks, lease, pending, hopsCall, disp, events>>
  BY DEF HandleRemoveNeighbor
<1>3. reported' \in OverallStages /\ ReadinessIsHonest'
  BY <1>1, <1>2, ClaimIsReported DEF SameClaim
<1>4. NbType' /\ inbox' \in Seq(Mail)
  BY <1>1, <1>2, TakeMail DEF IInv, Types, NbType
<1> QED BY <1>1, <1>2, <1>3, <1>4 DEF IInv, Types

\* handle_stream_shutdown_msg: what the attempts and the claim become.
LEMMA StreamShutdownKeeps ==
  ASSUME Types, HandleStreamShutdown
  PROVE  /\ nb' \in NeighborhoodState /\ nb'.generation = nb.generation /\ LinkType'
         /\ SameClaim(nb, nb') \/ nb'.stage # RouteFound
         /\ LET i == AtPeer(nb, Head(inbox).peer)
            IN nb'.progress = UpdateStage(nb, i, "TcpConnectionFailed").progress
<1> DEFINE p == Head(inbox).peer
           i == AtPeer(nb, p)
           failed == UpdateStage(nb, i, "TcpConnectionFailed")
           active == \E j \in DOMAIN failed.progress :
                         failed.progress[j].stage = "NeighborshipEstablished"
           n == IF i # 0 /\ ~active
                THEN [failed EXCEPT !.stage = NotConnected] ELSE failed
<1>1. nb \in NeighborhoodState /\ i \in DOMAIN nb.progress \cup {0}
  BY AtPeerFinds DEF Types, NbType
<1>2. RemoveNeighbor(n, p)
  BY DEF HandleStreamShutdown
<1>3. SameClaim(nb, failed)
  BY <1>1, UpdateStageKeeps
<1> HIDE DEF active, failed, i
<1>4. CASE n = failed
  BY SMTT(30), <1>2, <1>3, <1>4, RemoveNeighborKeeps DEF SameClaim, Types, i, p, failed
<1>5. CASE n = [failed EXCEPT !.stage = NotConnected]
  <2>1. n \in NeighborhoodState /\ n.generation = failed.generation
        /\ n.progress = failed.progress /\ n.stage # RouteFound
    <3>1. NotConnected \in OverallStages /\ NotConnected # RouteFound
      BY DEF NotConnected, RouteFound, OverallStages
    <3> QED BY <1>3, <1>5, <3>1 DEF SameClaim, NeighborhoodState
  <2> HIDE DEF n
  <2> QED BY <1>2, <1>3, <2>1, RemoveNeighborKeeps DEF SameClaim, Types, i, p, failed
<1> QED BY <1>4, <1>5

\* A stream that ended keeps the claim honest.
LEMMA HandleStreamShutdownStep == ASSUME Bounds, IInv, HandleStreamShutdown PROVE IInv'
<1>1. /\ nb' \in NeighborhoodState /\ nb'.generation = nb.generation /\ LinkType'
      /\ SameClaim(nb, nb') \/ nb'.stage # RouteFound
  BY StreamShutdownKeeps DEF IInv
<1>2. /\ Report(nb, nb') /\ inbox' = Tail(inbox) /\ inbox # <<>>
      /\ UNCHANGED <<asks, lease, pending, hopsCall, disp, events>>
  BY DEF HandleStreamShutdown
<1>3. reported' \in OverallStages /\ ReadinessIsHonest'
  BY <1>1, <1>2, ClaimIsReported
<1>4. NbType' /\ inbox' \in Seq(Mail)
  BY <1>1, <1>2, TakeMail DEF IInv, Types, NbType
<1> QED BY <1>1, <1>2, <1>3, <1>4 DEF IInv, Types

\* Handler<ConnectionProgressMessage>: nothing happens, an attempt goes over to the
\* target of a Pass, or the stage of an attempt changes and a timer may be set.
Ignored == nb' = nb /\ asks' = asks
Passed(i, target) ==
    /\ target \in Peers \ PeersOf(nb) /\ asks' = asks
    /\ DOMAIN nb'.progress = DOMAIN nb.progress
    /\ nb'.progress[i].init = nb.progress[i].init /\ nb'.progress[i].peer = target
    /\ nb'.progress[i].stage = "StageZero"
    /\ \A j \in DOMAIN nb.progress \ {i} : nb'.progress[j] = nb.progress[j]
Advanced(i, stage) ==
    /\ SameAttempts(nb, nb') /\ nb'.progress[i].stage = stage
    /\ \A j \in DOMAIN nb.progress \ {i} : nb'.progress[j] = nb.progress[j]
    /\ \/ asks' = Append(asks, nb'.progress[i])
       \/ stage # "TcpConnectionEstablished" /\ asks' = asks

\* The stage an event stands for; a Pass stands for none.
LEMMA EventStages ==
  ASSUME NEW e \in Events
  PROVE  e = "PassGossipReceived" => EventStage(e) = e /\ EventStage(e) \notin Stages
BY DEF Events, EventStage, Stages, FailedStages

\* The handler does one of these, and keeps the types.
LEMMA HandleProgressKeeps ==
  ASSUME Types, HandleProgress
  PROVE  /\ nb' \in NeighborhoodState /\ nb'.generation = nb.generation
         /\ SameClaim(nb, nb') \/ nb'.stage # RouteFound
         /\ asks' \in Seq(Attempt)
         /\ \/ Ignored
            \/ \E i \in DOMAIN nb.progress : \E target \in Peers : Passed(i, target)
            \/ \E i \in DOMAIN nb.progress : \E stage \in Stages : Advanced(i, stage)
<1> DEFINE m == Head(inbox)
           i == AtPeer(nb, m.peer)
           pass == m.event = "PassGossipReceived"
           new == EventStage(m.event)
<1>1. /\ m \in Mail /\ m.peer \in Peers /\ m.event \in Events /\ m.target \in Peers
  BY TakeMail DEF HandleProgress, Types
<1>2. /\ nb \in NeighborhoodState /\ asks \in Seq(Attempt)
      /\ i # 0 => i \in DOMAIN nb.progress /\ nb.progress[i].peer = m.peer
  BY AtPeerFinds DEF Types, NbType
<1>3. CASE Ignored
  BY SMTT(30), <1>2, <1>3 DEF Ignored, SameClaim
<1>4. CASE /\ pass /\ ~PassIsRefused(nb, m.target) /\ i # 0
           /\ LET moved == [nb EXCEPT !.progress[i].peer = m.target,
                                      !.progress[i].stage = "StageZero"]
              IN /\ nb' = moved
                 /\ asks' = asks
  <2> DEFINE a == [[nb.progress[i] EXCEPT !.peer = m.target] EXCEPT !.stage = "StageZero"]
             s == [nb.progress EXCEPT ![i] = a]
  <2>1. /\ nb.progress \in Seq(Attempt) /\ nb.progress[i] \in Attempt
        /\ DOMAIN nb.progress = 1 .. Len(nb.progress) /\ i \in DOMAIN nb.progress
    BY <1>2, <1>4, Attempts
  <2>2. /\ a \in Attempt /\ a.init = nb.progress[i].init /\ a.peer = m.target
        /\ a.stage = "StageZero"
    BY Zenon, <1>1, <2>1 DEF Attempt, Stages
  <2> HIDE DEF a
  <2>3. /\ s \in Seq(Attempt) /\ DOMAIN s = DOMAIN nb.progress /\ s[i] = a
        /\ \A j \in DOMAIN nb.progress \ {i} : s[j] = nb.progress[j]
    BY <2>1, <2>2
  <2>4. nb' = [nb EXCEPT !.progress = s]
    BY Zenon, <1>2, <1>4, <2>1 DEF NeighborhoodState, a
  <2> HIDE DEF s
  <2>5. /\ nb' \in NeighborhoodState /\ nb'.progress = s /\ nb'.stage = nb.stage
        /\ nb'.generation = nb.generation /\ (nb'.stale <=> nb.stale)
    BY ZenonT(60), <1>2, <2>3, <2>4 DEF NeighborhoodState, Attempt
  <2>6. Passed(i, m.target)
    BY <1>1, <1>4, <2>2, <2>3, <2>5 DEF Passed, PassIsRefused
  <2>7. SameClaim(nb, nb')
    BY Zenon, <2>5 DEF SameClaim
  <2>8. asks' \in Seq(Attempt) /\ \E k \in DOMAIN nb.progress : \E target \in Peers : Passed(k, target)
    BY Zenon, <1>1, <1>2, <1>4, <2>1, <2>6
  <2> QED BY Zenon, <2>5, <2>7, <2>8
<1>5. CASE /\ ~pass /\ Applies(nb, i, new)
           /\ LET moved == UpdateStage(nb, i, new)
              IN /\ nb' = IF new = "NeighborshipEstablished" /\ nb.stage = NotConnected
                          THEN [moved EXCEPT !.stage = ConnectedToNeighbor] ELSE moved
                 /\ asks' = IF \/ new = "TcpConnectionEstablished"
                               \/ new \in FailedStages /\ nb.stage = NotConnected
                            THEN Ask(moved, m.peer) ELSE asks
  <2> DEFINE moved == UpdateStage(nb, i, new)
  <2>1. /\ SameClaim(nb, moved) /\ SameAttempts(nb, moved) /\ i \in DOMAIN nb.progress
        /\ new \in Stages /\ moved.progress[i].stage = new
        /\ \A j \in DOMAIN nb.progress \ {i} : moved.progress[j] = nb.progress[j]
    BY SMTT(30), <1>2, <1>5, UpdateStageKeeps
  <2>2. AtPeer(moved, m.peer) = i
    BY SMTT(30), <2>1, AtPeerStays
  <2>3. /\ nb' = moved \/ nb' = [moved EXCEPT !.stage = ConnectedToNeighbor]
        /\ \/ asks' = Append(asks, moved.progress[i])
           \/ new # "TcpConnectionEstablished" /\ asks' = asks
    BY <1>5, <2>2 DEF Ask
  <2> HIDE DEF moved, i, new
  <2>4. moved \in NeighborhoodState
    BY <2>1 DEF SameClaim
  <2>5. /\ nb' \in NeighborhoodState /\ nb'.generation = moved.generation
        /\ nb'.progress = moved.progress
        /\ nb' = moved \/ nb'.stage # RouteFound
    <3>1. ConnectedToNeighbor \in OverallStages /\ ConnectedToNeighbor # RouteFound
      BY DEF ConnectedToNeighbor, RouteFound, OverallStages
    <3> QED BY <2>3, <2>4, <3>1 DEF NeighborhoodState
  <2>6. Advanced(i, new)
    BY <2>1, <2>3, <2>5 DEF Advanced, SameAttempts
  <2>7. asks' \in Seq(Attempt)
    <3>1. moved.progress[i] \in Attempt
      BY <2>1, <2>4, Attempts DEF SameAttempts
    <3> QED BY <1>2, <2>3, <3>1
  <2> QED BY SMTT(30), <2>1, <2>5, <2>6, <2>7 DEF SameClaim
<1>6. pass => new # "TcpConnectionEstablished" /\ new \notin FailedStages
              /\ new # "NeighborshipEstablished"
  BY <1>1, EventStages DEF Stages
<1> HIDE DEF new
<1>7. CASE pass
  BY SMTT(30), <1>3, <1>4, <1>6, <1>7 DEF HandleProgress, Ignored, new
<1>8. CASE ~pass
  BY <1>3, <1>5, <1>8 DEF HandleProgress, Ignored, new
<1> QED BY <1>7, <1>8

\* The progress of an attempt keeps the claim honest.
LEMMA HandleProgressStep == ASSUME Bounds, IInv, HandleProgress PROVE IInv'
<1>1. /\ nb' \in NeighborhoodState /\ nb'.generation = nb.generation
      /\ SameClaim(nb, nb') \/ nb'.stage # RouteFound
      /\ asks' \in Seq(Attempt)
  BY HandleProgressKeeps DEF IInv
<1>2. /\ Report(nb, nb') /\ inbox' = Tail(inbox) /\ inbox # <<>>
      /\ UNCHANGED <<lease, pending, hopsCall, disp, link, events>>
  BY DEF HandleProgress
<1>3. reported' \in OverallStages /\ ReadinessIsHonest'
  BY <1>1, <1>2, ClaimIsReported
<1>4. NbType' /\ LinkType' /\ inbox' \in Seq(Mail)
  BY SMTT(30), <1>1, <1>2, TakeMail DEF IInv, Types, NbType, LinkType
<1> QED BY <1>1, <1>2, <1>3, <1>4 DEF IInv, Types

---------------------------------------------------------------------------
(* Timers.                                                                 *)

\* No two attempts began at the same peer.
InitsDiffer ==
    \A i, j \in DOMAIN nb.progress : nb.progress[i].init = nb.progress[j].init => i = j

\* AskAboutDebutGossipMessage: the attempt was silent, it goes back to its entry
\* node, or nothing happens to it; the other timers run on.
Silenced(i) ==
    /\ nb.progress[i] = Head(asks)
    /\ SameAttempts(nb, nb') /\ nb'.progress[i].stage = "NoGossipResponseReceived"
    /\ \A j \in DOMAIN nb.progress \ {i} : nb'.progress[j] = nb.progress[j]
    /\ \E a \in Attempt : asks' = Append(Tail(asks), a)
Retried(i) ==
    /\ nb.progress[i] = Head(asks) /\ asks' = Tail(asks)
    /\ DOMAIN nb'.progress = DOMAIN nb.progress
    /\ nb'.progress[i] = Progress(nb.progress[i].init)
    /\ \A j \in DOMAIN nb.progress \ {i} :
          /\ nb'.progress[j] = nb.progress[j]
          /\ nb.progress[j].init # nb.progress[i].init =>
                nb.progress[j].peer # nb.progress[i].init
Expired ==
    /\ nb' = nb
    /\ asks' = Tail(asks) \/ \E a \in Attempt : asks' = Append(Tail(asks), a)
    /\ InitsDiffer => \A j \in DOMAIN nb.progress :
                         nb.progress[j] = Head(asks) =>
                           nb.progress[j].stage # "TcpConnectionEstablished"

\* The handler of a timer does one of these, and keeps the claim.
LEMMA FireAskKeeps ==
  ASSUME Types, FireAsk
  PROVE  /\ SameClaim(nb, nb') /\ LinkType' /\ asks # <<>>
         /\ \/ \E i \in DOMAIN nb.progress : Silenced(i) \/ Retried(i)
            \/ Expired
<1> DEFINE old == Head(asks)
           i == IF \E j \in DOMAIN nb.progress : nb.progress[j].init = old.init
                THEN CHOOSE j \in DOMAIN nb.progress : nb.progress[j].init = old.init
                ELSE 0
           current == i # 0 /\ nb.progress[i] = old
           inUse == \E j \in DOMAIN nb.progress :
                        /\ nb.progress[j].init # old.init
                        /\ nb.progress[j].peer = old.init
           silent == UpdateStage(nb, i, "NoGossipResponseReceived")
           later(n) == Append(Tail(asks), n.progress[AtPeer(n, old.peer)])
<1>1. /\ nb \in NeighborhoodState /\ SameClaim(nb, nb) /\ asks # <<>> /\ old \in Attempt
      /\ 0 \notin DOMAIN nb.progress
  <2>1. nb \in NeighborhoodState /\ SameClaim(nb, nb)
    BY SMTT(30) DEF Types, NbType, SameClaim
  <2>2. asks # <<>> /\ asks \in Seq(Attempt)
    BY Zenon DEF FireAsk, Types
  <2> QED BY <2>1, <2>2, Attempts
<1>2. /\ i # 0 => i \in DOMAIN nb.progress /\ nb.progress[i].init = old.init
      /\ \A j \in DOMAIN nb.progress : nb.progress[j].init = old.init => i # 0
  BY <1>1
<1> HIDE DEF i
<1>3. InitsDiffer => \A j \in DOMAIN nb.progress : nb.progress[j] = old => current
  BY <1>1, <1>2 DEF InitsDiffer
<1>4. CASE /\ current /\ old.stage = "TcpConnectionEstablished"
           /\ nb' = silent /\ asks' = later(silent) /\ link' = link
  <2>1. Applies(nb, i, "NoGossipResponseReceived") /\ i \in DOMAIN nb.progress
    BY <1>2, <1>4 DEF Applies, Valid, FailedStages
  <2>2. /\ SameClaim(nb, nb') /\ SameAttempts(nb, nb')
        /\ nb'.progress[i].stage = "NoGossipResponseReceived"
        /\ \A j \in DOMAIN nb.progress \ {i} : nb'.progress[j] = nb.progress[j]
    BY SMTT(30), <1>1, <1>4, <2>1, UpdateStageKeeps
  <2>3. nb'.progress[AtPeer(nb', old.peer)] \in Attempt
    <3>1. nb' \in NeighborhoodState /\ i \in DOMAIN nb'.progress /\ nb'.progress[i].peer = old.peer
      BY SMTT(30), <1>4, <2>1, <2>2 DEF SameClaim, SameAttempts
    <3> QED BY <3>1, AtPeerFinds, Attempts
  <2>4. Silenced(i)
    BY <1>4, <2>2, <2>3 DEF Silenced
  <2> QED BY SMTT(30), <1>1, <1>4, <2>1, <2>2, <2>4 DEF Types, LinkType
<1>5. CASE /\ current /\ old.stage \in FailedStages
           /\ nb' = nb /\ asks' = later(nb) /\ link' = link
  <2>1. nb.progress[AtPeer(nb, old.peer)] \in Attempt
    BY SMTT(30), <1>1, <1>2, <1>5, AtPeerFinds, Attempts
  <2>2. Expired
    BY <1>5, <2>1 DEF Expired, FailedStages
  <2> QED BY <1>1, <1>5, <2>2 DEF Types, LinkType
<1>6. CASE /\ current /\ ~inUse /\ nb' = RetryInitialNode(nb, i)
           /\ asks' = Tail(asks) /\ Send({}, {old.init})
  <2> DEFINE a == Progress(nb.progress[i].init)
             s == [nb.progress EXCEPT ![i] = a]
  <2>1. /\ i \in DOMAIN nb.progress /\ nb.progress \in Seq(Attempt)
        /\ nb.progress[i] \in Attempt /\ DOMAIN nb.progress = 1 .. Len(nb.progress)
    BY SMTT(30), <1>1, <1>2, <1>6, Attempts
  <2>2. a \in Attempt
    BY <2>1 DEF Attempt, Progress, Stages
  <2>3. /\ s \in Seq(Attempt) /\ DOMAIN s = DOMAIN nb.progress /\ s[i] = a
        /\ \A j \in DOMAIN nb.progress \ {i} : s[j] = nb.progress[j]
    BY <2>1, <2>2
  <2>4. nb' = [nb EXCEPT !.progress = s]
    BY <1>1, <1>6 DEF RetryInitialNode, NeighborhoodState
  <2> HIDE DEF s
  <2>5. /\ nb' \in NeighborhoodState /\ nb'.progress = s /\ nb'.stage = nb.stage
        /\ nb'.generation = nb.generation /\ (nb'.stale <=> nb.stale)
    BY SMTT(30), <1>1, <2>3, <2>4 DEF NeighborhoodState, Attempt
  <2>6. Retried(i)
    BY <1>6, <2>3, <2>5 DEF Retried
  <2>7. LinkType'
    BY <1>6, SendKeeps DEF Types
  <2> QED BY SMTT(30), <1>1, <2>1, <2>5, <2>6, <2>7 DEF SameClaim
<1>7. CASE /\ ~(current /\ old.stage = "TcpConnectionEstablished")
           /\ nb' = nb /\ asks' = Tail(asks) /\ link' = link
  <2>1. Expired
    BY SMTT(30), <1>3, <1>7 DEF Expired
  <2> QED BY <1>1, <1>7, <2>1 DEF Types, LinkType
<1> HIDE DEF current, inUse, silent, later
<1>8. \/ current /\ old.stage = "TcpConnectionEstablished"
         /\ nb' = silent /\ asks' = later(silent) /\ link' = link
      \/ current /\ old.stage \in FailedStages
         /\ nb' = nb /\ asks' = later(nb) /\ link' = link
      \/ current /\ ~inUse /\ nb' = RetryInitialNode(nb, i)
         /\ asks' = Tail(asks) /\ Send({}, {old.init})
      \/ ~(current /\ old.stage = "TcpConnectionEstablished")
         /\ nb' = nb /\ asks' = Tail(asks) /\ link' = link
  BY Zenon DEF FireAsk, i, current, inUse, silent, later, FailedStages
<1> QED BY SMTT(30), <1>4, <1>5, <1>6, <1>7, <1>8

\* A debut timer keeps the claim honest.
LEMMA FireAskStep == ASSUME Bounds, IInv, FireAsk PROVE IInv'
<1>1. /\ SameClaim(nb, nb') /\ LinkType' /\ asks # <<>>
      /\ asks' = Tail(asks) \/ \E a \in Attempt : asks' = Append(Tail(asks), a)
  BY SMTT(30), FireAskKeeps DEF IInv, Silenced, Retried, Expired
<1>2. UNCHANGED <<lease, reported, pending, hopsCall, inbox, disp, events>>
  BY Zenon DEF FireAsk, mobile
<1>3. asks' \in Seq(Attempt)
  <2>1. Tail(asks) \in Seq(Attempt)
    BY <1>1 DEF IInv, Types
  <2> QED BY <1>1, <2>1
<1>4. reported' \in OverallStages /\ reported' <= reported
  BY <1>2 DEF IInv, Types, OverallStages
<1>5. ReadinessIsHonest'
  BY <1>1, <1>2, <1>4, ClaimStays
<1>6. NbType'
  BY <1>1, <1>2 DEF SameClaim, NbType, IInv, Types
<1> QED BY SMTT(30), <1>1, <1>2, <1>3, <1>5, <1>6 DEF IInv, Types

\* The readiness timer takes back the claim it was set for, and an old timer finds
\* no claim.
LEMMA FireLeaseStep == ASSUME Bounds, IInv, FireLease PROVE IInv'
<1>1. /\ Report(nb, nb') /\ lease' = 0 /\ lease # 0
      /\ UNCHANGED <<asks, pending, hopsCall, inbox, disp, link, events>>
  BY DEF FireLease
<1>2. /\ nb' \in NeighborhoodState /\ nb'.generation = nb.generation
      /\ nb'.stage # RouteFound /\ nb'.progress = nb.progress
  <2>1. CASE lease = nb.generation /\ nb.stage = RouteFound
    <3>1. Fallback(nb) \in OverallStages /\ Fallback(nb) # RouteFound
      BY DEF Fallback, NotConnected, ConnectedToNeighbor, RouteFound, OverallStages
    <3>2. nb' = [nb EXCEPT !.stale = TRUE, !.stage = Fallback(nb)]
      BY <2>1 DEF FireLease
    <3> QED BY Zenon, <3>1, <3>2 DEF IInv, Types, NbType, NeighborhoodState
  <2>2. CASE ~(lease = nb.generation /\ nb.stage = RouteFound)
    BY <2>2 DEF FireLease, IInv, Types, NbType, ReadinessIsHonest
  <2> QED BY <2>1, <2>2
<1>3. reported' \in OverallStages /\ reported' <= nb'.stage
  BY <1>1, <1>2, ReportKeeps DEF IInv, Types, NbType, ReadinessIsHonest
<1>4. ReadinessIsHonest'
  BY <1>2, <1>3 DEF ReadinessIsHonest
<1>5. NbType' /\ LinkType' /\ lease' \in 0 .. MaxEvents
  BY <1>1, <1>2 DEF IInv, Types, NbType, LinkType, Bounds
<1> QED BY <1>1, <1>3, <1>4, <1>5 DEF IInv, Types

---------------------------------------------------------------------------
(* Reports of the ProxyServer.                                             *)

\* A route that worked is a new claim with a new timer.
LEMMA RouteUseSucceededStep == ASSUME Bounds, IInv, RouteUseSucceeded PROVE IInv'
<1> DEFINE g == nb.generation + 1
           yes == TRUE
           no == FALSE
<1>1. /\ nb \in NeighborhoodState /\ g \in 1 .. MaxEvents /\ g <= events'
      /\ events' \in 0 .. MaxEvents
  BY DEF RouteUseSucceeded, External, IInv, Types, NbType, NeighborhoodState, Bounds
<1>2. /\ nb' = [nb EXCEPT !.failures = 0, !.topology = yes, !.stale = no,
                          !.generation = g, !.stage = RouteFound]
      /\ Report(nb, nb') /\ lease' = nb'.generation
      /\ UNCHANGED <<asks, pending, hopsCall, inbox, disp, link>>
  BY DEF RouteUseSucceeded
<1>3. yes \in BOOLEAN /\ no \in BOOLEAN /\ ~no
  OBVIOUS
<1>4. /\ RouteFound \in OverallStages /\ g \in 0 .. MaxEvents /\ 0 \in 0 .. Demotion
      /\ g # 0
  BY <1>1 DEF RouteFound, OverallStages, Bounds
<1> HIDE DEF g, yes, no
<1>5. nb' \in NeighborhoodState
  BY Zenon, <1>1, <1>2, <1>3, <1>4 DEF NeighborhoodState
<1>6. /\ nb'.generation = g /\ nb'.stage = RouteFound /\ ~nb'.stale
  BY <1>1, <1>2, <1>3 DEF NeighborhoodState
<1>7. reported' \in OverallStages /\ reported' <= nb'.stage
  BY <1>1, <1>2, <1>5, ReportKeeps DEF IInv, Types, ReadinessIsHonest
<1>8. ReadinessIsHonest'
  BY <1>2, <1>4, <1>6, <1>7 DEF ReadinessIsHonest
<1>9. NbType' /\ LinkType'
  BY <1>1, <1>2, <1>5, <1>6 DEF IInv, Types, NbType, LinkType
<1> QED BY SMTT(30), <1>1, <1>2, <1>4, <1>6, <1>7, <1>8, <1>9 DEF IInv, Types

\* Failures demote the claim.
LEMMA RouteUseFailedStep == ASSUME Bounds, IInv, RouteUseFailed PROVE IInv'
<1> DEFINE f == IF nb.failures < Demotion THEN nb.failures + 1 ELSE nb.failures
           n == [nb EXCEPT !.failures = f]
<1>1. nb \in NeighborhoodState /\ f \in 0 .. Demotion
  BY DEF IInv, Types, NbType, NeighborhoodState, Bounds
<1>2. /\ nb' = IF n.failures < Demotion \/ n.stage # RouteFound THEN n
               ELSE [n EXCEPT !.topology = FALSE, !.stale = FALSE, !.stage = Fallback(n)]
      /\ Report(nb, nb')
      /\ UNCHANGED <<asks, lease, pending, hopsCall, inbox, disp, link, events>>
  BY DEF RouteUseFailed
<1> HIDE DEF f
<1>3. SameClaim(nb, n) /\ n.progress = nb.progress
  BY <1>1 DEF SameClaim, NeighborhoodState
<1> HIDE DEF n
<1>4. Fallback(n) \in OverallStages /\ Fallback(n) # RouteFound
  BY DEF Fallback, NotConnected, ConnectedToNeighbor, RouteFound, OverallStages
<1>5. /\ nb' \in NeighborhoodState /\ nb'.generation = nb.generation
      /\ nb' = n \/ nb'.stage # RouteFound
  BY ZenonT(60), <1>2, <1>3, <1>4 DEF SameClaim, NeighborhoodState
<1>6. reported' \in OverallStages /\ ReadinessIsHonest'
  BY <1>2, <1>3, <1>5, ClaimIsReported
<1>7. NbType' /\ LinkType'
  BY <1>2, <1>5 DEF IInv, Types, NbType, LinkType
<1> QED BY <1>2, <1>6, <1>7 DEF IInv, Types

---------------------------------------------------------------------------
(* Gossip and streams.                                                     *)

\* What the GossipAcceptor answers leaves claim and attempts alone.
LEMMA OutcomeKeeps ==
  ASSUME Types, NEW p \in Peers,
         NEW o \in UNION {DebutBack(p), Introduction(p), StandardGossip(p), PassLoop(p), Pass(p)}
  PROVE  SameClaim(nb, o.n) /\ o.n.progress = nb.progress /\ o.queued \in Seq(Mail)
<1>1. nb \in NeighborhoodState
  BY DEF Types, NbType
<1>2. <<>> \in Seq(Mail) /\ \A m \in Mail : <<m>> \in Seq(Mail)
  OBVIOUS
<1>3. \A e \in Events, q \in Peers : <<Event(p, e, q)>> \in Seq(Mail)
  BY <1>2 DEF Event, Mail
<1>4. ASSUME NEW half \in SUBSET Peers, NEW full \in SUBSET Peers,
             NEW m, m = [nb EXCEPT !.half = half, !.full = full]
      PROVE  SameClaim(nb, m) /\ m.progress = nb.progress
  BY Zenon, <1>1, <1>4 DEF SameClaim, NeighborhoodState
<1>5. nb.half \in SUBSET Peers /\ nb.full \in SUBSET Peers /\ nb.passed \in SUBSET Peers
  BY <1>1 DEF NeighborhoodState
<1>6. SameClaim(nb, nb)
  BY <1>1 DEF SameClaim
<1>7. PeersOf(nb) \subseteq Peers
  BY <1>1, Attempts DEF PeersOf, Attempt
<1>8. CASE o \in DebutBack(p)
  <2>1. o = Outcome([nb EXCEPT !.half = nb.half \cup {p}, !.full = nb.full \cup {p}], TRUE, {}, <<>>)
    BY Zenon, <1>8 DEF DebutBack
  <2>2. /\ o.n = [nb EXCEPT !.half = nb.half \cup {p}, !.full = nb.full \cup {p}]
        /\ o.queued = <<>>
    BY <2>1 DEF Outcome
  <2>3. nb.half \cup {p} \in SUBSET Peers /\ nb.full \cup {p} \in SUBSET Peers
    BY <1>5
  <2> QED BY ZenonT(60), <1>2, <1>4, <2>2, <2>3
<1>9. CASE o \in Introduction(p)
  <2>1. PICK new \in BOOLEAN, q \in Peers :
          o = Outcome(IF new THEN [nb EXCEPT !.half = nb.half \cup {p}, !.full = nb.full \cup {p}]
                      ELSE nb,
                      new, {q}, <<Event(p, "IntroductionGossipReceived", q)>>)
    BY <1>9 DEF Introduction
  <2>2. /\ o.n = IF new THEN [nb EXCEPT !.half = nb.half \cup {p}, !.full = nb.full \cup {p}]
                 ELSE nb
        /\ o.queued = <<Event(p, "IntroductionGossipReceived", q)>>
    BY <2>1 DEF Outcome
  <2>3. o.queued \in Seq(Mail)
    BY <1>3, <2>2 DEF Events
  <2>4. nb.half \cup {p} \in SUBSET Peers /\ nb.full \cup {p} \in SUBSET Peers
    BY SMTT(30), <1>5
  <2> QED BY ZenonT(60), <1>4, <1>6, <2>2, <2>3, <2>4
<1>10. CASE o \in StandardGossip(p)
  <2>1. PICK lists \in BOOLEAN :
          o = Outcome([nb EXCEPT !.half = nb.half \cup {p},
                          !.full = IF lists THEN nb.full \cup {p} ELSE nb.full \ {p}],
                      TRUE, {}, IF lists /\ p \notin nb.full
                                THEN <<Event(p, "StandardGossipReceived", p)>> ELSE <<>>)
    BY Zenon, <1>10 DEF StandardGossip
  <2> DEFINE full == IF lists THEN nb.full \cup {p} ELSE nb.full \ {p}
  <2>2. /\ o.n = [nb EXCEPT !.half = nb.half \cup {p}, !.full = full]
        /\ o.queued = IF lists /\ p \notin nb.full
                      THEN <<Event(p, "StandardGossipReceived", p)>> ELSE <<>>
    BY <2>1 DEF Outcome
  <2>3. full \in SUBSET Peers /\ nb.half \cup {p} \in SUBSET Peers
    BY <1>5
  <2>4. o.queued \in Seq(Mail)
    BY <1>2, <1>3, <2>2 DEF Events
  <2> HIDE DEF full
  <2> QED BY ZenonT(60), <1>4, <2>2, <2>3, <2>4
<1>11. CASE o \in PassLoop(p)
  <2>1. PICK q \in Peers : o = Outcome(nb, FALSE, {}, <<Event(p, "PassLoopFound", q)>>)
    BY Zenon, <1>5, <1>7, <1>11 DEF PassLoop
  <2>2. o.n = nb /\ o.queued = <<Event(p, "PassLoopFound", q)>>
    BY <2>1 DEF Outcome
  <2> QED BY <1>3, <1>6, <2>2 DEF Events
<1>12. CASE o \in Pass(p)
  <2>1. PICK q \in Peers : o = Outcome([nb EXCEPT !.passed = nb.passed \cup {q}], FALSE, {q},
                                       <<Event(p, "PassGossipReceived", q)>>)
    BY Zenon, <1>5, <1>12 DEF Pass
  <2>2. /\ o.n = [nb EXCEPT !.passed = nb.passed \cup {q}]
        /\ o.queued = <<Event(p, "PassGossipReceived", q)>>
    BY <2>1 DEF Outcome
  <2>3. SameClaim(nb, o.n) /\ o.n.progress = nb.progress
    BY <1>1, <1>5, <2>2 DEF SameClaim, NeighborhoodState
  <2> QED BY <1>3, <2>2, <2>3 DEF Events
<1> QED BY <1>8, <1>9, <1>10, <1>11, <1>12

\* Gossip leaves claim and attempts alone.
LEMMA ReceiveGossipKeeps ==
  ASSUME Types, NEW p \in Peers, ReceiveGossip(p)
  PROVE  SameClaim(nb, nb') /\ nb'.progress = nb.progress /\ inbox' \in Seq(Mail) /\ LinkType'
<1>1. PICK o \in UNION {DebutBack(p), Introduction(p), StandardGossip(p), PassLoop(p), Pass(p)} :
         /\ nb' \in CheckConnectedness(o.n)
         /\ Send(IF o.accepted THEN o.n.half ELSE {}, o.debuts)
         /\ inbox' = inbox \o o.queued
  BY DEF ReceiveGossip
<1>2. SameClaim(nb, o.n) /\ o.n.progress = nb.progress /\ o.queued \in Seq(Mail)
  BY OutcomeKeeps
<1>3. SameClaim(o.n, nb') /\ nb'.progress = o.n.progress
  BY SMTT(30), <1>1, <1>2, SearchKeeps DEF SameClaim
<1>4. LinkType' /\ inbox' \in Seq(Mail)
  BY SMTT(30), <1>1, <1>2, SendKeeps DEF Types
<1> QED BY SMTT(30), <1>2, <1>3, <1>4 DEF SameClaim

\* A refused debut changes one stage at most.
LEMMA ReceiveRefusalKeeps ==
  ASSUME Types, NEW p \in Peers, NEW manual \in BOOLEAN, ReceiveRefusal(p, manual)
  PROVE  /\ SameClaim(nb, nb') /\ asks' \in Seq(Attempt)
         /\ Ignored \/ \E i \in DOMAIN nb.progress : Advanced(i, "DebutRejected")
<1> DEFINE i == AtPeer(nb, p)
           applied == /\ i # 0
                      /\ nb.progress[i].stage \in {"StageZero", "TcpConnectionEstablished"}
           refused == UpdateStage(nb, i, "DebutRejected")
<1>1. /\ nb \in NeighborhoodState /\ asks \in Seq(Attempt) /\ SameClaim(nb, nb)
      /\ i # 0 => i \in DOMAIN nb.progress
  BY AtPeerFinds DEF Types, NbType, SameClaim
<1>2. CASE applied
  <2>1. Applies(nb, i, "DebutRejected")
    BY <1>2 DEF Applies, Valid, FailedStages
  <2>2. /\ SameClaim(nb, refused) /\ SameAttempts(nb, refused) /\ i \in DOMAIN nb.progress
        /\ refused.progress[i].stage = "DebutRejected"
        /\ \A j \in DOMAIN nb.progress \ {i} : refused.progress[j] = nb.progress[j]
    BY SMTT(30), <1>1, <2>1, UpdateStageKeeps
  <2>3. AtPeer(refused, p) = i
    BY SMTT(30), <2>2, AtPeerStays
  <2>4. /\ nb' = refused
        /\ asks' = Append(asks, refused.progress[i]) \/ asks' = asks
    BY <1>2, <2>3 DEF ReceiveRefusal, Ask
  <2> HIDE DEF refused, i
  <2>5. Advanced(i, "DebutRejected")
    BY <2>2, <2>4 DEF Advanced
  <2>6. refused.progress[i] \in Attempt
    BY <2>2, Attempts DEF SameClaim, SameAttempts
  <2>7. asks' \in Seq(Attempt)
    BY SMTT(30), <1>1, <2>4, <2>6
  <2> QED BY SMTT(30), <2>2, <2>4, <2>5, <2>7
<1>3. CASE ~applied
  BY <1>1, <1>3 DEF ReceiveRefusal, Ignored
<1> QED BY <1>2, <1>3

\* Gossip and refusals keep the claim honest.
LEMMA GossipStep ==
  ASSUME Bounds, IInv, NEW p \in Peers,
         ReceiveGossip(p) \/ \E manual \in BOOLEAN : ReceiveRefusal(p, manual)
  PROVE  IInv'
<1>1. External /\ UNCHANGED <<lease, reported, pending, hopsCall, disp>>
  BY DEF ReceiveGossip, ReceiveRefusal, mobile
<1>2. SameClaim(nb, nb') /\ asks' \in Seq(Attempt) /\ inbox' \in Seq(Mail) /\ LinkType'
  <2>1. CASE ReceiveGossip(p)
    BY Zenon, <2>1, ReceiveGossipKeeps DEF IInv, Types, ReceiveGossip
  <2>2. CASE \E manual \in BOOLEAN : ReceiveRefusal(p, manual)
    BY <2>2, ReceiveRefusalKeeps DEF IInv, Types, ReceiveRefusal, LinkType
  <2> QED BY SMTT(30), <2>1, <2>2
<1>3. reported' \in OverallStages /\ reported' <= reported
  BY <1>1 DEF IInv, Types, OverallStages
<1>4. ReadinessIsHonest'
  BY SMTT(30), <1>1, <1>2, <1>3, ClaimStays
<1>5. NbType' /\ events' \in 0 .. MaxEvents
  BY <1>1, <1>2 DEF SameClaim, NbType, IInv, Types, External, Bounds, NeighborhoodState
<1> QED BY SMTT(30), <1>1, <1>2, <1>3, <1>4, <1>5 DEF IInv, Types

\* The StreamHandlerPool and the Dispatcher keep the claim honest.
LEMMA StreamStep ==
  ASSUME Bounds, IInv,
         \/ Dispatch
         \/ \E p \in Peers : ConnectSucceeds(p) \/ ConnectFails(p) \/ StreamEnds(p)
  PROVE  IInv'
<1>1. /\ UNCHANGED <<nb, asks, lease, reported, pending, hopsCall>>
      /\ events' = events \/ External
  BY Zenon DEF Dispatch, ConnectSucceeds, ConnectFails, StreamEnds, mobile
<1>2. events' \in 0 .. MaxEvents /\ events' >= events
  BY <1>1 DEF External, IInv, Types, Bounds
<1>3. NbType' /\ SameClaim(nb, nb')
  BY <1>1, <1>2 DEF IInv, Types, NbType, SameClaim, NeighborhoodState
<1>4. reported' \in OverallStages /\ reported' <= reported
  BY <1>1 DEF IInv, Types, OverallStages
<1>5. ReadinessIsHonest'
  BY <1>1, <1>3, <1>4, ClaimStays
<1>6. inbox' \in Seq(Mail) /\ disp' \in Seq(Shutdowns) /\ LinkType'
  <2>1. inbox \in Seq(Mail) /\ disp \in Seq(Shutdowns) /\ LinkType /\ Shutdowns \subseteq Mail
    BY DEF IInv, Types, Shutdowns, Mail
  <2>2. CASE Dispatch
    <3>1. Head(disp) \in Shutdowns /\ Tail(disp) \in Seq(Shutdowns)
      BY SMTT(30), <2>1, <2>2 DEF Dispatch
    <3> QED BY SMTT(30), <2>1, <2>2, <3>1 DEF Dispatch, LinkType
  <2>3. ASSUME NEW p \in Peers
        PROVE  /\ \A e \in Events : Event(p, e, p) \in Mail
               /\ Message("remove", p) \in Mail /\ Message("shutdown", p) \in Shutdowns
    BY DEF Event, Message, Mail, Shutdowns
  <2>4. ASSUME NEW p \in Peers, ConnectSucceeds(p)
        PROVE  inbox' \in Seq(Mail) /\ disp' \in Seq(Shutdowns) /\ LinkType'
    <3>1. Event(p, "TcpConnectionSuccessful", p) \in Mail
      BY <2>3 DEF Events
    <3> QED BY SMTT(30), <2>1, <2>4, <3>1 DEF ConnectSucceeds, LinkType
  <2>5. ASSUME NEW p \in Peers, ConnectFails(p)
        PROVE  inbox' \in Seq(Mail) /\ disp' \in Seq(Shutdowns) /\ LinkType'
    <3> DEFINE removes == IF link[p] = "openingByKey" THEN <<Message("remove", p)>> ELSE <<>>
               failed == <<Event(p, "TcpConnectionFailed", p)>>
    <3>1. removes \in Seq(Mail) /\ failed \in Seq(Mail)
      BY SMTT(30), <2>3 DEF Events
    <3>2. inbox' = (inbox \o removes) \o failed
      BY <2>5 DEF ConnectFails
    <3> HIDE DEF removes, failed
    <3>3. inbox' \in Seq(Mail)
      <4>1. inbox \o removes \in Seq(Mail)
        BY <2>1, <3>1
      <4> HIDE DEF removes
      <4> QED BY <3>1, <3>2, <4>1
    <3>4. disp' = Append(disp, Message("shutdown", p)) /\ link' = [link EXCEPT ![p] = "absent"]
      BY <2>5 DEF ConnectFails
    <3>5. LinkType'
      BY <2>1, <3>4 DEF LinkType
    <3>6. disp' \in Seq(Shutdowns)
      BY <2>1, <2>3, <3>4
    <3> QED BY <3>3, <3>5, <3>6
  <2>6. ASSUME NEW p \in Peers, StreamEnds(p)
        PROVE  inbox' \in Seq(Mail) /\ disp' \in Seq(Shutdowns) /\ LinkType'
    BY SMTT(30), <2>1, <2>3, <2>6 DEF StreamEnds, LinkType
  <2> QED BY SMTT(30), <2>2, <2>4, <2>5, <2>6
<1> QED BY SMTT(30), <1>1, <1>2, <1>3, <1>4, <1>5, <1>6 DEF IInv, Types

---------------------------------------------------------------------------
\* The invariant holds when the Node starts.
LEMMA InitInv == ASSUME Bounds, ContactInit PROVE IInv
<1> DEFINE s == [i \in DOMAIN Entry |-> Progress(Entry[i])]
<1>1. s \in Seq(Attempt)
  <2>1. Len(Entry) \in Nat /\ DOMAIN Entry = 1 .. Len(Entry)
    BY DEF Bounds
  <2>2. \A i \in DOMAIN Entry : Progress(Entry[i]) \in Attempt
    BY SMTT(30), <2>1 DEF Bounds, Progress, Attempt, Stages
  <2> QED BY <2>1, <2>2
<1>2. nb = [stage |-> NotConnected, progress |-> s, topology |-> FALSE, failures |-> 0,
            generation |-> 0, stale |-> FALSE, half |-> {}, full |-> {}, passed |-> {}]
  BY Zenon DEF ContactInit
<1> HIDE DEF s
<1>3. NbType /\ nb.stage = 0
  BY <1>1, <1>2 DEF NbType, ContactInit, NeighborhoodState, Attempt, NotConnected, OverallStages, Bounds
<1>4. <<Message("start", "none")>> \in Seq(Mail) /\ <<>> \in Seq(Shutdowns) /\ <<>> \in Seq(Attempt)
  BY DEF Message, Mail
<1>5. LinkType
  BY DEF LinkType, ContactInit
<1>6. ReadinessIsHonest
  BY <1>3 DEF ReadinessIsHonest, ContactInit, NotConnected, RouteFound
<1>7. /\ lease \in 0 .. MaxEvents /\ events \in 0 .. MaxEvents /\ reported \in OverallStages
      /\ pending \in {<<>>, Refreshed, Unparsable}
  BY DEF ContactInit, NotConnected, OverallStages, Bounds
<1>8. hopsCall \in BOOLEAN
  BY ZenonT(60) DEF ContactInit
<1> QED BY SMTT(30), <1>3, <1>4, <1>5, <1>6, <1>7, <1>8 DEF IInv, Types, ContactInit

\* The invariant is inductive.
LEMMA StepInv == ASSUME Bounds, IInv, [ContactNext]_contactVars PROVE IInv'
<1>1. CASE ContactNext
  BY <1>1, RuntimeStep, HandleStartStep, HandleMinHopsStep, HandleProgressStep,
     HandleRemoveNeighborStep, HandleStreamShutdownStep, StreamStep, FireAskStep,
     FireLeaseStep, RouteUseSucceededStep, RouteUseFailedStep, GossipStep DEF ContactNext, Handlers
<1>2. CASE UNCHANGED contactVars
  BY <1>2 DEF contactVars, mobile, IInv, Types, NbType, LinkType, ReadinessIsHonest
<1> QED BY <1>1, <1>2

\* The variables of the Neighborhood, its timers and its mailboxes keep to their values.
THEOREM TypedContact == ContactSpec => []ContactTypeOK
<1>0. Bounds
  BY ContactAssumption DEF Bounds
<1>1. ContactInit => IInv
  BY <1>0, InitInv
<1>2. IInv /\ [ContactNext]_contactVars => IInv'
  BY <1>0, StepInv
<1>3. IInv => ContactTypeOK
  <2> SUFFICES ASSUME IInv PROVE ContactTypeOK
    OBVIOUS
  <2>1. \A i \in DOMAIN asks : asks[i].stage \in Stages
    <3>1. asks \in Seq(Attempt)
      BY DEF IInv, Types
    <3>2. \A i \in DOMAIN asks : asks[i] \in Attempt
      BY SMTT(30), <3>1
    <3> QED BY <3>2 DEF Attempt
  <2> QED BY <2>1 DEF IInv, Types, NbType, LinkType, ContactTypeOK
<1> QED BY <1>1, <1>2, <1>3, PTL DEF ContactSpec

\* The claim that a route works is a lease whose timer is set for this very claim,
\* and what the app reads never runs ahead of it, whatever retries, hop changes,
\* losses of neighbors and late reports of the proxy race.
THEOREM HonestReadiness == ContactSpec => []ReadinessIsHonest
<1>0. Bounds
  BY ContactAssumption DEF Bounds
<1>1. ContactInit => IInv
  BY <1>0, InitInv
<1>2. IInv /\ [ContactNext]_contactVars => IInv'
  BY <1>0, StepInv
<1>3. IInv => ReadinessIsHonest
  BY DEF IInv
<1> QED BY <1>1, <1>2, <1>3, PTL DEF ContactSpec

---------------------------------------------------------------------------
(* The attempts: AttemptsAreWatched.                                       *)

\* The inductive form of AttemptsAreWatched.
Watch == InitsDiffer /\ AttemptsAreWatched

\* Only stages changed, and what is now connected has a timer of its own.
LEMMA WatchFrame ==
  ASSUME Watch, SameAttempts(nb, nb'),
         \A i \in DOMAIN nb.progress :
            nb'.progress[i].stage = "TcpConnectionEstablished" =>
              \E k \in DOMAIN asks' : asks'[k] = nb'.progress[i]
  PROVE  Watch'
BY DEF Watch, InitsDiffer, AttemptsAreWatched, SameAttempts

\* A timer that was set is still set after Append.
LEMMA StillSet ==
  ASSUME asks \in Seq(Attempt), asks' = asks \/ \E a \in Attempt : asks' = Append(asks, a)
  PROVE  \A k \in DOMAIN asks : k \in DOMAIN asks' /\ asks'[k] = asks[k]
<1>1. CASE asks' = asks
  BY <1>1
<1>2. ASSUME NEW a \in Attempt, asks' = Append(asks, a)
      PROVE  \A k \in DOMAIN asks : k \in DOMAIN asks' /\ asks'[k] = asks[k]
  BY <1>2
<1> QED BY <1>1, <1>2

\* Firing drops the first timer only.
LEMMA TailSet ==
  ASSUME asks \in Seq(Attempt), asks # <<>>,
         asks' = Tail(asks) \/ \E a \in Attempt : asks' = Append(Tail(asks), a)
  PROVE  \A k \in DOMAIN asks : asks[k] # Head(asks) => \E l \in DOMAIN asks' : asks'[l] = asks[k]
<1>1. /\ Tail(asks) \in Seq(Attempt) /\ Len(asks) \in Nat /\ DOMAIN asks = 1 .. Len(asks)
      /\ Len(Tail(asks)) = Len(asks) - 1 /\ DOMAIN Tail(asks) = 1 .. Len(asks) - 1
      /\ Head(asks) = asks[1]
      /\ \A l \in 1 .. Len(asks) - 1 : Tail(asks)[l] = asks[l + 1]
  OBVIOUS
<1>2. \A l \in DOMAIN Tail(asks) : l \in DOMAIN asks' /\ asks'[l] = Tail(asks)[l]
  <2>1. CASE asks' = Tail(asks)
    BY <2>1
  <2>2. ASSUME NEW a \in Attempt, asks' = Append(Tail(asks), a)
        PROVE  \A l \in DOMAIN Tail(asks) : l \in DOMAIN asks' /\ asks'[l] = Tail(asks)[l]
    <3> DEFINE t == Tail(asks)
    <3>1. t \in Seq(Attempt) /\ asks' = Append(t, a)
      BY Zenon, <1>1, <2>2
    <3> HIDE DEF t
    <3>2. \A l \in DOMAIN t : l \in DOMAIN asks' /\ asks'[l] = t[l]
      BY SMTT(30), <3>1
    <3> QED BY SMTT(30), <3>2 DEF t
  <2> QED BY <2>1, <2>2
<1>3. ASSUME NEW k \in DOMAIN asks, asks[k] # Head(asks)
      PROVE  \E l \in DOMAIN asks' : asks'[l] = asks[k]
  <2>1. k - 1 \in 1 .. Len(asks) - 1 /\ (k - 1) + 1 = k
    BY <1>1, <1>3
  <2>2. Tail(asks)[k - 1] = asks[k] /\ k - 1 \in DOMAIN Tail(asks)
    BY <1>1, <2>1
  <2> QED BY <1>2, <2>2
<1> QED BY <1>3

\* A changed stage of one attempt.
LEMMA AdvancedWatch ==
  ASSUME Types, Watch, NEW i \in DOMAIN nb.progress, NEW stage, Advanced(i, stage),
         nb' \in NeighborhoodState
  PROVE  Watch'
<1>1. asks \in Seq(Attempt) /\ nb'.progress[i] \in Attempt
  BY Attempts DEF Types, Advanced, SameAttempts
<1>2. \A k \in DOMAIN asks : k \in DOMAIN asks' /\ asks'[k] = asks[k]
  BY <1>1, StillSet DEF Advanced
<1>3. stage = "TcpConnectionEstablished" => \E k \in DOMAIN asks' : asks'[k] = nb'.progress[i]
  <2>1. CASE asks' = Append(asks, nb'.progress[i])
    <3>1. Len(asks) + 1 \in DOMAIN asks' /\ asks'[Len(asks) + 1] = nb'.progress[i]
      BY SMTT(30), <1>1, <2>1
    <3> QED BY <3>1
  <2> QED BY <2>1 DEF Advanced
<1>4. ASSUME NEW j \in DOMAIN nb.progress, nb'.progress[j].stage = "TcpConnectionEstablished"
      PROVE  \E k \in DOMAIN asks' : asks'[k] = nb'.progress[j]
  <2>1. CASE j = i
    BY SMTT(30), <1>3, <1>4, <2>1 DEF Advanced
  <2>2. CASE j # i
    BY SMTT(30), <1>2, <1>4, <2>2 DEF Advanced, Watch, AttemptsAreWatched
  <2> QED BY <2>1, <2>2
<1> QED BY <1>4, WatchFrame DEF Advanced

\* An attempt that gets its stream gets its timer; a Pass leads to a free peer.
LEMMA HandleProgressWatch == ASSUME Types, Watch, HandleProgress PROVE Watch'
<1>1. CASE Ignored
  BY <1>1 DEF Ignored, Watch, InitsDiffer, AttemptsAreWatched
<1>2. ASSUME NEW i \in DOMAIN nb.progress, NEW target \in Peers, Passed(i, target)
      PROVE  Watch'
  <2>1. \A j \in DOMAIN nb.progress : nb.progress[j].peer # target
    BY <1>2 DEF Passed, PeersOf
  <2>2. InitsDiffer'
    BY <1>2 DEF Passed, Watch, InitsDiffer
  <2>3. AttemptsAreWatched'
    BY <1>2, <2>1 DEF Passed, Watch, AttemptsAreWatched
  <2> QED BY <2>2, <2>3 DEF Watch
<1>3. ASSUME NEW i \in DOMAIN nb.progress, NEW stage \in Stages, Advanced(i, stage)
      PROVE  Watch'
  BY <1>3, AdvancedWatch, HandleProgressKeeps
<1> QED BY SMTT(30), <1>1, <1>2, <1>3, HandleProgressKeeps

\* A timer ends the attempt it watches; a retry goes back to a free peer.
LEMMA FireAskWatch == ASSUME Types, Watch, FireAsk PROVE Watch'
<1>1. asks \in Seq(Attempt) /\ asks # <<>>
  BY SMTT(30), FireAskKeeps DEF Types
<1>2. ASSUME NEW i \in DOMAIN nb.progress, Silenced(i) PROVE Watch'
  <2>1. \A k \in DOMAIN asks : asks[k] # Head(asks) => \E l \in DOMAIN asks' : asks'[l] = asks[k]
    BY SMTT(30), <1>1, <1>2, TailSet DEF Silenced
  <2>2. \A j \in DOMAIN nb.progress \ {i} : nb.progress[j] # Head(asks)
    BY <1>2 DEF Silenced, Watch, InitsDiffer
  <2> QED BY SMTT(30), <1>2, <2>1, <2>2, WatchFrame DEF Silenced, Watch, AttemptsAreWatched
<1>3. ASSUME NEW i \in DOMAIN nb.progress, Retried(i) PROVE Watch'
  <2>1. \A k \in DOMAIN asks : asks[k] # Head(asks) => \E l \in DOMAIN asks' : asks'[l] = asks[k]
    BY SMTT(30), <1>1, <1>3, TailSet DEF Retried
  <2>2. \A j \in DOMAIN nb.progress \ {i} : /\ nb.progress[j] # Head(asks)
                                            /\ nb.progress[j].init # nb.progress[i].init
                                            /\ nb.progress[j].peer # nb.progress[i].init
    BY <1>3 DEF Retried, Watch, InitsDiffer
  <2>3. /\ nb'.progress[i].init = nb.progress[i].init
        /\ nb'.progress[i].peer = nb.progress[i].init
        /\ nb'.progress[i].stage = "StageZero"
    BY <1>3 DEF Retried, Progress
  <2>4. InitsDiffer'
    BY SMTT(30), <1>3, <2>3 DEF Retried, Watch, InitsDiffer
  <2>5. AttemptsAreWatched'
    BY SMTT(30), <1>3, <2>1, <2>2, <2>3 DEF Retried, Watch, AttemptsAreWatched
  <2> QED BY <2>4, <2>5 DEF Watch
<1>4. CASE Expired
  <2>1. \A k \in DOMAIN asks : asks[k] # Head(asks) => \E l \in DOMAIN asks' : asks'[l] = asks[k]
    BY SMTT(30), <1>1, <1>4, TailSet DEF Expired
  <2>2. SameAttempts(nb, nb')
    BY <1>4 DEF Expired, SameAttempts
  <2> QED BY SMTT(30), <1>4, <2>1, <2>2, WatchFrame DEF Expired, Watch, AttemptsAreWatched
<1> QED BY SMTT(30), <1>2, <1>3, <1>4, FireAskKeeps

\* Attempts that all begin again, at peers that differ.
LEMMA FreshWatch ==
  ASSUME NEW peers, DOMAIN nb'.progress = DOMAIN peers,
         \A i \in DOMAIN peers : nb'.progress[i] = Progress(peers[i]),
         \A i, j \in DOMAIN peers : peers[i] = peers[j] => i = j
  PROVE  Watch'
<1>1. ASSUME NEW i \in DOMAIN peers
      PROVE  /\ nb'.progress[i].init = peers[i] /\ nb'.progress[i].peer = peers[i]
             /\ nb'.progress[i].stage # "TcpConnectionEstablished"
  <2>1. nb'.progress[i] = Progress(peers[i])
    OBVIOUS
  <2> QED BY <2>1 DEF Progress
<1> QED BY <1>1 DEF Watch, InitsDiffer, AttemptsAreWatched

\* A restart begins at peers that differ.
LEMMA HandleStartWatch ==
  ASSUME Bounds, ListsAreDistinct, Types, Watch, HandleStart PROVE Watch'
<1>1. /\ asks' = asks
      /\ \/ nb'.progress = nb.progress
         \/ /\ DOMAIN nb'.progress = DOMAIN nb.progress
            /\ \A i \in DOMAIN nb.progress : nb'.progress[i] = Progress(nb.progress[i].init)
         \/ /\ DOMAIN nb'.progress = DOMAIN Refreshed
            /\ \A i \in DOMAIN Refreshed : nb'.progress[i] = Progress(Refreshed[i])
  BY RestartedKeeps DEF HandleStart
<1>2. CASE nb'.progress = nb.progress
  BY <1>1, <1>2 DEF Watch, InitsDiffer, AttemptsAreWatched
<1>3. CASE /\ DOMAIN nb'.progress = DOMAIN nb.progress
           /\ \A i \in DOMAIN nb.progress : nb'.progress[i] = Progress(nb.progress[i].init)
  <2> DEFINE peers == [i \in DOMAIN nb.progress |-> nb.progress[i].init]
  <2>1. /\ DOMAIN peers = DOMAIN nb.progress
        /\ \A i \in DOMAIN peers : nb'.progress[i] = Progress(peers[i])
        /\ \A i, j \in DOMAIN peers : peers[i] = peers[j] => i = j
    BY <1>3 DEF Watch, InitsDiffer
  <2> HIDE DEF peers
  <2> QED BY SMTT(30), <1>3, <2>1, FreshWatch
<1>4. CASE /\ DOMAIN nb'.progress = DOMAIN Refreshed
           /\ \A i \in DOMAIN Refreshed : nb'.progress[i] = Progress(Refreshed[i])
  BY SMTT(30), <1>4, FreshWatch DEF ListsAreDistinct
<1> QED BY SMTT(30), <1>1, <1>2, <1>3, <1>4

\* A stream that ended leaves its attempt without need of a timer.
LEMMA HandleStreamShutdownWatch ==
  ASSUME Types, Watch, HandleStreamShutdown PROVE Watch'
<1> DEFINE i == AtPeer(nb, Head(inbox).peer)
           m == UpdateStage(nb, i, "TcpConnectionFailed")
<1>1. nb'.progress = m.progress /\ asks' = asks
  BY StreamShutdownKeeps DEF HandleStreamShutdown
<1>2. nb \in NeighborhoodState /\ i \in DOMAIN nb.progress \cup {0}
  BY SMTT(30), AtPeerFinds DEF Types, NbType
<1>3. /\ SameAttempts(nb, m)
      /\ \A j \in DOMAIN nb.progress :
            m.progress[j].stage = "TcpConnectionEstablished" => m.progress[j] = nb.progress[j]
  BY SMTT(30), <1>2, UpdateStageKeeps
<1> HIDE DEF m
<1> QED BY SMTT(30), <1>1, <1>3, WatchFrame DEF SameAttempts, Watch, AttemptsAreWatched

\* Every other step leaves the attempts and the timers alone.
LEMMA QuietWatch ==
  ASSUME Watch, nb'.progress = nb.progress, asks' = asks PROVE Watch'
BY DEF Watch, InitsDiffer, AttemptsAreWatched

\* Watch is inductive.
LEMMA StepWatch ==
  ASSUME Bounds, ListsAreDistinct, IInv, Watch, [ContactNext]_contactVars PROVE Watch'
<1>1. Types
  BY DEF IInv
<1>2. CASE HandleStart \/ HandleProgress \/ HandleStreamShutdown \/ FireAsk
  BY SMTT(30), <1>1, <1>2, HandleStartWatch, HandleProgressWatch, HandleStreamShutdownWatch, FireAskWatch
<1>3. ASSUME NEW p \in Peers, NEW manual \in BOOLEAN, ReceiveRefusal(p, manual) PROVE Watch'
  <2>1. CASE Ignored
    BY <2>1, QuietWatch DEF Ignored
  <2>2. ASSUME NEW i \in DOMAIN nb.progress, Advanced(i, "DebutRejected") PROVE Watch'
    BY SMTT(30), <1>1, <1>3, <2>2, ReceiveRefusalKeeps, AdvancedWatch DEF SameClaim
  <2> QED BY SMTT(30), <1>1, <1>3, <2>1, <2>2, ReceiveRefusalKeeps
<1>4. ASSUME NEW p \in Peers, ReceiveGossip(p) PROVE Watch'
  BY SMTT(30), <1>1, <1>4, ReceiveGossipKeeps, QuietWatch DEF ReceiveGossip
<1>5. CASE HandleRemoveNeighbor
  BY SMTT(30), <1>1, <1>5, RemoveNeighborKeeps, QuietWatch DEF HandleRemoveNeighbor, Types, NbType
<1>6. CASE HandleMinHops \/ FireLease \/ RouteUseSucceeded \/ RouteUseFailed
  <2>1. asks' = asks
    BY <1>6 DEF HandleMinHops, FireLease, RouteUseSucceeded, RouteUseFailed
  <2>2. nb'.progress = nb.progress
    <3>1. nb \in NeighborhoodState
      BY <1>1 DEF Types, NbType
    <3>2. CASE HandleMinHops
      <4> DEFINE stage == IF nb.stage = RouteFound THEN ConnectedToNeighbor ELSE nb.stage
                 n == [nb EXCEPT !.topology = FALSE, !.stale = FALSE, !.stage = stage]
      <4>1. nb' \in Search(n) /\ stage \in OverallStages
        BY <3>1, <3>2 DEF HandleMinHops, NeighborhoodState, OverallStages, ConnectedToNeighbor
      <4> HIDE DEF stage
      <4>2. n \in NeighborhoodState /\ n.progress = nb.progress
        BY Zenon, <3>1, <4>1 DEF NeighborhoodState
      <4> HIDE DEF n
      <4> QED BY <4>1, <4>2, SearchKeeps
    <3>3. CASE FireLease
      BY <3>1, <3>3 DEF FireLease, NeighborhoodState
    <3>4. CASE RouteUseSucceeded
      BY <3>1, <3>4 DEF RouteUseSucceeded, NeighborhoodState
    <3>5. CASE RouteUseFailed
      BY <3>1, <3>5 DEF RouteUseFailed, NeighborhoodState
    <3> QED BY SMTT(30), <1>6, <3>2, <3>3, <3>4, <3>5
  <2> QED BY <2>1, <2>2, QuietWatch
<1>7. CASE UNCHANGED <<nb, asks>>
  BY SMTT(30), <1>7, QuietWatch
<1>8. CASE \/ \E list \in {Refreshed, Unparsable} : RetryConnection(list)
           \/ SendMinHops \/ LowerStage \/ Dispatch
           \/ \E p \in Peers : ConnectSucceeds(p) \/ ConnectFails(p) \/ StreamEnds(p)
  BY Zenon, <1>7, <1>8 DEF RetryConnection, SendMinHops, LowerStage, Dispatch, ConnectSucceeds,
     ConnectFails, StreamEnds
<1> QED BY SMTT(30), <1>2, <1>3, <1>4, <1>5, <1>6, <1>7, <1>8 DEF ContactNext, Handlers, contactVars

\* No two attempts are at the same peer, and every attempt whose stream is open has
\* a timer with its snapshot, so that silence ends it, for entry lists that name an
\* address once.
THEOREM WatchedAttempts ==
  ASSUME ListsAreDistinct PROVE ContactSpec => []AttemptsAreWatched
<1>0. Bounds
  BY ContactAssumption DEF Bounds
<1>1. ContactInit => IInv /\ Watch
  <2> SUFFICES ASSUME ContactInit PROVE Watch
    BY <1>0, InitInv
  <2>1. /\ DOMAIN nb.progress = DOMAIN Entry
        /\ \A i \in DOMAIN Entry : nb.progress[i] = Progress(Entry[i])
    BY DEF ContactInit
  <2>2. ASSUME NEW i \in DOMAIN Entry
        PROVE  /\ nb.progress[i].init = Entry[i] /\ nb.progress[i].peer = Entry[i]
               /\ nb.progress[i].stage # "TcpConnectionEstablished"
    <3>1. nb.progress[i] = Progress(Entry[i])
      BY <2>1
    <3> QED BY <3>1 DEF Progress
  <2> QED BY <2>1, <2>2 DEF Watch, InitsDiffer, AttemptsAreWatched, ListsAreDistinct
<1>2. IInv /\ Watch /\ [ContactNext]_contactVars => IInv' /\ Watch'
  BY <1>0, StepInv, StepWatch
<1>3. Watch => AttemptsAreWatched
  BY DEF Watch
<1> QED BY <1>1, <1>2, <1>3, PTL DEF ContactSpec
=============================================================================
