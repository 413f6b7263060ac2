--------------------------- MODULE ReceiptSession ---------------------------
(***************************************************************************)
(* The paying side of the service receipts: the ReceiptSessionManager of   *)
(* the ProxyServer, its encrypted recovery store and the deferred offers.  *)
(* What happens to an acknowledgement afterwards is module ReceiptOutbox.  *)
(*                                                                         *)
(* A wallet signs one authorization (a cap and an expiry).  Every stream   *)
(* gets a route epoch; the exit and the relays of the route send signed    *)
(* offers with cumulative charges; the manager acknowledges an offer only  *)
(* if it matches the oldest traffic it has observed and the cap.           *)
(*                                                                         *)
(* The operations of the manager are functions from its state to the SET   *)
(* of states it may end in, because every write to the store may fail.     *)
(* Offers are any signed receipt at any time: providers that repeat,       *)
(* reorder, lose, delay or miscount their offers are all included.         *)
(***************************************************************************)
EXTENDS Integers, Sequences, FiniteSets, FiniteSetsExt, SequencesExt

CONSTANTS
    Streams,          \* stream keys
    Exits, Relays,    \* provider public keys, disjoint
    RequestRelays,    \* relays on the way out, a subset of Relays
    ResponseRelays,   \* relays on the way back, a subset of Relays
    Rates,            \* the rates [service, byte] a receipt may carry
    Quote,            \* the rate each provider has advertised
    Sizes,            \* payload sizes
    Cap,              \* max_total_charge_wei of every authorization
    OfferedCharges,   \* bound: cumulative charges of the offers
    MaxRoutes,        \* MAX_RECEIPT_SESSION_ROUTES
    MaxObserved,      \* MAX_PENDING_RECEIPT_RESPONSES_PER_ROUTE
    MaxDeferred,      \* MAX_PENDING_RECEIPT_OFFERS
    MaxAuths,         \* bound: proposals
    MaxEpochs,        \* bound: route epochs ever drawn
    MaxSequence,      \* bound: response sequence numbers
    MaxRequests,      \* bound: requests not yet answered, per route
    MaxFaults,        \* bound: failed writes of the recovery store
    MaxCrashes        \* bound: Node restarts

Providers == Exits \cup Relays
None == "none"
NoQuote == [provider |-> None]
NoPayload == [auth |-> 0]
NoSession == [auth |-> 0]
NoRoute == [epoch |-> 0]
NoCheckpoint == [seq |-> -1, cum |-> 0]

VARIABLES
    mgr,          \* [pending, active, store, usable, faults]
    expired,      \* authorizations whose window has passed
    nextAuth,     \* the next authorization nonce
    nextEpoch,    \* the next route epoch the random generator draws
    admitted,     \* response_sequence_replay_window of each stream
    dead,         \* streams whose connection a restart has cut
    deferred,     \* pending_receipt_offers, at most one per epoch
    crashes,
    released,     \* history: acknowledgements the manager has returned
    seen          \* history: traffic observed, by epoch

vars == <<mgr, expired, nextAuth, nextEpoch, admitted, dead, deferred,
          crashes, released, seen>>

Epochs == 1 .. MaxEpochs

----------------------------------------------------------------------------
(* Receipts and checkpoints.                                               *)

checked_charge_wei(rate, units, size) == rate.service * units + rate.byte * size

ReceiptCharge(r) == checked_charge_wei(r.rate, r.units, r.size)

(* ReceiptSequenceCheckpoint::begin: the first cumulative charge is the    *)
(* charge of the receipt itself.                                           *)
begin(cp, r) ==
    IF r.cum = ReceiptCharge(r) THEN {[seq |-> r.seq, cum |-> r.cum]} ELSE {}

advance(cp, r) ==
    IF r.seq > cp.seq /\ r.cum = cp.cum + ReceiptCharge(r)
    THEN {[seq |-> r.seq, cum |-> r.cum]}
    ELSE {}

Advanced(cp, r) == IF cp = NoCheckpoint THEN begin(cp, r) ELSE advance(cp, r)

----------------------------------------------------------------------------
(* The manager.  m is its state; every operator returns the possible next  *)
(* states.                                                                 *)

After(ms, Op(_)) == UNION {Op(m) : m \in ms}

(* store.clear(), if there is a store: both tables in one transaction, or  *)
(* an error.                                                               *)
clear(m) ==
    IF ~m.usable THEN {m}
    ELSE {[m EXCEPT !.store = NoSession]}
             \cup IF m.faults > 0 THEN {[m EXCEPT !.faults = @ - 1]} ELSE {}

(* revoke_after_persistence_error: the session is dropped and the outcome  *)
(* of the clean-up is ignored.                                             *)
revoke_after_persistence_error(m) ==
    IF m.faults > 0
    THEN clear([m EXCEPT !.active = NoSession, !.faults = @ - 1])
    ELSE {}

persist_header(m) ==
    {[m EXCEPT !.store = [m.active EXCEPT !.routes = [s \in Streams |-> NoRoute]]]}
        \cup revoke_after_persistence_error(m)

(* save_header_and_route: the header and one route in one transaction.     *)
persist_route(m, s) ==
    {[m EXCEPT !.store.auth = m.active.auth,
               !.store.spent = m.active.spent,
               !.store.routes[s] = m.active.routes[s]]}
        \cup revoke_after_persistence_error(m)

(* status(): every operation first drops an expired session.               *)
status(m) ==
    IF m.active.auth \in expired THEN clear([m EXCEPT !.active = NoSession]) ELSE {m}

Live(m) == m.active # NoSession

HasRoute(m, s) == Live(m) /\ m.active.routes[s] # NoRoute

RouteCount(m) == Cardinality({s \in Streams : m.active.routes[s] # NoRoute})

NoRelayState == [observed |-> <<>>, cp |-> NoCheckpoint, ack |-> NoPayload]

route_state(epoch) ==
    [epoch |-> epoch, exit |-> NoQuote, observed |-> <<>>, reqSize |-> 0, reqUnits |-> 0,
     cp |-> NoCheckpoint, ack |-> NoPayload, routed |-> FALSE,
     relay |-> [r \in Relays |-> NoRelayState]]

SetRoute(m, s, route) == persist_route([m EXCEPT !.active.routes[s] = route], s)

bind_exit_quote(m, s, p) ==
    IF HasRoute(m, s) /\ m.active.routes[s].exit = NoQuote
    THEN SetRoute(m, s, [m.active.routes[s] EXCEPT
                            !.exit = [provider |-> p, rate |-> Quote[p]]])
    ELSE {m}

bind_routing_quotes(m, s) ==
    IF HasRoute(m, s) /\ ~m.active.routes[s].routed /\ Relays # {}
    THEN SetRoute(m, s, [m.active.routes[s] EXCEPT !.routed = TRUE])
    ELSE {m}

(* A fresh epoch for a stream, new or rotated, within the route limit;     *)
(* request_for_stream does the same for a stream without a route.          *)
rotate_route_for_stream(m, s, epoch) ==
    IF Live(m) /\ (m.active.routes[s] # NoRoute \/ RouteCount(m) < MaxRoutes)
    THEN SetRoute(m, s, route_state(epoch))
    ELSE {m}
record_exit_request(m, s, size) ==
    IF HasRoute(m, s)
    THEN SetRoute(m, s, [m.active.routes[s] EXCEPT !.reqSize = @ + size, !.reqUnits = @ + 1])
    ELSE {m}

record_routing_payload(m, s, relays, size) ==
    IF /\ HasRoute(m, s)
       /\ m.active.routes[s].routed
       /\ \A r \in relays : Len(m.active.routes[s].relay[r].observed) < MaxObserved
    THEN SetRoute(m, s,
             [m.active.routes[s] EXCEPT
                 !.relay = [r \in Relays |->
                     IF r \in relays THEN [@[r] EXCEPT !.observed = Append(@, size)]
                                     ELSE @[r]]])
    ELSE {m}

Observable(m, s, q) ==
    /\ HasRoute(m, s)
    /\ q > m.active.routes[s].cp.seq
    /\ Len(m.active.routes[s].observed) < MaxObserved
    /\ \A i \in DOMAIN m.active.routes[s].observed : m.active.routes[s].observed[i].seq # q

response_keeps_requests(m, s, q, size) ==
    IF Observable(m, s, q)
    THEN LET route == m.active.routes[s] IN
         SetRoute(m, s, [route EXCEPT
             !.observed = Append(@, [seq |-> q, size |-> route.reqSize + size,
                                     units |-> route.reqUnits + 1])])
    ELSE {m}

(* record_exit_response: the response and every request since the last one *)
(* become one observation.                                                 *)
record_exit_response(m, s, q, size) ==
    IF Observable(m, s, q)
    THEN LET route == m.active.routes[s] IN
         SetRoute(m, s, [route EXCEPT
             !.observed = Append(@, [seq |-> q, size |-> route.reqSize + size,
                                     units |-> route.reqUnits + 1]),
             !.reqSize = 0, !.reqUnits = 0])
    ELSE {m}
----------------------------------------------------------------------------
(* Acknowledging an offer.  An offer is a signed receipt                   *)
(* [epoch, provider, seq, size, units, rate, cum]; the payload that        *)
(* answers it adds the authorization and the payer's signature.            *)

streams_of_any_epoch(m, epoch) == {s \in Streams : HasRoute(m, s)}

StreamsOf(m, epoch) == {s \in Streams : HasRoute(m, s) /\ m.active.routes[s].epoch = epoch}

Slot(route, p) == IF p \in Relays THEN route.relay[p] ELSE route

QuoteUnavailable(route, p) == IF p \in Relays THEN ~route.routed ELSE route.exit = NoQuote

(* The receipt describes the oldest observation that is not acknowledged.  *)
MatchesObservation(route, o) ==
    LET slot == Slot(route, o.provider) IN
    /\ slot.observed # <<>>
    /\ IF o.provider \in Relays
       THEN /\ o.rate = Quote[o.provider]
            /\ o.seq = IF slot.cp = NoCheckpoint THEN 1 ELSE slot.cp.seq + 1
            /\ o.size = Head(slot.observed)
            /\ o.units = 1
       ELSE /\ [provider |-> o.provider, rate |-> o.rate] = route.exit
            /\ [seq |-> o.seq, size |-> o.size, units |-> o.units] = Head(slot.observed)

Charged(route, p, cp, payload) ==
    LET slot == [Slot(route, p) EXCEPT !.cp = cp, !.ack = payload, !.observed = Tail(@)] IN
    IF p \in Relays THEN [route EXCEPT !.relay[p] = slot] ELSE slot

Refused(m) == {[m |-> m, answer |-> "refused", payload |-> NoPayload]}

charge_without_cap(m, s, o, cp) ==
    LET payload == [auth |-> m.active.auth, receipt |-> o]
        charged == [m EXCEPT !.active.spent = @ + cp.cum - Slot(m.active.routes[s], o.provider).cp.cum,
                             !.active.routes[s] = Charged(@, o.provider, cp, payload)]
    IN  {[m |-> n, answer |-> IF Live(n) THEN "acknowledged" ELSE "refused",
          payload |-> IF Live(n) THEN payload ELSE NoPayload] : n \in persist_route(charged, s)}

(* The charge is added to what the authorization has spent, the            *)
(* observation is consumed, and both are persisted before the payload is   *)
(* handed out.                                                             *)
Charge(m, s, o, cp) ==
    LET payload == [auth |-> m.active.auth, receipt |-> o]
        route == m.active.routes[s]
        spent == m.active.spent + cp.cum - Slot(route, o.provider).cp.cum
        charged == [m EXCEPT !.active.spent = spent,
                             !.active.routes[s] = Charged(@, o.provider, cp, payload)]
    IN  IF spent > Cap
        THEN Refused(m)
        ELSE {[m |-> n, answer |-> IF Live(n) THEN "acknowledged" ELSE "refused",
               payload |-> IF Live(n) THEN payload ELSE NoPayload] : n \in persist_route(charged, s)}

acknowledge_offer(m, o) ==
    IF StreamsOf(m, o.epoch) = {}
    THEN Refused(m)
    ELSE LET s == CHOOSE s \in StreamsOf(m, o.epoch) : TRUE
             route == m.active.routes[s]
             slot == Slot(route, o.provider)
         IN  IF o.provider \in Relays /\ ~route.routed
             THEN {[m |-> m, answer |-> "unavailable", payload |-> NoPayload]}
             ELSE IF slot.ack # NoPayload /\ slot.ack.receipt = o
             THEN {[m |-> m, answer |-> "acknowledged", payload |-> slot.ack]}
             ELSE IF QuoteUnavailable(route, o.provider)
             THEN {[m |-> m, answer |-> "unavailable", payload |-> NoPayload]}
             ELSE IF ~MatchesObservation(route, o) \/ o.cum > Cap \/ Advanced(slot.cp, o) = {}
             THEN Refused(m)
             ELSE UNION {Charge(m, s, o, cp) : cp \in Advanced(slot.cp, o)}

Answers(o) == UNION {acknowledge_offer(m, o) : m \in status(mgr)}
----------------------------------------------------------------------------
(* handle_service_receipt_offer, from the manager states ms and the        *)
(* deferred offers of the caller.                                          *)

Without(offers, epoch) == {o \in offers : o.epoch # epoch}

HandleOffer(ms, o, offers) ==
    \E a \in UNION {acknowledge_offer(m, o) : m \in ms} :
        \/ /\ a.answer = "refused"
           /\ mgr' = a.m /\ deferred' = offers
           /\ UNCHANGED released
        \/ /\ a.answer = "unavailable"
           /\ mgr' = a.m
           /\ deferred' = IF /\ Without(offers, o.epoch) = offers
                             /\ Cardinality(offers) < MaxDeferred
                          THEN offers \cup {o} ELSE offers
           /\ UNCHANGED released
        \/ /\ a.answer = "acknowledged"
           /\ mgr' = a.m
           /\ deferred' = Without(offers, o.epoch)
           /\ released' = released \cup {a.payload}

----------------------------------------------------------------------------
(* Handlers of the ProxyServer.                                            *)

traffic == <<nextEpoch, admitted, dead, seen>>
others == <<expired, nextAuth, crashes>>

propose ==
    /\ nextAuth <= MaxAuths
    /\ mgr' = [mgr EXCEPT !.pending = nextAuth]
    /\ nextAuth' = nextAuth + 1
    /\ UNCHANGED <<expired, crashes, traffic, deferred, released>>

Session(auth) == [auth |-> auth, spent |-> 0, routes |-> [s \in Streams |-> NoRoute]]

Activated(m) ==
    IF m.store = NoSession
    THEN persist_header([m EXCEPT !.pending = 0, !.active = Session(m.pending)])
    ELSE {m}

(* activate: a proposal that expired is dropped; without a store nothing   *)
(* is activated; the old session's rows are cleared before the new header  *)
(* is written, in two transactions.                                        *)
activate ==
    /\ mgr.pending # 0
    /\ mgr' \in IF mgr.pending \in expired THEN {[mgr EXCEPT !.pending = 0]}
                ELSE IF ~mgr.usable THEN {mgr}
                ELSE After(clear(mgr), Activated)
    /\ deferred' = IF Live(mgr') /\ mgr'.active.auth = mgr.pending THEN {} ELSE deferred
    /\ UNCHANGED <<others, traffic, released>>

stop ==
    /\ mgr' \in clear([mgr EXCEPT !.pending = 0, !.active = NoSession])
    /\ deferred' = {}
    /\ UNCHANGED <<expired, nextAuth, crashes, traffic, released>>

expire(a) ==
    /\ a < nextAuth /\ a \notin expired
    /\ expired' = expired \cup {a}
    /\ UNCHANGED <<mgr, nextAuth, crashes, traffic, deferred, released>>

(* Any handler that meets an expired session drops it and goes on without. *)
status_expires ==
    /\ mgr.active.auth \in expired
    /\ mgr' \in status(mgr)
    /\ UNCHANGED <<others, traffic, deferred, released>>

Unexpired == Live(mgr) /\ mgr.active.auth \notin expired

(* make_payload on a stream without a route.  A stream that already has an *)
(* exit when the session starts is bound to its quote at once.             *)
request_for_stream(s) ==
    /\ Unexpired /\ s \notin dead /\ mgr.active.routes[s] = NoRoute
    /\ nextEpoch <= MaxEpochs
    /\ \E quote \in Exits \cup {None} :
         mgr' \in After(rotate_route_for_stream(mgr, s, nextEpoch),
                        LAMBDA m : IF quote = None THEN {m} ELSE bind_exit_quote(m, s, quote))
    /\ nextEpoch' = nextEpoch + 1
    /\ UNCHANGED <<others, admitted, dead, seen, deferred, released>>

(* retry_dns_resolution: the stream gets a new epoch and a new exit.       *)
retry_dns_resolution(s) ==
    /\ Unexpired /\ s \notin dead /\ admitted[s] = {}
    /\ nextEpoch <= MaxEpochs
    /\ mgr' \in rotate_route_for_stream(mgr, s, nextEpoch)
    /\ deferred' = IF Live(mgr') THEN Without(deferred, mgr.active.routes[s].epoch) ELSE deferred
    /\ nextEpoch' = nextEpoch + 1
    /\ UNCHANGED <<others, admitted, dead, seen, released>>

(* The route result of a stream: the quotes of the relays and of the exit  *)
(* are bound, and the offer that came too early is handled.                *)
add_route_result(s, p) ==
    /\ Unexpired /\ s \notin dead /\ mgr.active.routes[s] # NoRoute
    /\ LET bound == After(bind_routing_quotes(mgr, s), LAMBDA m : bind_exit_quote(m, s, p))
           epoch == mgr.active.routes[s].epoch
           early == {o \in deferred : o.epoch = epoch}
       IN  IF early # {} /\ mgr.active.routes[s].exit \in {NoQuote, [provider |-> p, rate |-> Quote[p]]}
           THEN HandleOffer(bound, CHOOSE o \in early : TRUE, deferred \ early)
           ELSE mgr' \in bound /\ UNCHANGED <<deferred, released>>
    /\ UNCHANGED <<others, traffic>>

CountRelays(e, relays, size) ==
    [e EXCEPT !.relay = [r \in Relays |->
        IF r \in relays THEN @[r] + checked_charge_wei(Quote[r], 1, size) ELSE @[r]]]

(* RecordExitRequestForReceipt: the exit's and the relays' observations.   *)
record_request(s, size) ==
    /\ Unexpired /\ s \notin dead /\ mgr.active.routes[s] # NoRoute
    /\ mgr.active.routes[s].reqUnits < MaxRequests
    /\ mgr' \in After(record_exit_request(mgr, s, size),
                      LAMBDA m : record_routing_payload(m, s, RequestRelays, size))
    /\ seen' = [seen EXCEPT ![mgr.active.routes[s].epoch] =
                   CountRelays([@ EXCEPT !.size = @ + size, !.units = @ + 1], RequestRelays, size)]
    /\ UNCHANGED <<others, nextEpoch, admitted, dead, deferred, released>>

(* A response passes the replay window once, and is observed for the exit  *)
(* and for the relays of the way back.                                     *)
client_response(s, q, size) ==
    /\ Unexpired /\ s \notin dead /\ mgr.active.routes[s] # NoRoute
    /\ q \notin admitted[s]
    /\ admitted' = [admitted EXCEPT ![s] = @ \cup {q}]
    /\ mgr' \in After(record_exit_response(mgr, s, q, size),
                      LAMBDA m : record_routing_payload(m, s, ResponseRelays, size))
    /\ seen' = [seen EXCEPT ![mgr.active.routes[s].epoch] =
                   CountRelays([@ EXCEPT !.size = @ + size, !.units = @ + 1], ResponseRelays, size)]
    /\ UNCHANGED <<others, nextEpoch, dead, deferred, released>>

handle_service_receipt_offer(o) ==
    /\ HandleOffer(status(mgr), o, deferred)
    /\ UNCHANGED <<others, traffic>>

----------------------------------------------------------------------------
(* Restart.  The session is restored from the store; an expired one is     *)
(* cleared; if loading fails the Node runs without a store and refuses     *)
(* every activation.                                                       *)

Unrestored(m) == [m EXCEPT !.active = NoSession, !.usable = FALSE, !.faults = @ - 1]

new_recovery_required(m) ==
    LET fresh == [m EXCEPT !.pending = 0, !.usable = TRUE] IN
    (IF m.store.auth \in expired
     THEN {[fresh EXCEPT !.active = NoSession, !.store = NoSession]}
     ELSE {[fresh EXCEPT !.active = m.store]})
        \cup IF m.faults > 0 THEN {Unrestored(fresh)} ELSE {}

Restart(m) ==
    /\ crashes < MaxCrashes /\ crashes' = crashes + 1
    /\ mgr' \in new_recovery_required(m)
    /\ dead' = dead \cup {s \in Streams : admitted[s] # {} \/ HasRoute(m, s)}
    /\ deferred' = {}
    /\ UNCHANGED <<expired, nextAuth, nextEpoch, admitted, seen>>

crash == Restart(mgr) /\ UNCHANGED released

(* The Node dies after the transaction of the session and before the       *)
(* payload is queued for its provider.                                     *)
crash_before_enqueue(o) ==
    \E a \in Answers(o) :
        /\ a.answer = "acknowledged"
        /\ Restart(a.m) /\ UNCHANGED released

----------------------------------------------------------------------------
Init ==
    /\ mgr = [pending |-> 0, active |-> NoSession, store |-> NoSession,
              usable |-> TRUE, faults |-> MaxFaults]
    /\ expired = {} /\ nextAuth = 1 /\ nextEpoch = 1
    /\ admitted = [s \in Streams |-> {}] /\ dead = {}
    /\ deferred = {}
    /\ crashes = 0 /\ released = {}
    /\ seen = [e \in Epochs |-> [size |-> 0, units |-> 0, relay |-> [r \in Relays |-> 0]]]

(* The offers a provider may sign for the epochs drawn so far.             *)
Offers ==
    [epoch : 1 .. nextEpoch - 1, provider : Providers, seq : 0 .. MaxSequence,
     size : 1 .. Max(Sizes) * (MaxRequests + 1), units : 1 .. MaxRequests + 1,
     rate : Rates, cum : OfferedCharges]

Next ==
    \/ propose \/ activate \/ stop \/ status_expires
    \/ \E a \in 1 .. MaxAuths : expire(a)
    \/ \E s \in Streams :
         \/ request_for_stream(s)
         \/ retry_dns_resolution(s)
         \/ \E p \in Exits : add_route_result(s, p)
         \/ \E size \in Sizes : record_request(s, size)
         \/ \E q \in 0 .. MaxSequence, size \in Sizes : client_response(s, q, size)
    \/ \E o \in Offers : handle_service_receipt_offer(o) \/ crash_before_enqueue(o)
    \/ crash

Spec == Init /\ [][Next]_vars

----------------------------------------------------------------------------
(* Properties.                                                             *)

Route == [epoch : Epochs, exit : {NoQuote} \cup [provider : Exits, rate : Rates],
          observed : Seq([seq : Nat, size : Nat, units : Nat]),
          reqSize : Nat, reqUnits : 0 .. MaxRequests, cp : [seq : Int, cum : Nat],
          ack : {NoPayload} \cup [auth : 1 .. MaxAuths, receipt : Offers], routed : BOOLEAN,
          relay : [Relays -> [observed : Seq(Sizes), cp : [seq : Int, cum : Nat],
                              ack : {NoPayload} \cup [auth : 1 .. MaxAuths, receipt : Offers]]]]

Sessions == {NoSession} \cup [auth : 1 .. MaxAuths, spent : Nat,
                              routes : [Streams -> {NoRoute} \cup Route]]

(* Type invariant of the manager, its store and the queues; the queues of  *)
(* observations stay within their limit.                                   *)
TypeOK ==
    /\ mgr.pending \in 0 .. MaxAuths
    /\ mgr.active \in Sessions /\ mgr.store \in Sessions
    /\ mgr.usable \in BOOLEAN /\ mgr.faults \in 0 .. MaxFaults
    /\ \A s \in Streams : HasRoute(mgr, s) =>
         Len(mgr.active.routes[s].observed) <= MaxObserved
    /\ deferred \subseteq Offers
    /\ \A o1, o2 \in deferred : o1.epoch = o2.epoch => o1 = o2

ReleasedCharge(a, e, p) ==
    LET cums == {x.receipt.cum : x \in {y \in released :
                    y.auth = a /\ y.receipt.epoch = e /\ y.receipt.provider = p}}
    IN  IF cums = {} THEN 0 ELSE Max(cums)

ReleasedTotal(a) ==
    MapThenSumSet(LAMBDA ep : ReleasedCharge(a, ep[1], ep[2]), Epochs \X Providers)

(* One wallet signature never pays more than its cap: the acknowledgements *)
(* handed out under it, over all its routes, exits and relays, through     *)
(* rotations, failed writes, crashes and restores, add up to at most       *)
(* max_total_charge_wei (acknowledge_offer, restore_active).  What the     *)
(* store would restore after a crash now already counts every one of them: *)
(* a restart cannot give budget back.                                      *)
CapHolds ==
    /\ \A a \in 1 .. MaxAuths : ReleasedTotal(a) <= Cap
    /\ mgr.store # NoSession => ReleasedTotal(mgr.store.auth) <= mgr.store.spent
    /\ Live(mgr) => mgr.active = mgr.store

(* The payer signs for the traffic it has seen, once: what an epoch's exit *)
(* and relays were acknowledged never exceeds the charge, at the quoted    *)
(* rates, of the requests and responses of that epoch.                     *)
PaysForSeenTraffic ==
    \A x \in released :
        LET e == seen[x.receipt.epoch]
            p == x.receipt.provider
        IN  x.receipt.cum <= IF p \in Relays THEN e.relay[p]
                             ELSE checked_charge_wei(Quote[p], e.units, e.size)

(* New acknowledgements are for the epoch some stream has now, under the   *)
(* authorization that is active now.                                       *)
PaysTheCurrentRoute ==
    \A x \in released' \ released :
        /\ x.auth = mgr.active.auth
        /\ \E s \in Streams : mgr.active.routes[s].epoch = x.receipt.epoch

(* "A late offer from the failed exit can no longer match the active route *)
(* epoch": no step of the manager acknowledges another route.              *)
OnlyTheCurrentRoutePays == [][PaysTheCurrentRoute]_vars
=============================================================================
