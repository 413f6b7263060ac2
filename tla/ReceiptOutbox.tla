---------------------------- MODULE ReceiptOutbox ----------------------------
(***************************************************************************)
(* What becomes of an acknowledgement the session has signed: the durable  *)
(* outbox of the ProxyServer, delivery over a route asked of the           *)
(* Neighborhood, retries, restarts, a network that may lose the package,   *)
(* and the provider's side.  A relay keeps its last offer on disk and      *)
(* sends it again until it is acknowledged; an exit keeps its receipts in  *)
(* memory and goes on with the next one.                                   *)
(*                                                                         *)
(* A receipt is its sequence number: cumulative charges grow with it       *)
(* (module ReceiptSession).                                                *)
(***************************************************************************)
EXTENDS Integers, Sequences, FiniteSets, Functions

CONSTANTS
    Exits, Relays,  \* providers
    Receipts,       \* bound: receipts of each stream <<epoch, provider>>
    Batch,          \* MAX_RECEIPT_ACKNOWLEDGEMENT_RECOVERY_BATCH
    Faulty,         \* database calls that may fail: subset of {"enqueue", "delete", "load"}
    MaxFaults,      \* bound: kinds of calls that fail, once each
    MaxCrashes      \* bound: restarts of the payer's Node

Streams == DOMAIN Receipts

(* A provider is an exit or a relay of a stream.                           *)
ASSUME OutboxAssumption ==
    /\ \A s \in Streams : s = <<s[1], s[2]>> /\ Receipts[s] \in Nat
    /\ Exits \cap Relays = {} /\ Batch \in Nat

VARIABLES
    offered,     \* last receipt each provider has signed
    signed,      \* last receipt the payer's session has acknowledged
    outbox,      \* rows of receipt_acknowledgement_outbox, oldest first
    deliveries,  \* route queries of deliver_receipt_acknowledgement in flight
    retry,       \* receipt_acknowledgement_retry_scheduled
    network,     \* acknowledgement packages under way
    accepted,    \* the provider's checkpoint
    faults, crashes,
    queued, sent \* history: payloads enqueue took; payloads the Hopper took

provider == <<offered, accepted>>
history  == <<queued, sent>>
vars == <<offered, signed, outbox, deliveries, retry, network, accepted,
          faults, crashes, queued, sent>>

Payload(e, p, n) == [epoch |-> e, provider |-> p, n |-> n]
Payloads == UNION {{Payload(s[1], s[2], n) : n \in 1 .. Receipts[s]} : s \in Streams}

Init ==
    /\ offered = [s \in Streams |-> 0] /\ signed = offered /\ accepted = offered
    /\ outbox = <<>> /\ deliveries = {} /\ retry = FALSE
    /\ network = {} /\ faults = {} /\ crashes = 0
    /\ queued = {} /\ sent = {}

Fault(call) ==
    /\ call \in Faulty \ faults /\ Cardinality(faults) < MaxFaults
    /\ faults' = faults \cup {call}

----------------------------------------------------------------------------
(* The providers.                                                          *)

(* A relay makes a new receipt once its last one is acknowledged; until    *)
(* then every packet carries the same offer (see acknowledge).             *)
make_routing_receipt_offer(e, p) ==
    /\ offered[<<e, p>>] < Receipts[<<e, p>>] /\ accepted[<<e, p>>] = offered[<<e, p>>]
    /\ offered' = [offered EXCEPT ![<<e, p>>] = @ + 1]
    /\ UNCHANGED <<signed, outbox, deliveries, retry, network, accepted, faults, crashes, history>>

(* An exit makes the next receipt for every response.                      *)
make_service_receipt_offer(e, p) ==
    /\ offered[<<e, p>>] < Receipts[<<e, p>>]
    /\ offered' = [offered EXCEPT ![<<e, p>>] = @ + 1]
    /\ UNCHANGED <<signed, outbox, deliveries, retry, network, accepted, faults, crashes, history>>

(* accept_service_receipt: a later receipt is accepted also when an        *)
(* earlier acknowledgement was lost; a repeated or older one is refused.   *)
accept_service_receipt(a) ==
    /\ a \in network /\ network' = network \ {a}
    /\ accepted' = [accepted EXCEPT ![<<a.epoch, a.provider>>] = IF a.n > @ THEN a.n ELSE @]
    /\ UNCHANGED <<offered, signed, outbox, deliveries, retry, faults, crashes, history>>

lose(a) ==
    /\ a \in network /\ network' = network \ {a}
    /\ UNCHANGED <<provider, signed, outbox, deliveries, retry, faults, crashes, history>>

----------------------------------------------------------------------------
(* The payer.                                                              *)

RowOf(e) == {r \in Range(outbox) : r.epoch = e}

(* The rows but that of epoch e: the epoch is the key of the table.        *)
Without(e) ==
    IF RowOf(e) = {}
    THEN outbox
    ELSE LET i == CHOOSE i \in DOMAIN outbox : outbox[i].epoch = e
         IN  SubSeq(outbox, 1, i - 1) \o SubSeq(outbox, i + 1, Len(outbox))

Replaced(a) == Append(Without(a.epoch), a)

(* The rows after ReceiptAcknowledgementOutboxDaoReal::enqueue: the row of *)
(* the epoch is inserted, kept (same or newer payload stored), or replaced *)
(* by a newer payload, which also renews its time stamp.                   *)
enqueue(a) ==
    IF \E r \in RowOf(a.epoch) : r.n >= a.n THEN outbox ELSE Replaced(a)

(* The row of the epoch is another provider's: IdentityMismatch.           *)
IdentityMismatch(a) == \E r \in RowOf(a.epoch) : r.provider # a.provider

acknowledges_once(e, p, n) ==
    /\ n \in 1 .. offered[<<e, p>>] /\ n = signed[<<e, p>>] + 1
    /\ signed' = [signed EXCEPT ![<<e, p>>] = n]

(* The session acknowledges the next receipt of a stream, or a relay's     *)
(* last one again.                                                         *)
Acknowledges(e, p, n) ==
    /\ n \in 1 .. offered[<<e, p>>]
    /\ n = signed[<<e, p>>] + 1 \/ (n = signed[<<e, p>>] /\ p \in Relays)
    /\ signed' = [signed EXCEPT ![<<e, p>>] = n]

(* handle_service_receipt_offer: queue the acknowledgement, then deliver   *)
(* it; one that cannot be queued is not delivered either.                  *)
acknowledge(e, p, n) ==
    /\ Acknowledges(e, p, n)
    /\ LET a == Payload(e, p, n) IN
         \/ /\ ~ IdentityMismatch(a)
            /\ outbox' = enqueue(a) /\ deliveries' = deliveries \cup {a}
            /\ queued' = queued \cup {a} /\ UNCHANGED faults
         \/ /\ IdentityMismatch(a) /\ UNCHANGED <<faults, outbox, deliveries, queued>>
         \/ /\ Fault("enqueue") /\ UNCHANGED <<outbox, deliveries, queued>>
    /\ UNCHANGED <<provider, retry, network, crashes, sent>>

delete_epoch(a) == Without(a.epoch)

(* ReceiptAcknowledgementOutboxDaoReal::delete: only the exact payload.    *)
delete(a) == IF a \in Range(outbox) THEN Without(a.epoch) ELSE outbox

(* deliver_receipt_acknowledgement, once a route is found and the Hopper   *)
(* has taken the package.                                                  *)
deliver_receipt_acknowledgement(a) ==
    /\ a \in deliveries /\ deliveries' = deliveries \ {a}
    /\ network' = network \cup {a} /\ sent' = sent \cup {a}
    /\ \/ outbox' = delete(a) /\ UNCHANGED <<retry, faults>>
       \/ Fault("delete") /\ retry' = TRUE /\ UNCHANGED outbox
    /\ UNCHANGED <<provider, signed, crashes, queued>>

(* No route, or the Accountant or the Hopper does not take its message.    *)
delivery_fails(a) ==
    /\ a \in deliveries /\ deliveries' = deliveries \ {a}
    /\ retry' = TRUE
    /\ UNCHANGED <<provider, signed, outbox, network, faults, crashes, history>>

(* The oldest rows, up to one batch.                                       *)
NextBatch == {outbox[i] : i \in {j \in DOMAIN outbox : j <= Batch}}

(* replay_persisted_receipt_acknowledgements, with these deliveries in     *)
(* flight: another retry is scheduled when there are more rows.            *)
replay_persisted_receipt_acknowledgements(before) ==
    /\ deliveries' = before \cup NextBatch
    /\ retry' = (Len(outbox) > Batch)

(* The rows cannot be loaded: nothing is delivered, nothing is scheduled.  *)
load_fails(before) == Fault("load") /\ retry' = FALSE /\ deliveries' = before

RetryReceiptAcknowledgements ==
    /\ retry
    /\ \/ replay_persisted_receipt_acknowledgements(deliveries) /\ UNCHANGED faults
       \/ load_fails(deliveries)
    /\ UNCHANGED <<provider, signed, outbox, network, crashes, history>>

(* The Node dies and restarts, possibly after the session has persisted an *)
(* acknowledgement and before it is in the outbox.  BindMessage replays.   *)
restart ==
    /\ crashes < MaxCrashes /\ crashes' = crashes + 1
    /\ \/ UNCHANGED signed
       \/ \E s \in Streams : Acknowledges(s[1], s[2], signed[s] + 1)
    /\ \/ replay_persisted_receipt_acknowledgements({}) /\ UNCHANGED faults
       \/ load_fails({})
    /\ UNCHANGED <<provider, outbox, network, history>>

Next ==
    \/ \E s \in Streams : s[2] \in Relays /\ make_routing_receipt_offer(s[1], s[2])
    \/ \E s \in Streams : s[2] \in Exits /\ make_service_receipt_offer(s[1], s[2])
    \/ \E a \in network : accept_service_receipt(a) \/ lose(a)
    \/ \E a \in Payloads : acknowledge(a.epoch, a.provider, a.n)
    \/ \E a \in deliveries : deliver_receipt_acknowledgement(a) \/ delivery_fails(a)
    \/ RetryReceiptAcknowledgements
    \/ restart

Spec == Init /\ [][Next]_vars

(***************************************************************************)
(* Fairness.  The retry timer fires.  A provider that is asked for again   *)
(* and again is reachable again and again: one of the deliveries finds a   *)
(* route and one of the packages arrives.  A relay's pending offer travels *)
(* with every further packet of the stream.                                *)
(***************************************************************************)
Fairness ==
    /\ WF_vars(RetryReceiptAcknowledgements)
    /\ \A a \in Payloads : SF_vars(deliver_receipt_acknowledgement(a))
    /\ \A a \in Payloads : a.provider \in Relays =>
         SF_vars(accept_service_receipt(a)) /\ WF_vars(acknowledge(a.epoch, a.provider, a.n))

FairSpec == Spec /\ Fairness

----------------------------------------------------------------------------
Covers(b, a) == b.epoch = a.epoch /\ b.provider = a.provider /\ b.n >= a.n

(* An acknowledgement enqueue has taken is never lost: it, or a later one  *)
(* of its stream, is in the outbox until the Hopper has taken it, whatever *)
(* deliveries, replacements, failing deletes and restarts come between.    *)
(* No row is forgotten: each is on its way or will be replayed, although   *)
(* the replay takes one batch, a delivery of an older payload may still be *)
(* in flight, and a row stays when its delete fails; unless the rows could *)
(* not be loaded (RetryReceiptAcknowledgements).  The outbox keeps the one *)
(* row per route epoch its table allows.  And a relay and its payer never  *)
(* drift apart by more than the receipt that is pending, so the payer's    *)
(* session, which wants the next sequence number, can always take the      *)
(* offer make_routing_receipt_offer repeats.                               *)
AcknowledgementIsKept ==
    /\ \A a \in queued : \E b \in Range(outbox) \cup sent : Covers(b, a)
    /\ retry \/ Range(outbox) \subseteq deliveries \/ "load" \in faults
    /\ IsInjective([i \in DOMAIN outbox |-> outbox[i].epoch])
    /\ \A s \in Streams : s[2] \in Relays =>
        /\ accepted[s] <= signed[s] /\ signed[s] <= offered[s]
        /\ offered[s] <= accepted[s] + 1

(* Every receipt a relay offers is acknowledged in the end, although the   *)
(* outbox has one row per route epoch and refuses the relay's while the    *)
(* exit's is there, and although a package may be lost once its row is     *)
(* deleted; again as long as the rows can be loaded.                       *)
RelayIsAcknowledged ==
    \A s \in Streams : s[2] \in Relays =>
        (accepted[s] < offered[s] ~> accepted[s] = offered[s] \/ "load" \in faults)
=============================================================================
