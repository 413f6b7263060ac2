-------------------------- MODULE ReceiptSettlement --------------------------
(***************************************************************************)
(* The earning side of the service receipts: the durable offers of a       *)
(* relay, the acceptance of acknowledged receipts (checkpoints, the spent  *)
(* amount of an authorization, the receivable), the claims that wait for   *)
(* settlement, their reconciliation with a chain that may reorganise, and  *)
(* the provider's own settlement authorization.                            *)
(*                                                                         *)
(* A stream is a route epoch with its payer's session key; its claim id is *)
(* a function of these, so streams and claims are the same set.  Every     *)
(* operation of the DAO is one database transaction.                       *)
(***************************************************************************)
EXTENDS Integers, Sequences, FiniteSets, Functions

CONSTANTS
    Streams,
    Auths,          \* wallet authorizations of payers
    AuthOf,         \* the authorization of each stream
    Cap,            \* max_total_charge_wei of every authorization
    Charges,        \* charges of one routed packet, for each stream
    MaxStates,      \* MAX_ROUTING_RECEIPT_SESSION_STATES
    Depths,         \* confirmation depths an operator asks for
    MaxSequence,    \* bound: receipts of each stream
    MaxHeight,      \* bound: blocks
    MaxReorgs,      \* bound: reorganisations
    MaxInFlight,    \* bound: reconciliations in flight
    MaxProposals,   \* bound: settlement proposals of the provider
    MaxFaults       \* bound: failing database calls of the provider's manager

ASSUME SettlementAssumption ==
    /\ IsFiniteSet(Streams) /\ AuthOf \in [Streams -> Auths] /\ Cap \in Nat
    /\ Charges \in [Streams -> SUBSET Nat] /\ MaxSequence \in [Streams -> Nat]
    /\ Depths \subseteq Nat /\ MaxStates \in Nat /\ MaxHeight \in Nat \ {0}
    /\ MaxProposals \in Nat /\ MaxFaults \in Nat

VARIABLES
    offer,      \* routing_receipt_offer_state
    sent,       \* receipts put on the wire; the payer may acknowledge any
    cp,         \* receipt_sequence_checkpoint
    spent,      \* spent_charge_wei of receipt_session_authorization
    receivable, \* the payer's balance
    outbox,     \* receipt_settlement_claim_outbox: charge, 0 if absent
    archive,    \* receipt_settlement_claim_archive
    recon,      \* receipt_settlement_reconciliation_checkpoint
    expired,    \* payer authorizations that have expired
    chain,      \* settledCumulativeChargeWei at each block
    reorgs,
    observed,   \* SettlementChainObservations on their way to the Hopper
    exported,   \* claims handed to the settlement batcher
    prov        \* [pending, active, stored, expired, stopped, next, usable, faults]

receipts == <<offer, sent, cp, spent, receivable>>
claims   == <<outbox, archive, recon>>
world    == <<chain, reorgs>>
vars == <<receipts, claims, expired, world, observed, exported, prov>>

NoOffer == [seq |-> 0, cum |-> 0, charge |-> 0]
NoCheckpoint == [seq |-> 0, cum |-> 0]
NotArchived == [cum |-> 0, confirmed |-> 0]

Init ==
    /\ offer = [s \in Streams |-> NoOffer] /\ sent = {}
    /\ cp = [s \in Streams |-> NoCheckpoint]
    /\ spent = [a \in Auths |-> 0] /\ receivable = 0
    /\ outbox = [s \in Streams |-> 0] /\ archive = [s \in Streams |-> NotArchived]
    /\ recon = [depth |-> 0, block |-> 0]
    /\ expired = {}
    /\ chain = <<[s \in Streams |-> 0]>> /\ reorgs = 0
    /\ observed = {} /\ exported = {}
    /\ prov = [pending |-> 0, active |-> 0, stored |-> 0, expired |-> {}, stopped |-> {},
               next |-> 1, usable |-> TRUE, faults |-> MaxFaults]

----------------------------------------------------------------------------
(* Offers of a relay.                                                      *)

NextReceipt(s, charge) ==
    [seq |-> offer[s].seq + 1, cum |-> offer[s].cum + charge, charge |-> charge]

Live(table) == {s \in Streams : table[s] # NoOffer /\ AuthOf[s] \notin expired}

(* save_routing_offer_state: expired states are pruned, then one state is  *)
(* inserted, within the capacity, or advanced by one and to a larger sum.  *)
save_routing_offer_state(s, receipt) ==
    /\ IF offer[s] = NoOffer THEN Cardinality(Live(offer)) < MaxStates
       ELSE receipt.cum > offer[s].cum
    /\ offer' = [t \in Streams |-> IF t = s THEN receipt
                                   ELSE IF t \in Live(offer) THEN offer[t] ELSE NoOffer]

offer_beyond_cap(s, charge) ==
    LET receipt == NextReceipt(s, charge) IN
    /\ [seq |-> offer[s].seq, cum |-> offer[s].cum] = cp[s]
    /\ save_routing_offer_state(s, receipt)
    /\ sent' = sent \cup {[stream |-> s, receipt |-> receipt]}

offer_before_saving(s, charge) ==
    LET receipt == NextReceipt(s, charge) IN
    /\ [seq |-> offer[s].seq, cum |-> offer[s].cum] = cp[s]
    /\ receipt.cum <= Cap
    /\ sent' = sent \cup {[stream |-> s, receipt |-> receipt]}
    /\ save_routing_offer_state(s, receipt) \/ UNCHANGED offer

(* A new receipt: the last one is acknowledged, or there is none.  It is   *)
(* saved before it is sent; the Node may die in between.                   *)
NewOffer(s, charge) ==
    LET receipt == NextReceipt(s, charge) IN
    /\ [seq |-> offer[s].seq, cum |-> offer[s].cum] = cp[s]
    /\ receipt.cum <= Cap
    /\ save_routing_offer_state(s, receipt)
    /\ sent' \in {sent, sent \cup {[stream |-> s, receipt |-> receipt]}}

(* "The exact prior offer is still pending": it is sent again.             *)
PendingOffer(s) ==
    /\ offer[s] # NoOffer
    /\ cp[s].seq < offer[s].seq /\ cp[s].cum < offer[s].cum
    /\ sent' = sent \cup {[stream |-> s, receipt |-> offer[s]]}
    /\ UNCHANGED offer

make_routing_receipt_offer(s, charge) ==
    /\ AuthOf[s] \notin expired
    /\ \/ offer[s].seq < MaxSequence[s] /\ NewOffer(s, charge)
       \/ PendingOffer(s)
    /\ UNCHANGED <<cp, spent, receivable, claims, expired, world, observed, exported, prov>>

----------------------------------------------------------------------------
(* Acceptance of an acknowledged receipt.  The payer signs receipts that   *)
(* were sent; acknowledgements are lost, repeated and reordered freely.    *)

(* begin_for_settlement, advance_for_settlement: a later receipt may skip  *)
(* acknowledgements that were lost; its own charge bounds the difference.  *)
(* accept_verified_receipt refuses one that adds nothing.                  *)
Advances(s, r) ==
    /\ r.seq > cp[s].seq /\ r.cum >= cp[s].cum + r.charge
    /\ cp[s] # NoCheckpoint => r.cum > cp[s].cum

(* A later receipt reopens an archived claim.                              *)
Claim(s, r) ==
    /\ outbox' = [outbox EXCEPT ![s] = r.cum]
    /\ archive' = [archive EXCEPT ![s] = NotArchived]

Accepted(s, r) ==
    LET delta == r.cum - cp[s].cum IN
    /\ cp' = [cp EXCEPT ![s] = [seq |-> r.seq, cum |-> r.cum]]
    /\ spent' = [spent EXCEPT ![AuthOf[s]] = @ + delta]
    /\ receivable' = receivable + delta
    /\ UNCHANGED <<offer, sent, recon, expired, world, observed, exported, prov>>

accept_beside_archive(s, r) ==
    /\ AuthOf[s] \notin expired /\ Advances(s, r)
    /\ spent[AuthOf[s]] + r.cum - cp[s].cum <= Cap
    /\ outbox' = [outbox EXCEPT ![s] = r.cum] /\ UNCHANGED archive
    /\ Accepted(s, r)

(* accept_service_receipt and accept_verified_receipt: checkpoint, spent   *)
(* amount, receivable and claim in one transaction.                        *)
accept_service_receipt(s, r) ==
    /\ AuthOf[s] \notin expired /\ Advances(s, r)
    /\ spent[AuthOf[s]] + r.cum - cp[s].cum <= Cap
    /\ Claim(s, r) /\ Accepted(s, r)

expire(a) ==
    /\ a \notin expired /\ expired' = expired \cup {a}
    /\ UNCHANGED <<receipts, claims, world, observed, exported, prov>>

----------------------------------------------------------------------------
(* The chain and its reconciliation with the claims.                       *)

Height == Len(chain)

mine(s, cum) ==
    /\ Height < MaxHeight /\ [stream |-> s, cum |-> cum] \in exported
    /\ chain' = Append(chain, [chain[Height] EXCEPT ![s] = IF cum > @ THEN cum ELSE @])
    /\ UNCHANGED <<receipts, claims, expired, reorgs, observed, exported, prov>>

mine_empty ==
    /\ Height < MaxHeight /\ chain' = Append(chain, chain[Height])
    /\ UNCHANGED <<receipts, claims, expired, reorgs, observed, exported, prov>>

(* The blocks from k on are replaced; their settlements are gone.          *)
reorganise(k) ==
    /\ reorgs < MaxReorgs /\ reorgs' = reorgs + 1
    /\ chain' = [i \in DOMAIN chain |-> IF i < k THEN chain[i] ELSE chain[k - 1]]
    /\ UNCHANGED <<receipts, claims, expired, observed, exported, prov>>

Candidates == {s \in Streams : outbox[s] > 0 \/ archive[s] # NotArchived}

(* handle_provider_settlement_reconcile and the BlockchainBridge: a page   *)
(* of candidates, read at one block.  The block is the asked depth below   *)
(* the latest block, which was read before: the chain may have grown.      *)
observe(page, depth) ==
    /\ prov.usable /\ Cardinality(observed) < MaxInFlight
    /\ page # {} /\ page \subseteq Candidates /\ depth < Height
    /\ \E block \in 1 .. Height - depth :
       observed' = observed \cup
           {[depth |-> depth, block |-> block,
             settled |-> [s \in page |-> chain[block][s]],
             asked |-> [s \in page |-> IF outbox[s] > 0 THEN outbox[s] ELSE archive[s].cum]]}
    /\ UNCHANGED <<receipts, claims, expired, world, exported, prov>>

Regresses(o) == o.depth < recon.depth \/ o.block < recon.block

ToArchive(o) ==
    {s \in DOMAIN o.settled : outbox[s] > 0 /\ o.settled[s] >= outbox[s]}

ToOutbox(o) ==
    {s \in DOMAIN o.settled : outbox[s] = 0 /\ o.settled[s] < archive[s].cum}

Revalidated(o) ==
    {s \in DOMAIN o.settled : outbox[s] = 0 /\ archive[s] # NotArchived} \ ToOutbox(o)

(* Confirmed claims move to the archive, archived ones whose settlement    *)
(* has disappeared move back.                                              *)
Reconciled(o, confirmed) ==
    /\ outbox' = [s \in Streams |-> IF s \in confirmed THEN 0
                                    ELSE IF s \in ToOutbox(o) THEN archive[s].cum ELSE outbox[s]]
    /\ archive' = [s \in Streams |->
                     IF s \in confirmed THEN [cum |-> outbox[s], confirmed |-> o.settled[s]]
                     ELSE IF s \in ToOutbox(o) THEN NotArchived
                     ELSE IF s \in Revalidated(o) THEN [archive[s] EXCEPT !.confirmed = o.settled[s]]
                     ELSE archive[s]]
    /\ recon' = [depth |-> o.depth, block |-> o.block]

reconcile_settlement_claims(o) ==
    /\ prov.usable /\ ~Regresses(o)
    /\ Reconciled(o, ToArchive(o))

(* The result arrives; a regressing observation is refused.                *)
reconciliation_result(o) ==
    /\ observed' = observed \ {o}
    /\ \/ reconcile_settlement_claims(o)
       \/ (~prov.usable \/ Regresses(o)) /\ UNCHANGED claims
    /\ UNCHANGED <<receipts, expired, world, exported, prov>>

----------------------------------------------------------------------------
(* The provider's settlement authorization.  p is the manager's state;     *)
(* every operator gives the states it may end in.                          *)

Failed(p) == IF p.faults > 0 THEN {[p EXCEPT !.faults = @ - 1]} ELSE {}

propose ==
    /\ prov.usable /\ prov.next <= MaxProposals
    /\ prov' = [prov EXCEPT !.pending = prov.next, !.next = @ + 1]
    /\ UNCHANGED <<receipts, claims, expired, world, observed, exported>>

activate_before_saving(p) ==
    IF p.pending \in p.expired
    THEN {[p EXCEPT !.pending = 0]}
    ELSE {[p EXCEPT !.stored = p.pending, !.active = p.pending, !.pending = 0]}
           \cup {[q EXCEPT !.active = p.pending] : q \in Failed(p)}

Activated(p) ==
    IF p.pending \in p.expired
    THEN {[p EXCEPT !.pending = 0]}
    ELSE {[p EXCEPT !.stored = p.pending, !.active = p.pending, !.pending = 0]} \cup Failed(p)

activate ==
    /\ prov.usable /\ prov.pending # 0
    /\ prov' \in Activated(prov)
    /\ UNCHANGED <<receipts, claims, expired, world, observed, exported>>

(* An expired authorization is cleared; if that fails the call fails.      *)
Status(p) ==
    IF p.active \in p.expired
    THEN {[p EXCEPT !.active = 0, !.stored = 0]} \cup Failed(p)
    ELSE {p}

status ==
    /\ prov.usable /\ prov' \in Status(prov)
    /\ UNCHANGED <<receipts, claims, expired, world, observed, exported>>

stop_ignores_failure(p) ==
    {[q EXCEPT !.active = 0, !.pending = 0, !.stopped = @ \cup ({p.active} \ {0})] :
        q \in {[p EXCEPT !.stored = 0]} \cup Failed(p)}

Stopped(p) ==
    {[p EXCEPT !.active = 0, !.pending = 0, !.stored = 0,
               !.stopped = @ \cup ({p.active} \ {0})]} \cup Failed(p)

stop ==
    /\ prov.usable /\ prov' \in Stopped(prov)
    /\ UNCHANGED <<receipts, claims, expired, world, observed, exported>>

(* The claims of one page go out under the active authorization, if the    *)
(* status check has left one.                                              *)
export(page) ==
    /\ prov.usable /\ prov' \in Status(prov)
    /\ page # {} /\ page \subseteq {s \in Streams : outbox[s] > 0}
    /\ exported' = IF prov'.active = 0 \/ prov'.active \in prov'.expired THEN exported
                   ELSE exported \cup {[stream |-> s, cum |-> outbox[s]] : s \in page}
    /\ UNCHANGED <<receipts, claims, expired, world, observed>>

authorization_expires(n) ==
    /\ n < prov.next /\ n \notin prov.expired
    /\ prov' = [prov EXCEPT !.expired = @ \cup {n}]
    /\ UNCHANGED <<receipts, claims, expired, world, observed, exported>>

(* ProviderSettlementManager::new: the stored authorization is taken over; *)
(* one that has expired, or does not match the configuration of this run,  *)
(* is cleared.  After a failing call there is no manager.                  *)
Restarted(p) ==
    {[p EXCEPT !.active = 0, !.stored = 0, !.pending = 0, !.usable = TRUE]}
        \cup (IF p.stored \in p.expired THEN {}
              ELSE {[p EXCEPT !.active = p.stored, !.pending = 0, !.usable = TRUE]})
        \cup {[q EXCEPT !.active = 0, !.pending = 0, !.usable = FALSE] : q \in Failed(p)}

restart ==
    /\ prov' \in Restarted(prov) /\ observed' = {}
    /\ UNCHANGED <<receipts, claims, expired, world, exported>>

Next ==
    \/ \E s \in Streams : \E charge \in Charges[s] : make_routing_receipt_offer(s, charge)
    \/ \E x \in sent : accept_service_receipt(x.stream, x.receipt)
    \/ \E a \in Auths : expire(a)
    \/ \E x \in exported : mine(x.stream, x.cum)
    \/ mine_empty
    \/ \E k \in 2 .. Height : reorganise(k)
    \/ \E page \in SUBSET Streams : (\E depth \in Depths : observe(page, depth)) \/ export(page)
    \/ \E o \in observed : reconciliation_result(o)
    \/ propose \/ activate \/ status \/ stop \/ restart
    \/ \E n \in 1 .. MaxProposals : authorization_expires(n)

Spec == Init /\ [][Next]_vars

----------------------------------------------------------------------------
(* The rows of the tables stay within the cap and the capacity of the      *)
(* offer states (save_routing_offer_state).                                *)
TypeOK ==
    /\ \A s \in Streams :
         /\ offer[s] \in [seq : 0 .. MaxSequence[s], cum : 0 .. Cap, charge : Charges[s] \cup {0}]
         /\ cp[s] \in [seq : 0 .. MaxSequence[s], cum : 0 .. Cap]
         /\ outbox[s] \in 0 .. Cap
         /\ archive[s] \in [cum : 0 .. Cap, confirmed : 0 .. Cap]
    /\ Cardinality({s \in Streams : offer[s] # NoOffer}) <= MaxStates
    /\ spent \in [Auths -> Nat] /\ receivable \in Nat
    /\ recon.depth \in Depths \cup {0} /\ recon.block \in 0 .. MaxHeight
    /\ prov.pending \in 0 .. MaxProposals /\ prov.active \in 0 .. MaxProposals
    /\ prov.stored \in 0 .. MaxProposals /\ prov.usable \in BOOLEAN

Earned == [s \in Streams |-> cp[s].cum]
Charge == [x \in sent |-> x.receipt.charge]

(* "Atomically records a previously cryptographically verified checkpoint  *)
(* and its exact receivable delta": whatever acknowledgements were lost,   *)
(* repeated or reordered, and wherever the Node died around an offer, a    *)
(* stream has earned the charges of its receipts, each once, the           *)
(* receivable is the sum over the streams, and "the authorization's        *)
(* aggregate cap spans every route using the same nonce".                  *)
AccountedExactly ==
    /\ receivable = SumFunctionOnSet(Earned, Streams)
    /\ \A s \in Streams :
         cp[s].cum = SumFunctionOnSet(Charge,
                         {x \in sent : x.stream = s /\ x.receipt.seq <= cp[s].seq})
    /\ \A a \in Auths :
        /\ spent[a] = SumFunctionOnSet(Earned, {s \in Streams : AuthOf[s] = a})
        /\ spent[a] <= Cap

(* Every accepted receipt stays a claim, in exactly one table and with its *)
(* latest charge, while receipts, exports, reconciliations in flight and   *)
(* reorganisations interleave ("Keeping both copies would make             *)
(* reconciliation ambiguous").  It is archived only under a payment that   *)
(* covers its latest charge and that was really settled: a receipt that is *)
(* accepted while an observation is on its way is not archived by it.      *)
ClaimIsKept ==
    \A s \in Streams :
        /\ outbox[s] = cp[s].cum \/ archive[s].cum = cp[s].cum
        /\ outbox[s] = 0 \/ archive[s] = NotArchived
        /\ archive[s] # NotArchived =>
            /\ archive[s].confirmed >= cp[s].cum
            /\ \E x \in exported : x.stream = s /\ x.cum >= archive[s].confirmed

(* The authorization exports run under is on disk, and one that was        *)
(* stopped comes back neither at once nor with a restart, through failing  *)
(* database calls (activate saves first, stop clears first).               *)
AuthorizationIsDurable ==
    /\ prov.active # 0 => prov.stored = prov.active
    /\ prov.active \notin prov.stopped /\ prov.stored \notin prov.stopped
=============================================================================
