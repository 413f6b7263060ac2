---------------------- MODULE ReceiptSettlementProofs ----------------------
(***************************************************************************)
(* Proofs about ReceiptSettlement, for any streams, authorizations, caps,  *)
(* charges, chains and numbers of reconciliations in flight.               *)
(*                                                                         *)
(* ClaimIsKept is not inductive.  That a claim is archived only under a    *)
(* payment that was really settled rests on where the amounts come from:   *)
(* whatever the chain holds, and whatever an observation on its way says,  *)
(* was exported before (ChainInv, ObservedInv).  That a reconciliation may *)
(* move a claim back rests on the archived amount being the latest one     *)
(* (Kept).  AuthorizationIsDurable rests on the numbers of the proposals:  *)
(* one that was stopped is never proposed again (ProvInv).                 *)
(***************************************************************************)
EXTENDS ReceiptSettlement, FiniteSetTheorems, WellFoundedInduction, TLAPS

LEMMA SeqOf == ASSUME NEW S, NEW n \in Nat, NEW f \in [1 .. n -> S] PROVE f \in Seq(S) /\ Len(f) = n
OBVIOUS

LEMMA ElementOf == ASSUME NEW S, NEW q \in Seq(S), NEW i \in DOMAIN q PROVE q[i] \in S
OBVIOUS

\* What a relay offers on s, and what the tables hold of it.
Receipt(s) == [seq : 0 .. MaxSequence[s], cum : 0 .. Cap, charge : Charges[s] \cup {0}]
AnyReceipt == [seq : Nat, cum : Nat, charge : Nat]
Checkpoint == [seq : Nat, cum : Nat]

\* The streams with a row in routing_receipt_offer_state.
Saved == {s \in Streams : offer[s] # NoOffer}

\* What was sent for a stream, and what is saved, is a receipt of it within the cap; no
\* more offers are saved than the table takes.
OfferInv ==
    /\ offer \in [Streams -> AnyReceipt] /\ \A s \in Streams : offer[s] \in Receipt(s)
    /\ \A x \in sent : x.stream \in Streams /\ x.receipt \in Receipt(x.stream)
    /\ Cardinality(Saved) <= MaxStates

\* A checkpoint is that of a receipt within the cap.
CheckpointInv ==
    /\ cp \in [Streams -> Checkpoint]
    /\ \A s \in Streams : cp[s].seq <= MaxSequence[s] /\ cp[s].cum <= Cap

\* Balances never go below zero.
BalanceInv == spent \in [Auths -> Nat] /\ receivable \in Nat

\* The provider exported a claim of s for n or more, if n is not 0.
Covered(s, n) == n = 0 \/ \E x \in exported : x.stream = s /\ x.cum >= n

\* The claim of s is in the outbox, or archived under a payment that covers it.
Kept(s) ==
    \/ outbox[s] = cp[s].cum /\ archive[s] = NotArchived
    \/ /\ outbox[s] = 0 /\ archive[s].cum = cp[s].cum /\ 0 < cp[s].cum
       /\ cp[s].cum <= archive[s].confirmed /\ Covered(s, archive[s].confirmed)

\* Every stream's claim is kept.
ClaimInv ==
    /\ outbox \in [Streams -> 0 .. Cap]
    /\ archive \in [Streams -> [cum : 0 .. Cap, confirmed : 0 .. Cap]]
    /\ \A s \in Streams : Kept(s)

\* The reconciliation checkpoint is one an observation set.
ReconType == recon.depth \in Depths \cup {0} /\ recon.block \in 0 .. MaxHeight

\* Every amount on the chain was exported.
ChainInv ==
    /\ chain \in Seq([Streams -> 0 .. Cap]) /\ Len(chain) \in 1 .. MaxHeight
    /\ \A b \in DOMAIN chain : \A s \in Streams : Covered(s, chain[b][s])

\* So was every amount of an observation that is on its way.
ObservedInv ==
    \A o \in observed :
        /\ o.depth \in Depths /\ o.block \in 1 .. MaxHeight
        /\ DOMAIN o.settled \subseteq Streams
        /\ \A s \in DOMAIN o.settled : o.settled[s] \in 0 .. Cap /\ Covered(s, o.settled[s])

\* What was exported is an amount of the outbox.
ExportedType == \A x \in exported : x.stream \in Streams /\ x.cum \in 0 .. Cap

\* The states of ProviderSettlementManager.
Manager ==
    [pending : 0 .. MaxProposals, active : 0 .. MaxProposals, stored : 0 .. MaxProposals,
     expired : SUBSET Nat, stopped : SUBSET Nat, next : Nat, usable : BOOLEAN, faults : Nat]

\* What was stopped is neither active, stored nor pending, and was proposed before.
Durable(p) ==
    /\ p \in Manager /\ 0 < p.next /\ p.next <= MaxProposals + 1
    /\ p.active # 0 => p.stored = p.active
    /\ p.active \notin p.stopped /\ p.stored \notin p.stopped /\ p.pending \notin p.stopped
    /\ \A n \in p.stopped : 0 < n /\ n < p.next
    /\ p.active < p.next /\ p.stored < p.next /\ p.pending < p.next

\* The inductive invariant.
IInv ==
    /\ OfferInv /\ CheckpointInv /\ BalanceInv /\ ClaimInv /\ ReconType /\ ChainInv
    /\ ObservedInv /\ ExportedType /\ Durable(prov)

----------------------------------------------------------------------------
(* Facts about the tables.                                                 *)

\* A claim stays covered while claims are exported.
LEMMA CoveredStays ==
  ASSUME exported \subseteq exported', NEW s, NEW n, Covered(s, n) PROVE Covered(s, n)'
BY DEF Covered

\* What a step leaves alone stays as it was.
LEMMA ReceiptsFrame ==
  ASSUME IInv, UNCHANGED receipts PROVE (OfferInv /\ CheckpointInv /\ BalanceInv)'
BY DEF IInv, OfferInv, Saved, CheckpointInv, BalanceInv, receipts

LEMMA ClaimsFrame ==
  ASSUME IInv, UNCHANGED <<receipts, claims, exported>> PROVE (ClaimInv /\ ReconType)'
BY DEF IInv, ClaimInv, Kept, Covered, ReconType, receipts, claims

LEMMA WorldFrame == ASSUME IInv, UNCHANGED <<world, exported>> PROVE (ChainInv /\ ExportedType)'
BY DEF IInv, ChainInv, ExportedType, Covered, world

LEMMA ObservedFrame == ASSUME IInv, observed' \subseteq observed, UNCHANGED exported PROVE ObservedInv'
BY DEF IInv, ObservedInv, Covered

LEMMA ProvStays == ASSUME IInv, UNCHANGED prov PROVE Durable(prov)'
BY DEF IInv, Durable

\* A fresh database satisfies it.
LEMMA InitInv == ASSUME Init PROVE IInv
<1> USE SettlementAssumption DEF Init
<1>1. OfferInv
  <2>1. Saved = {}
    BY DEF Saved
  <2>2. Cardinality(Saved) <= MaxStates
    BY <2>1, FS_EmptySet
  <2> QED BY <2>2 DEF OfferInv, NoOffer, AnyReceipt, Receipt
<1>2. CheckpointInv
  BY DEF CheckpointInv, NoCheckpoint, Checkpoint
<1>3. BalanceInv
  BY DEF BalanceInv
<1>4. ClaimInv
  BY DEF ClaimInv, Kept, NotArchived, NoCheckpoint
<1>5. ReconType
  BY DEF ReconType
<1>6. ChainInv
  <2> DEFINE first == [s \in Streams |-> 0]
  <2>1. first \in [Streams -> 0 .. Cap] /\ \A s \in Streams : first[s] = 0
    OBVIOUS
  <2>2. chain = <<first>>
    OBVIOUS
  <2> HIDE DEF first
  <2>3. chain \in Seq([Streams -> 0 .. Cap]) /\ Len(chain) = 1 /\ DOMAIN chain = {1}
    BY <2>1, <2>2
  <2>4. chain[1] = first
    BY <2>2
  <2> QED BY <2>1, <2>3, <2>4 DEF ChainInv, Covered
<1>7. ObservedInv /\ ExportedType
  BY DEF ObservedInv, ExportedType
<1>8. Durable(prov)
  <2> DEFINE yes == TRUE
  <2>1. yes \in BOOLEAN /\ prov = [pending |-> 0, active |-> 0, stored |-> 0, expired |-> {},
           stopped |-> {}, next |-> 1, usable |-> yes, faults |-> MaxFaults]
    OBVIOUS
  <2> HIDE DEF yes
  <2> QED BY <2>1 DEF Durable, Manager
<1> QED BY <1>1, <1>2, <1>3, <1>4, <1>5, <1>6, <1>7, <1>8 DEF IInv

----------------------------------------------------------------------------
(* Offers.                                                                 *)

\* save_routing_offer_state keeps the table within its capacity.
LEMMA SaveFits ==
  ASSUME IInv, NEW s \in Streams, AuthOf[s] \notin expired, NEW r \in Receipt(s),
         save_routing_offer_state(s, r)
  PROVE  /\ offer' \in [Streams -> AnyReceipt] /\ \A t \in Streams : offer'[t] \in Receipt(t)
         /\ Cardinality(Saved') <= MaxStates
<1> USE SettlementAssumption
<1>1. offer' = [t \in Streams |-> IF t = s THEN r
                                  ELSE IF t \in Live(offer) THEN offer[t] ELSE NoOffer]
  BY DEF save_routing_offer_state
<1>2. \A t \in Streams : Receipt(t) \subseteq AnyReceipt /\ NoOffer \in Receipt(t)
  BY DEF Receipt, AnyReceipt, NoOffer
<1>3. \A t \in Streams : offer[t] \in Receipt(t)
  BY DEF IInv, OfferInv
<1>4. \A t \in Streams : offer'[t] \in Receipt(t)
  BY <1>1, <1>2, <1>3
<1>5. offer' \in [Streams -> AnyReceipt]
  BY <1>1, <1>2, <1>3
<1>6. Saved' \subseteq Live(offer) \cup {s}
  BY <1>1 DEF Saved
<1>7. IsFiniteSet(Saved) /\ IsFiniteSet(Live(offer)) /\ Live(offer) \subseteq Saved
  BY FS_Subset DEF Saved, Live
<1>8. Cardinality(Saved') <= MaxStates
  <2>1. CASE offer[s] # NoOffer
    <3>1. Saved' \subseteq Saved
      BY <1>6, <1>7, <2>1 DEF Saved
    <3>2. Cardinality(Saved') <= Cardinality(Saved)
      BY <1>7, <3>1, FS_Subset
    <3>3. Cardinality(Saved) \in Nat /\ Cardinality(Saved') \in Nat
      BY <1>7, <3>1, FS_Subset, FS_CardinalityType
    <3> QED BY <3>2, <3>3 DEF IInv, OfferInv
  <2>2. CASE Cardinality(Live(offer)) < MaxStates
    <3> DEFINE live == Live(offer)
    <3> HIDE DEF live
    <3>1. IsFiniteSet(live) /\ Saved' \subseteq live \cup {s} /\ Cardinality(live) < MaxStates
      BY <1>6, <1>7, <2>2 DEF live
    <3>2. IsFiniteSet(live \cup {s}) /\ Cardinality(live \cup {s}) <= Cardinality(live) + 1
      <4>1. Cardinality(live) \in Nat
        BY <3>1, FS_CardinalityType
      <4>2. IsFiniteSet(live \cup {s}) /\ Cardinality(live \cup {s}) = IF s \in live THEN Cardinality(live)
                                                                       ELSE Cardinality(live) + 1
        BY SMTT(30), <3>1, FS_AddElement
      <4> QED BY <4>1, <4>2
    <3>3. IsFiniteSet(Saved') /\ Cardinality(Saved') <= Cardinality(live \cup {s})
      BY <3>1, <3>2, FS_Subset
    <3>4. Cardinality(live) \in Nat /\ Cardinality(live \cup {s}) \in Nat /\ Cardinality(Saved') \in Nat
      BY <3>1, <3>2, <3>3, FS_CardinalityType
    <3> QED BY <3>1, <3>2, <3>3, <3>4
  <2> QED BY <2>1, <2>2 DEF save_routing_offer_state
<1> QED BY <1>4, <1>5, <1>8

\* A new offer, or the pending one again.
LEMMA OfferStep ==
  ASSUME IInv, NEW s \in Streams, NEW charge \in Charges[s], make_routing_receipt_offer(s, charge)
  PROVE  IInv'
<1> USE SettlementAssumption
<1>1. OfferInv'
  <2>0. offer[s] \in Receipt(s) /\ \A x \in sent : x.stream \in Streams /\ x.receipt \in Receipt(x.stream)
    BY DEF IInv, OfferInv
  <2>1. CASE offer[s].seq < MaxSequence[s] /\ NewOffer(s, charge)
    <3> DEFINE r == NextReceipt(s, charge)
    <3>1. r.cum <= Cap /\ save_routing_offer_state(s, r)
          /\ sent' \in {sent, sent \cup {[stream |-> s, receipt |-> r]}}
      BY <2>1 DEF NewOffer
    <3>2. r \in Receipt(s)
      <4>1. r = [seq |-> offer[s].seq + 1, cum |-> offer[s].cum + charge, charge |-> charge]
        BY DEF NextReceipt
      <4>2. offer[s].seq \in Nat /\ offer[s].cum \in Nat /\ charge \in Nat /\ MaxSequence[s] \in Nat
        BY <2>0 DEF Receipt
      <4>3. offer[s].seq + 1 \in 0 .. MaxSequence[s] /\ offer[s].cum + charge \in 0 .. Cap
        BY <2>1, <3>1, <4>1, <4>2
      <4> QED BY <4>1, <4>3 DEF Receipt
    <3> HIDE DEF r
    <3>3. AuthOf[s] \notin expired
      BY DEF make_routing_receipt_offer
    <3>4. \A x \in sent' : x.stream \in Streams /\ x.receipt \in Receipt(x.stream)
      BY <2>0, <3>1, <3>2
    <3> QED BY <3>1, <3>2, <3>3, <3>4, SaveFits DEF OfferInv, Receipt
  <2>2. CASE PendingOffer(s)
    <3>1. \A x \in sent' : x.stream \in Streams /\ x.receipt \in Receipt(x.stream)
      BY <2>0, <2>2 DEF PendingOffer
    <3>2. Saved' = Saved
      BY <2>2 DEF PendingOffer, Saved
    <3> QED BY <2>2, <3>1, <3>2 DEF PendingOffer, IInv, OfferInv, Receipt
  <2> QED BY <2>1, <2>2 DEF make_routing_receipt_offer
<1>2. UNCHANGED <<cp, spent, receivable, claims, world, observed, exported, prov>>
  BY DEF make_routing_receipt_offer
<1>3. CheckpointInv' /\ BalanceInv' /\ ReconType' /\ ExportedType' /\ Durable(prov')
  BY <1>2 DEF IInv, CheckpointInv, BalanceInv, ReconType, ExportedType, claims
<1>4. ClaimInv'
  BY <1>2 DEF IInv, ClaimInv, Kept, Covered, claims
<1> QED BY <1>1, <1>2, <1>3, <1>4, WorldFrame, ObservedFrame DEF IInv

----------------------------------------------------------------------------
(* Acceptance of a receipt.                                                *)

\* The accepted receipt becomes the claim, and an archived claim is reopened.
LEMMA AcceptStep ==
  ASSUME IInv, NEW x \in sent, accept_service_receipt(x.stream, x.receipt) PROVE IInv'
<1> USE SettlementAssumption
<1> DEFINE s == x.stream
           r == x.receipt
           delta == r.cum - cp[s].cum
<1>1. s \in Streams /\ r \in Receipt(s)
  BY DEF IInv, OfferInv
<1>2. /\ r.cum >= cp[s].cum + r.charge
      /\ outbox' = [outbox EXCEPT ![s] = r.cum] /\ archive' = [archive EXCEPT ![s] = NotArchived]
      /\ cp' = [cp EXCEPT ![s] = [seq |-> r.seq, cum |-> r.cum]]
      /\ spent' = [spent EXCEPT ![AuthOf[s]] = @ + delta] /\ receivable' = receivable + delta
      /\ UNCHANGED <<offer, sent, recon, expired, world, observed, exported, prov>>
  BY DEF accept_service_receipt, Advances, Claim, Accepted
<1>3. r.seq \in 0 .. MaxSequence[s] /\ r.cum \in 0 .. Cap /\ r.charge \in Nat
      /\ cp[s].cum \in Nat /\ cp[s].seq \in Nat /\ MaxSequence[s] \in Nat
  BY <1>1 DEF Receipt, IInv, CheckpointInv, Checkpoint
<1> HIDE DEF s, r
<1>4. CheckpointInv'
  BY <1>1, <1>2, <1>3 DEF IInv, CheckpointInv, Checkpoint
<1>5. BalanceInv'
  <2>1. delta \in Nat
    BY <1>2, <1>3
  <2> HIDE DEF delta
  <2> QED BY <1>1, <1>2, <2>1 DEF IInv, BalanceInv
<1>6. ClaimInv'
  <2>1. outbox' \in [Streams -> 0 .. Cap]
    BY <1>1, <1>2, <1>3 DEF IInv, ClaimInv
  <2>2. archive' \in [Streams -> [cum : 0 .. Cap, confirmed : 0 .. Cap]]
    BY <1>1, <1>2, <1>3 DEF IInv, ClaimInv, NotArchived
  <2>3. ASSUME NEW t \in Streams PROVE Kept(t)'
    <3>1. Kept(t)
      BY DEF IInv, ClaimInv
    <3>2. CASE t = s
      BY <1>1, <1>2, <3>2 DEF Kept, IInv, ClaimInv, CheckpointInv
    <3>3. CASE t # s
      <4>1. outbox'[t] = outbox[t] /\ archive'[t] = archive[t] /\ cp'[t] = cp[t] /\ exported' = exported
        BY <1>1, <1>2, <3>3 DEF IInv, ClaimInv, CheckpointInv
      <4> QED BY <3>1, <4>1 DEF Kept, Covered
    <3> QED BY <3>2, <3>3
  <2> QED BY <2>1, <2>2, <2>3 DEF ClaimInv
<1>7. OfferInv' /\ ReconType'
  BY <1>2 DEF IInv, OfferInv, Saved, ReconType
<1> QED BY <1>2, <1>4, <1>5, <1>6, <1>7, WorldFrame, ObservedFrame, ProvStays DEF IInv

\* An authorization of a payer that expires changes no table.
LEMMA ExpireStep == ASSUME IInv, NEW a \in Auths, expire(a) PROVE IInv'
<1>1. UNCHANGED <<receipts, claims, world, observed, exported, prov>>
  BY DEF expire
<1> QED BY <1>1, ReceiptsFrame, ClaimsFrame, WorldFrame, ObservedFrame, ProvStays DEF IInv

----------------------------------------------------------------------------
(* Sums: facts about SumFunctionOnSet(f, S), for every f and finite S.     *)
(* The library's induction theorems take a predicate as a parameter; here  *)
(* every induction is a least counterexample: among the sets that violate  *)
(* the claim there is a smallest one (SmallestSet).                        *)

AnyOf(s) == CHOOSE x \in s : TRUE

\* g is the function that the fold computes over the subsets of S.
Adds(g, f, S) ==
    g = [s \in SUBSET S |-> IF s = {} THEN 0 ELSE f[AnyOf(s)] + g[s \ {AnyOf(s)}]]

\* The same, over the subsets of S with at most n elements.
Small(S, n) == {s \in SUBSET S : Cardinality(s) <= n}
AddsUpTo(g, f, S, n) ==
    g = [s \in Small(S, n) |-> IF s = {} THEN 0 ELSE f[AnyOf(s)] + g[s \ {AnyOf(s)}]]

----------------------------------------------------------------------------
(* Least counterexamples.                                                  *)

\* A set of naturals has a least element.
LEMMA LeastNumber ==
  ASSUME NEW T \in SUBSET Nat, T # {} PROVE \E n \in T : \A m \in T : n <= m
<1>1. IsWellFoundedOn(OpToRel(<, Nat), Nat)
  BY NatLessThanWellFounded
<1>2. PICK n \in T : \A m \in T : ~(<<m, n>> \in OpToRel(<, Nat))
  BY <1>1, WFMin
<1>3. ASSUME NEW m \in T PROVE n <= m
  <2>1. <<m, n>> \notin OpToRel(<, Nat)
    BY <1>2
  <2>2. ~(m < n)
    BY <2>1, Zenon DEF OpToRel
  <2> QED BY <2>2
<1> QED BY <1>3

\* A set of finite sets has a smallest element.
LEMMA SmallestSet ==
  ASSUME NEW F, F # {}, \A s \in F : IsFiniteSet(s)
  PROVE  \E s \in F : \A t \in F : Cardinality(s) <= Cardinality(t)
<1> DEFINE sizes == {Cardinality(s) : s \in F}
<1>1. sizes \in SUBSET Nat /\ sizes # {}
  BY FS_CardinalityType
<1>2. PICK n \in sizes : \A m \in sizes : n <= m
  <2> HIDE DEF sizes
  <2> QED BY <1>1, LeastNumber
<1> QED BY <1>2

\* Any element of a nonempty finite set leaves a smaller one.
LEMMA Smaller ==
  ASSUME NEW s, IsFiniteSet(s), NEW x \in s
  PROVE  /\ IsFiniteSet(s \ {x}) /\ Cardinality(s \ {x}) = Cardinality(s) - 1
         /\ Cardinality(s) \in Nat /\ Cardinality(s \ {x}) \in Nat
BY FS_RemoveElement, FS_CardinalityType

LEMMA AnyOfIn == ASSUME NEW s, s # {} PROVE AnyOf(s) \in s
BY DEF AnyOf

----------------------------------------------------------------------------
(* The sum obeys its defining equation.                                    *)

LEMMA SumUnfolds ==
  ASSUME NEW f, NEW S PROVE SumFunctionOnSet(f, S) = (CHOOSE g : Adds(g, f, S))[S]
BY Zenon DEF SumFunctionOnSet, FoldFunctionOnSet, MapThenFoldSet, Adds, AnyOf

\* The fold is defined over the small subsets, by induction on their size.
LEMMA SmallSumExists ==
  ASSUME NEW f, NEW S, IsFiniteSet(S), NEW n \in Nat PROVE \E g : AddsUpTo(g, f, S, n)
<1> DEFINE bad == {m \in Nat : ~ \E g : AddsUpTo(g, f, S, m)}
<1> SUFFICES ASSUME bad # {} PROVE FALSE
  OBVIOUS
<1>1. PICK m \in bad : \A k \in bad : m <= k
  <2>1. bad \in SUBSET Nat
    OBVIOUS
  <2> HIDE DEF bad
  <2> QED BY <2>1, LeastNumber
<1>2. \A s \in SUBSET S : IsFiniteSet(s) /\ Cardinality(s) \in Nat
  BY FS_Subset, FS_CardinalityType
<1>3. CASE m = 0
  <2> DEFINE g == [s \in Small(S, m) |-> 0]
  <2>1. \A s \in Small(S, m) : s = {}
    BY <1>2, <1>3, FS_EmptySet DEF Small
  <2>2. g = [s \in Small(S, m) |-> IF s = {} THEN 0 ELSE f[AnyOf(s)] + g[s \ {AnyOf(s)}]]
    BY <2>1
  <2>3. AddsUpTo(g, f, S, m)
    BY <2>2, Zenon DEF AddsUpTo
  <2> QED BY <2>3
<1>4. CASE m # 0
  <2>1. m \in Nat /\ m - 1 \in Nat /\ m - 1 \notin bad
    BY <1>1, <1>4
  <2>2. PICK h : AddsUpTo(h, f, S, m - 1)
    BY <2>1
  <2> DEFINE value(k, s) == IF s = {} THEN 0 ELSE f[AnyOf(s)] + k[s \ {AnyOf(s)}]
             g == [s \in Small(S, m) |-> value(h, s)]
  <2>3. \A s \in Small(S, m - 1) : s \in Small(S, m) /\ g[s] = h[s]
    <3> SUFFICES ASSUME NEW s \in Small(S, m - 1) PROVE s \in Small(S, m) /\ g[s] = h[s]
      BY Zenon
    <3>1. s \in Small(S, m)
      BY <2>1, <1>2 DEF Small
    <3>2. h[s] = value(h, s)
      BY Zenon, <2>2 DEF AddsUpTo
    <3> QED BY <3>1, <3>2
  <2>4. ASSUME NEW s \in Small(S, m), s # {} PROVE s \ {AnyOf(s)} \in Small(S, m - 1)
    <3>1. IsFiniteSet(s) /\ AnyOf(s) \in s /\ s \in SUBSET S
      BY <2>4, <1>2, AnyOfIn DEF Small
    <3>2. Cardinality(s \ {AnyOf(s)}) = Cardinality(s) - 1 /\ Cardinality(s) \in Nat
      BY <3>1, Smaller
    <3> QED BY <3>1, <3>2, <2>1 DEF Small
  <2>5. \A s \in Small(S, m) : value(g, s) = value(h, s)
    BY Zenon, <2>3, <2>4
  <2>6. g = [s \in Small(S, m) |-> value(g, s)]
    BY Zenon, <2>5
  <2>7. AddsUpTo(g, f, S, m)
    <3> HIDE DEF g
    <3> QED BY Zenon, <2>6 DEF AddsUpTo
  <2> QED BY <2>7
<1> QED BY <1>3, <1>4

\* So it is over all subsets.
LEMMA SumExists ==
  ASSUME NEW f, NEW S, IsFiniteSet(S) PROVE Adds(CHOOSE g : Adds(g, f, S), f, S)
<1>1. Cardinality(S) \in Nat
  BY FS_CardinalityType
<1>2. Small(S, Cardinality(S)) = SUBSET S
  BY FS_Subset DEF Small
<1>3. \E g : AddsUpTo(g, f, S, Cardinality(S))
  BY <1>1, SmallSumExists
<1>4. \E g : Adds(g, f, S)
  BY <1>2, <1>3 DEF Adds, AddsUpTo
<1> QED BY <1>4

\* What the fold computes for a subset depends only on the values there.
LEMMA SumUnique ==
  ASSUME NEW f, NEW h, NEW S, NEW T, IsFiniteSet(T), T \subseteq S,
         NEW p, NEW q, Adds(p, f, S), Adds(q, h, T), \A x \in T : f[x] = h[x]
  PROVE  p[T] = q[T]
<1> DEFINE bad == {s \in SUBSET T : p[s] # q[s]}
<1> SUFFICES ASSUME bad # {} PROVE FALSE
  OBVIOUS
<1>1. \A s \in bad : IsFiniteSet(s)
  BY FS_Subset
<1>2. PICK s \in bad : \A t \in bad : Cardinality(s) <= Cardinality(t)
  <2> HIDE DEF bad
  <2> QED BY <1>1, SmallestSet
<1>3. s \in SUBSET T /\ p[s] # q[s] /\ IsFiniteSet(s) /\ s \in SUBSET S
  BY <1>1, <1>2
<1>4. /\ p[s] = IF s = {} THEN 0 ELSE f[AnyOf(s)] + p[s \ {AnyOf(s)}]
      /\ q[s] = IF s = {} THEN 0 ELSE h[AnyOf(s)] + q[s \ {AnyOf(s)}]
  BY Zenon, <1>3 DEF Adds
<1>5. s # {}
  BY <1>3, <1>4
<1>6. AnyOf(s) \in s
  BY <1>5, AnyOfIn
<1>7. f[AnyOf(s)] = h[AnyOf(s)]
  BY <1>6, <1>3
<1>8. s \ {AnyOf(s)} \in bad
  BY <1>3, <1>4, <1>5, <1>7
<1>9. Cardinality(s) <= Cardinality(s \ {AnyOf(s)})
  BY <1>2, <1>8
<1>10. IsFiniteSet(s)
  BY <1>3
<1>11. Cardinality(s \ {AnyOf(s)}) = Cardinality(s) - 1 /\ Cardinality(s) \in Nat
  BY <1>6, <1>10, Smaller
<1> QED BY <1>9, <1>11

----------------------------------------------------------------------------
(* What the proofs cite about sums.                                        *)

\* The sum over no element.
LEMMA SumEmpty == ASSUME NEW f PROVE SumFunctionOnSet(f, {}) = 0
<1>1. Adds(CHOOSE g : Adds(g, f, {}), f, {})
  BY FS_EmptySet, SumExists
<1> QED BY Zenon, <1>1, SumUnfolds DEF Adds

\* Functions with the same values have the same sum.
LEMMA SumSame ==
  ASSUME NEW f, NEW h, NEW S, IsFiniteSet(S), \A x \in S : f[x] = h[x]
  PROVE  SumFunctionOnSet(f, S) = SumFunctionOnSet(h, S)
<1> DEFINE p == CHOOSE g : Adds(g, f, S)
           q == CHOOSE g : Adds(g, h, S)
<1>1. Adds(p, f, S) /\ Adds(q, h, S)
  BY SumExists
<1>2. SumFunctionOnSet(f, S) = p[S] /\ SumFunctionOnSet(h, S) = q[S]
  BY SumUnfolds
<1> HIDE DEF p, q
<1>3. S \subseteq S
  OBVIOUS
<1>4. p[S] = q[S]
  BY <1>1, <1>3, SumUnique
<1> QED BY <1>2, <1>4

\* One step of the fold.
LEMMA SumFold ==
  ASSUME NEW f, NEW S, IsFiniteSet(S), S # {}
  PROVE  SumFunctionOnSet(f, S) = f[AnyOf(S)] + SumFunctionOnSet(f, S \ {AnyOf(S)})
<1> DEFINE R == S \ {AnyOf(S)}
           p == CHOOSE g : Adds(g, f, S)
           q == CHOOSE g : Adds(g, f, R)
<1>1. AnyOf(S) \in S /\ IsFiniteSet(R) /\ R \subseteq S
  BY AnyOfIn, Smaller
<1>2. Adds(p, f, S) /\ Adds(q, f, R)
  BY <1>1, SumExists
<1>3. SumFunctionOnSet(f, S) = p[S] /\ SumFunctionOnSet(f, R) = q[R]
  BY SumUnfolds
<1> HIDE DEF p, q
<1>4. p[R] = q[R]
  <2> HIDE DEF R
  <2>1. R \subseteq R /\ \A x \in R : f[x] = f[x]
    OBVIOUS
  <2> QED BY <1>1, <1>2, <2>1, SumUnique
<1>5. p[S] = f[AnyOf(S)] + p[R]
  BY Zenon, <1>2 DEF Adds
<1> QED BY <1>3, <1>4, <1>5

\* A sum of naturals is a natural.
LEMMA SumNat ==
  ASSUME NEW f, NEW S, IsFiniteSet(S), \A x \in S : f[x] \in Nat
  PROVE  SumFunctionOnSet(f, S) \in Nat
<1> DEFINE bad == {s \in SUBSET S : SumFunctionOnSet(f, s) \notin Nat}
<1> SUFFICES ASSUME bad # {} PROVE FALSE
  OBVIOUS
<1>1. \A s \in bad : IsFiniteSet(s)
  BY FS_Subset
<1>2. PICK s \in bad : \A t \in bad : Cardinality(s) <= Cardinality(t)
  <2> HIDE DEF bad
  <2> QED BY <1>1, SmallestSet
<1>3. IsFiniteSet(s) /\ s \in SUBSET S /\ s # {}
  BY <1>1, <1>2, SumEmpty
<1>4. AnyOf(s) \in s
  BY <1>3, AnyOfIn
<1>5. SumFunctionOnSet(f, s \ {AnyOf(s)}) \in Nat
  <2>1. ~(Cardinality(s) <= Cardinality(s \ {AnyOf(s)}))
    BY <1>3, <1>4, Smaller
  <2>2. s \ {AnyOf(s)} \notin bad
    BY <1>2, <2>1
  <2> QED BY <2>2, <1>3
<1>6. SumFunctionOnSet(f, s) = f[AnyOf(s)] + SumFunctionOnSet(f, s \ {AnyOf(s)})
  BY <1>3, SumFold
<1>7. f[AnyOf(s)] \in Nat
  BY <1>3, <1>4
<1>8. SumFunctionOnSet(f, s) \in Nat
  BY <1>5, <1>6, <1>7
<1> QED BY <1>2, <1>8

\* The order of the summands does not matter: any element may be taken out first.
LEMMA SumRemove ==
  ASSUME NEW f, NEW S, IsFiniteSet(S), \A x \in S : f[x] \in Nat, NEW e \in S
  PROVE  SumFunctionOnSet(f, S) = f[e] + SumFunctionOnSet(f, S \ {e})
<1> DEFINE Splits(s) == \A x \in s : SumFunctionOnSet(f, s) = f[x] + SumFunctionOnSet(f, s \ {x})
           bad == {s \in SUBSET S : ~Splits(s)}
<1> SUFFICES ASSUME bad # {} PROVE FALSE
  OBVIOUS
<1>1. \A s \in bad : IsFiniteSet(s)
  BY FS_Subset
<1>2. PICK s \in bad : \A t \in bad : Cardinality(s) <= Cardinality(t)
  <2> HIDE DEF bad
  <2> QED BY <1>1, SmallestSet
<1>3. IsFiniteSet(s) /\ s \in SUBSET S
  BY <1>1, <1>2
<1>4. PICK x \in s : SumFunctionOnSet(f, s) # f[x] + SumFunctionOnSet(f, s \ {x})
  BY Zenon, <1>2
<1> DEFINE y == AnyOf(s)
<1>5. y \in s /\ SumFunctionOnSet(f, s) = f[y] + SumFunctionOnSet(f, s \ {y})
  BY <1>3, AnyOfIn, SumFold
<1> HIDE DEF y
<1>6. x # y
  BY <1>4, <1>5
<1>7. ASSUME NEW z \in s PROVE Splits(s \ {z})
  <2>1. ~(Cardinality(s) <= Cardinality(s \ {z}))
    <3>1. Cardinality(s \ {z}) = Cardinality(s) - 1 /\ Cardinality(s) \in Nat
      BY <1>3, Smaller, Zenon
    <3> QED BY <3>1
  <2>2. s \ {z} \notin bad
    BY <1>2, <2>1
  <2> QED BY Zenon, <2>2, <1>3
<1>8. /\ SumFunctionOnSet(f, s \ {y}) = f[x] + SumFunctionOnSet(f, (s \ {y}) \ {x})
      /\ SumFunctionOnSet(f, s \ {x}) = f[y] + SumFunctionOnSet(f, (s \ {x}) \ {y})
  BY <1>5, <1>6, <1>7
<1>9. (s \ {y}) \ {x} = (s \ {x}) \ {y}
  OBVIOUS
<1>10. f[x] \in Nat /\ f[y] \in Nat /\ SumFunctionOnSet(f, (s \ {x}) \ {y}) \in Nat
  <2>1. IsFiniteSet((s \ {x}) \ {y})
    BY Zenon, <1>3, FS_RemoveElement
  <2>2. \A z \in (s \ {x}) \ {y} : f[z] \in Nat
    BY <1>3
  <2> QED BY <1>3, <1>5, <2>1, <2>2, SumNat
<1> QED BY <1>4, <1>5, <1>8, <1>9, <1>10

\* One more summand.
LEMMA SumAdd ==
  ASSUME NEW f, NEW S, IsFiniteSet(S), NEW e, e \notin S, \A x \in S \cup {e} : f[x] \in Nat
  PROVE  SumFunctionOnSet(f, S \cup {e}) = f[e] + SumFunctionOnSet(f, S)
<1>1. IsFiniteSet(S \cup {e}) /\ (S \cup {e}) \ {e} = S
  BY FS_AddElement
<1> QED BY <1>1, SumRemove

\* One summand changes.
LEMMA SumChange ==
  ASSUME NEW f, NEW h, NEW S, IsFiniteSet(S), NEW e \in S,
         \A x \in S : f[x] \in Nat /\ h[x] \in Nat, \A x \in S \ {e} : f[x] = h[x]
  PROVE  SumFunctionOnSet(h, S) = SumFunctionOnSet(f, S) + (h[e] - f[e])
<1>1. IsFiniteSet(S \ {e})
  BY FS_RemoveElement
<1>2. SumFunctionOnSet(f, S \ {e}) = SumFunctionOnSet(h, S \ {e})
  BY <1>1, SumSame
<1>3. SumFunctionOnSet(f, S \ {e}) \in Nat
  BY <1>1, SumNat
<1> QED BY <1>2, <1>3, SumRemove

\* A sum of zeros.
LEMMA SumZero ==
  ASSUME NEW f, NEW S, IsFiniteSet(S), \A x \in S : f[x] = 0
  PROVE  SumFunctionOnSet(f, S) = 0
<1> DEFINE bad == {s \in SUBSET S : SumFunctionOnSet(f, s) # 0}
<1> SUFFICES ASSUME bad # {} PROVE FALSE
  OBVIOUS
<1>1. \A s \in bad : IsFiniteSet(s)
  BY FS_Subset
<1>2. PICK s \in bad : \A t \in bad : Cardinality(s) <= Cardinality(t)
  <2> HIDE DEF bad
  <2> QED BY <1>1, SmallestSet
<1>3. IsFiniteSet(s) /\ s \in SUBSET S /\ s # {}
  BY <1>1, <1>2, SumEmpty
<1>4. AnyOf(s) \in s
  BY <1>3, AnyOfIn
<1>5. SumFunctionOnSet(f, s \ {AnyOf(s)}) = 0
  <2>1. ~(Cardinality(s) <= Cardinality(s \ {AnyOf(s)}))
    BY <1>3, <1>4, Smaller
  <2>2. s \ {AnyOf(s)} \notin bad
    BY <1>2, <2>1
  <2> QED BY <2>2, <1>3
<1>6. SumFunctionOnSet(f, s) = f[AnyOf(s)] + SumFunctionOnSet(f, s \ {AnyOf(s)})
  BY <1>3, SumFold
<1>7. f[AnyOf(s)] = 0
  BY <1>3, <1>4
<1> QED BY <1>2, <1>5, <1>6, <1>7

----------------------------------------------------------------------------
(* The accounts are exact.                                                 *)

\* The receipts of s that its checkpoint covers.
Covers(s) == {x \in sent : x.stream = s /\ x.receipt.seq <= cp[s].seq}

\* The streams under an authorization.
Under(a) == {s \in Streams : AuthOf[s] = a}

\* The offer of a stream that may still earn is acknowledged, or the next receipt after
\* the acknowledged one.
InStep(s) ==
    \/ offer[s].seq = cp[s].seq /\ offer[s].cum = cp[s].cum
    \/ offer[s].seq = cp[s].seq + 1 /\ offer[s].cum = cp[s].cum + offer[s].charge

\* Whatever is on the wire is acknowledged, or is that offer: sent twice, it is the same.
OneAhead == \A x \in sent : x.receipt.seq <= cp[x.stream].seq \/ x.receipt = offer[x.stream]
                            \/ AuthOf[x.stream] \in expired

OffersInStep ==
    /\ IsFiniteSet(sent) /\ sent \subseteq [stream : Streams, receipt : AnyReceipt]
    /\ \A s \in Streams : AuthOf[s] \in expired \/ InStep(s)
    /\ OneAhead

\* The invariant: the offers are in step, and the accounts are exact.
ExactInv == OffersInStep /\ AccountedExactly

\* The charges and the amounts earned are naturals, over finite sets.
LEMMA SummandsAreNatural ==
  ASSUME IInv, OffersInStep
  PROVE  /\ \A s \in Streams : Earned[s] = cp[s].cum /\ Earned[s] \in Nat
         /\ \A x \in sent : Charge[x] = x.receipt.charge /\ Charge[x] \in Nat
         /\ \A s \in Streams : IsFiniteSet(Covers(s))
         /\ IsFiniteSet(Streams) /\ \A a \in Auths : IsFiniteSet(Under(a))
<1>1. \A s \in Streams : Covers(s) \in SUBSET sent
  BY DEF Covers
<1>2. \A a \in Auths : Under(a) \in SUBSET Streams
  BY DEF Under
<1>3. IsFiniteSet(sent) /\ IsFiniteSet(Streams)
  BY SettlementAssumption DEF OffersInStep
<1>4. \A s \in Streams : cp[s].cum \in Nat
  BY DEF IInv, CheckpointInv, Checkpoint
<1>5. \A x \in sent : x.receipt.charge \in Nat
  BY DEF OffersInStep, AnyReceipt
<1> QED BY <1>1, <1>2, <1>3, <1>4, <1>5, FS_Subset DEF Earned, Charge

\* A fresh database owes nothing.
LEMMA InitExact == ASSUME Init PROVE ExactInv
<1> USE SettlementAssumption DEF Init
<1>1. OffersInStep
  BY SMTT(30), FS_EmptySet DEF OffersInStep, OneAhead, InStep, NoOffer, NoCheckpoint
<1>2. IInv
  BY InitInv
<1>3. \A s \in Streams : Earned[s] = 0
  BY SMTT(30) DEF Earned, NoCheckpoint
<1>4. SumFunctionOnSet(Earned, Streams) = 0 /\ \A a \in Auths : SumFunctionOnSet(Earned, Under(a)) = 0
  <2>1. \A a \in Auths : \A s \in Under(a) : Earned[s] = 0
    BY SMTT(30), <1>3 DEF Under
  <2> QED BY SMTT(30), <1>1, <1>2, <1>3, <2>1, SumZero, SummandsAreNatural
<1>5. \A s \in Streams : Covers(s) = {}
  BY SMTT(30) DEF Covers
<1>6. AccountedExactly
  BY SMTT(30), <1>4, <1>5, SumEmpty DEF AccountedExactly, Covers, Under, NoCheckpoint
<1> QED BY SMTT(30), <1>1, <1>6 DEF ExactInv

\* A step that leaves the receipts alone leaves the accounts alone.
LEMMA ExactFrame ==
  ASSUME ExactInv, UNCHANGED receipts, expired \subseteq expired' PROVE ExactInv'
BY DEF ExactInv, OffersInStep, InStep, OneAhead, AccountedExactly, Earned, Charge, receipts

\* An offer on the wire is not yet covered by a checkpoint: no account moves.
LEMMA OfferExact ==
  ASSUME IInv, ExactInv, NEW s \in Streams, NEW charge \in Charges[s],
         make_routing_receipt_offer(s, charge)
  PROVE  ExactInv'
<1> USE SettlementAssumption
<1> DEFINE r == NextReceipt(s, charge)
<1>1. AuthOf[s] \notin expired /\ UNCHANGED <<cp, spent, receivable, expired>>
  BY DEF make_routing_receipt_offer
<1>2. InStep(s) /\ charge \in Nat /\ offer[s] \in AnyReceipt /\ cp[s] \in Checkpoint
      /\ offer \in [Streams -> AnyReceipt]
  BY <1>1 DEF ExactInv, OffersInStep, IInv, OfferInv, CheckpointInv
<1>3. PICK x \in {[stream |-> s, receipt |-> offer'[s]]} : sent' \in {sent, sent \cup {x}}
  BY SMTT(30), <1>1 DEF make_routing_receipt_offer, NewOffer, PendingOffer, save_routing_offer_state
<1>4. /\ cp[s].seq < offer'[s].seq /\ InStep(s)' /\ offer'[s] \in AnyReceipt
      /\ offer'[s] = offer[s] \/ offer[s].seq = cp[s].seq
  <2>1. CASE NewOffer(s, charge)
    <3>1. offer'[s] = r /\ offer[s].seq = cp[s].seq /\ offer[s].cum = cp[s].cum
      BY SMTT(30), <2>1 DEF NewOffer, save_routing_offer_state
    <3> QED BY SMTT(30), <1>1, <1>2, <3>1 DEF NextReceipt, InStep, AnyReceipt, Checkpoint
  <2>2. CASE PendingOffer(s)
    BY SMTT(30), <1>1, <1>2, <2>2 DEF PendingOffer, InStep
  <2> QED BY SMTT(30), <2>1, <2>2 DEF make_routing_receipt_offer
<1>5. \A t \in Streams \ {s} : offer'[t] = offer[t] \/ AuthOf[t] \in expired
  BY DEF make_routing_receipt_offer, NewOffer, PendingOffer, save_routing_offer_state, Live
<1>6. OffersInStep'
  <2>1. IsFiniteSet(sent') /\ sent' \subseteq [stream : Streams, receipt : AnyReceipt]
    BY SMTT(30), <1>3, <1>4, FS_AddElement DEF ExactInv, OffersInStep
  <2>2. \A t \in Streams : AuthOf[t] \in expired' \/ InStep(t)'
    BY SMTT(30), <1>1, <1>4, <1>5 DEF ExactInv, OffersInStep, InStep
  <2>3. OneAhead'
    <3> SUFFICES ASSUME NEW y \in sent', AuthOf[y.stream] \notin expired'
                 PROVE  y.receipt.seq <= cp'[y.stream].seq \/ y.receipt = offer'[y.stream]
      BY DEF OneAhead
    <3>1. CASE y = x
      BY <1>3, <3>1
    <3>2. CASE y \in sent
      <4>1. y.receipt.seq <= cp[y.stream].seq \/ y.receipt = offer[y.stream]
        BY <1>1, <3>2 DEF ExactInv, OffersInStep, OneAhead
      <4>2. y.stream \in Streams
        BY SMTT(30), <3>2 DEF ExactInv, OffersInStep
      <4>3. CASE y.stream = s
        BY SMTT(30), <1>1, <1>2, <1>4, <4>1, <4>3 DEF AnyReceipt, Checkpoint
      <4>4. CASE y.stream # s
        BY SMTT(30), <1>1, <1>5, <4>1, <4>2, <4>4
      <4> QED BY <4>3, <4>4
    <3> QED BY <1>3, <3>1, <3>2
  <2> QED BY <2>1, <2>2, <2>3 DEF OffersInStep
<1>7. ASSUME NEW t \in Streams
      PROVE  {y \in sent' : y.stream = t /\ y.receipt.seq <= cp'[t].seq} = Covers(t)
  <2>1. x.stream = s /\ ~(x.receipt.seq <= cp[s].seq)
    BY SMTT(30), <1>2, <1>3, <1>4 DEF AnyReceipt, Checkpoint
  <2> QED BY SMTT(30), <1>1, <1>3, <2>1 DEF Covers
<1>8. \A t \in Streams : SumFunctionOnSet(Charge', Covers(t)) = SumFunctionOnSet(Charge, Covers(t))
  <2> SUFFICES ASSUME NEW t \in Streams
               PROVE SumFunctionOnSet(Charge', Covers(t)) = SumFunctionOnSet(Charge, Covers(t))
    OBVIOUS
  <2>1. \A y \in Covers(t) : Charge'[y] = Charge[y]
    BY SMTT(30), <1>3 DEF Covers, Charge
  <2>2. IsFiniteSet(Covers(t))
    BY SMTT(30), SummandsAreNatural DEF ExactInv
  <2> QED BY <2>1, <2>2, SumSame
<1>9. Earned' = Earned
  BY SMTT(30), <1>1 DEF Earned
<1>10. AccountedExactly'
  <2>1. \A t \in Streams :
          cp'[t].cum = SumFunctionOnSet(Charge', {y \in sent' : y.stream = t /\ y.receipt.seq <= cp'[t].seq})
    BY <1>1, <1>7, <1>8 DEF ExactInv, AccountedExactly, Covers
  <2> QED BY SMTT(30), <1>1, <1>9, <2>1 DEF ExactInv, AccountedExactly
<1> QED BY SMTT(30), <1>6, <1>10 DEF ExactInv

\* An acknowledged receipt is the next one: its own charge is what the stream, the
\* authorization and the receivable gain.
LEMMA AcceptExact ==
  ASSUME IInv, ExactInv, NEW x \in sent, accept_service_receipt(x.stream, x.receipt)
  PROVE  ExactInv'
<1> USE SettlementAssumption
<1> DEFINE s == x.stream
           r == x.receipt
           delta == r.cum - cp[s].cum
<1>1. /\ AuthOf[s] \notin expired /\ r.seq > cp[s].seq /\ s \in Streams /\ r \in AnyReceipt
      /\ spent[AuthOf[s]] + r.cum - cp[s].cum <= Cap
      /\ cp' = [cp EXCEPT ![s] = [seq |-> r.seq, cum |-> r.cum]]
      /\ spent' = [spent EXCEPT ![AuthOf[s]] = @ + delta]
      /\ receivable' = receivable + delta
      /\ UNCHANGED <<offer, sent, expired>>
  BY SMTT(30) DEF accept_service_receipt, Accepted, Advances, ExactInv, OffersInStep
<1>2. cp \in [Streams -> Checkpoint] /\ spent \in [Auths -> Nat] /\ receivable \in Nat /\ AuthOf[s] \in Auths
  BY SMTT(30), <1>1 DEF IInv, CheckpointInv, BalanceInv
<1> HIDE DEF s, r
<1>3. r = offer[s] /\ r.seq = cp[s].seq + 1 /\ r.cum = cp[s].cum + r.charge
  <2>1. r.seq <= cp[s].seq \/ r = offer[s]
    BY <1>1 DEF ExactInv, OffersInStep, OneAhead, s, r
  <2>2. InStep(s) /\ cp[s] \in Checkpoint
    BY <1>1, <1>2 DEF ExactInv, OffersInStep
  <2> QED BY SMTT(30), <1>1, <2>1, <2>2 DEF InStep, Checkpoint, AnyReceipt
<1>4. OffersInStep'
  <2>1. \A t \in Streams : AuthOf[t] \in expired' \/ InStep(t)'
    <3> SUFFICES ASSUME NEW t \in Streams, AuthOf[t] \notin expired PROVE InStep(t)'
      BY SMTT(30), <1>1
    <3>1. CASE t = s
      BY SMTT(30), <1>1, <1>2, <1>3, <3>1 DEF InStep
    <3>2. CASE t # s
      BY SMTT(30), <1>1, <1>2, <3>2 DEF InStep, ExactInv, OffersInStep
    <3> QED BY <3>1, <3>2
  <2>2. OneAhead'
    <3> SUFFICES ASSUME NEW y \in sent, AuthOf[y.stream] \notin expired
                 PROVE  y.receipt.seq <= cp'[y.stream].seq \/ y.receipt = offer[y.stream]
      BY Zenon, <1>1 DEF OneAhead
    <3>1. /\ y.receipt.seq <= cp[y.stream].seq \/ y.receipt = offer[y.stream]
          /\ y.stream \in Streams /\ y.receipt \in AnyReceipt
      BY SMTT(30) DEF ExactInv, OffersInStep, OneAhead
    <3>2. cp[s].seq \in Nat /\ cp'[s].seq = cp[s].seq + 1
      BY SMTT(30), <1>1, <1>2, <1>3 DEF Checkpoint
    <3>3. CASE y.stream = s
      BY SMTT(30), <3>1, <3>2, <3>3 DEF AnyReceipt
    <3>4. CASE y.stream # s
      BY <1>1, <1>2, <3>1, <3>4
    <3> QED BY SMTT(30), <3>3, <3>4
  <2> QED BY <1>1, <2>1, <2>2 DEF ExactInv, OffersInStep
<1>5. IInv'
  BY SMTT(30), AcceptStep
<1>6. /\ \A t \in Streams : Earned[t] = cp[t].cum /\ Earned[t] \in Nat
      /\ \A y \in sent : Charge[y] = y.receipt.charge /\ Charge[y] \in Nat
      /\ \A t \in Streams : IsFiniteSet(Covers(t))
      /\ IsFiniteSet(Streams) /\ \A a \in Auths : IsFiniteSet(Under(a))
  BY SMTT(30), SummandsAreNatural DEF ExactInv
<1>7. /\ \A t \in Streams : Earned'[t] = cp'[t].cum /\ Earned'[t] \in Nat
      /\ \A t \in Streams \ {s} : Earned'[t] = Earned[t]
      /\ Earned'[s] - Earned[s] = delta
  <2>1. \A t \in Streams : Earned'[t] = cp'[t].cum
    BY DEF Earned
  <2>2. \A t \in Streams : cp'[t].cum \in Nat
    BY SMTT(30), <1>5 DEF IInv, CheckpointInv, Checkpoint
  <2> QED BY Zenon, <1>1, <1>2, <1>6, <2>1, <2>2
<1>8. receivable' = SumFunctionOnSet(Earned', Streams)
  <2>1. receivable = SumFunctionOnSet(Earned, Streams)
    BY SMTT(30) DEF ExactInv, AccountedExactly
  <2>2. SumFunctionOnSet(Earned', Streams) = SumFunctionOnSet(Earned, Streams) + (Earned'[s] - Earned[s])
    BY <1>1, <1>6, <1>7, SumChange
  <2> QED BY SMTT(30), <1>1, <1>7, <2>1, <2>2
<1>9. ASSUME NEW a \in Auths PROVE spent'[a] = SumFunctionOnSet(Earned', Under(a)) /\ spent'[a] <= Cap
  <2>1. spent[a] = SumFunctionOnSet(Earned, Under(a)) /\ spent[a] <= Cap
    BY DEF ExactInv, AccountedExactly, Under
  <2>2. IsFiniteSet(Under(a)) /\ Under(a) \subseteq Streams
    BY SMTT(30), <1>6 DEF Under
  <2>3. CASE a = AuthOf[s]
    <3>1. s \in Under(a)
      BY SMTT(30), <1>1, <2>3 DEF Under
    <3>2. SumFunctionOnSet(Earned', Under(a)) = SumFunctionOnSet(Earned, Under(a)) + (Earned'[s] - Earned[s])
      BY SMTT(30), <1>6, <1>7, <2>2, <3>1, SumChange
    <3>3. spent'[a] = spent[a] + delta /\ spent[a] + delta <= Cap
      BY SMTT(30), <1>1, <1>2, <2>3 DEF Checkpoint, AnyReceipt
    <3> QED BY SMTT(30), <1>7, <2>1, <3>2, <3>3
  <2>4. CASE a # AuthOf[s]
    <3>1. \A t \in Under(a) : Earned'[t] = Earned[t]
      BY <1>7, <2>4 DEF Under
    <3>2. SumFunctionOnSet(Earned', Under(a)) = SumFunctionOnSet(Earned, Under(a))
      BY SMTT(30), <2>2, <3>1, SumSame
    <3> QED BY SMTT(30), <1>1, <1>2, <2>1, <2>4, <3>2
  <2> QED BY <2>3, <2>4
<1>10. ASSUME NEW t \in Streams
       PROVE  cp'[t].cum = SumFunctionOnSet(Charge', {y \in sent' : y.stream = t /\ y.receipt.seq <= cp'[t].seq})
  <2>1. cp[t].cum = SumFunctionOnSet(Charge, Covers(t)) /\ Charge' = Charge
    BY ZenonT(60), <1>1 DEF ExactInv, AccountedExactly, Covers, Charge
  <2>2. CASE t = s
    <3>1. {y \in sent' : y.stream = t /\ y.receipt.seq <= cp'[t].seq} = Covers(t) \cup {x}
      <4>1. cp'[s].seq = cp[s].seq + 1 /\ cp[s].seq \in Nat
        BY ZenonT(60), <1>1, <1>2, <1>3 DEF Checkpoint
      <4>2. ASSUME NEW y \in sent, y.stream = s PROVE y.receipt.seq <= cp[s].seq \/ y = x
        <5>1. y \in [stream : Streams, receipt : AnyReceipt] /\ x \in [stream : Streams, receipt : AnyReceipt]
          BY DEF ExactInv, OffersInStep
        <5>2. y.receipt.seq <= cp[s].seq \/ y.receipt = offer[s]
          BY <1>1, <4>2 DEF ExactInv, OffersInStep, OneAhead
        <5> QED BY <1>3, <4>2, <5>1, <5>2 DEF s, r
      <4>3. \A y \in sent : y.receipt.seq \in Nat
        BY SMTT(30) DEF ExactInv, OffersInStep, AnyReceipt
      <4> QED BY <1>1, <1>3, <2>2, <4>1, <4>2, <4>3 DEF Covers, s, r
    <3>2. x \notin Covers(t) /\ \A y \in Covers(t) \cup {x} : Charge[y] \in Nat
      BY SMTT(30), <1>1, <1>2, <1>6, <2>2 DEF Covers, s, r, Checkpoint, AnyReceipt
    <3>3. SumFunctionOnSet(Charge, Covers(t) \cup {x}) = Charge[x] + SumFunctionOnSet(Charge, Covers(t))
      BY SMTT(30), <1>6, <3>2, SumAdd
    <3>4. Charge[x] = r.charge /\ cp'[t].cum = cp[t].cum + r.charge
      BY SMTT(30), <1>1, <1>2, <1>3, <1>6, <2>2 DEF r
    <3>5. cp[t].cum \in Nat /\ r.charge \in Nat
      BY SMTT(30), <1>1, <1>2 DEF Checkpoint, AnyReceipt
    <3>6. cp'[t].cum = SumFunctionOnSet(Charge, Covers(t) \cup {x})
      BY SMTT(30), <2>1, <3>3, <3>4, <3>5
    <3> QED BY <2>1, <3>1, <3>6, Zenon
  <2>3. CASE t # s
    BY <1>1, <1>2, <2>1, <2>3 DEF Covers
  <2> QED BY SMTT(30), <2>2, <2>3
<1>11. AccountedExactly'
  BY ZenonT(60), <1>8, <1>9, <1>10 DEF AccountedExactly, Under
<1> QED BY SMTT(30), <1>4, <1>11 DEF ExactInv

\* Every step keeps the accounts exact.
LEMMA StepExact == ASSUME IInv, ExactInv, [Next]_vars PROVE ExactInv'
<1>1. CASE \E s \in Streams : \E charge \in Charges[s] : make_routing_receipt_offer(s, charge)
  BY <1>1, OfferExact
<1>2. CASE \E x \in sent : accept_service_receipt(x.stream, x.receipt)
  BY <1>2, AcceptExact
<1>3. CASE UNCHANGED vars
  BY <1>3, ExactFrame DEF vars
<1>4. CASE \E a \in Auths : expire(a)
  BY <1>4, ExactFrame DEF expire
<1>5. CASE \/ \E x \in exported : mine(x.stream, x.cum)
           \/ mine_empty
           \/ \E k \in 2 .. Height : reorganise(k)
  BY Zenon, <1>5, ExactFrame DEF mine, mine_empty, reorganise
<1>6. CASE \E page \in SUBSET Streams : (\E depth \in Depths : observe(page, depth)) \/ export(page)
  BY <1>6, ExactFrame DEF observe, export
<1>7. CASE \E o \in observed : reconciliation_result(o)
  BY <1>7, ExactFrame DEF reconciliation_result
<1>8. CASE propose \/ activate \/ status \/ stop \/ restart
  BY <1>8, ExactFrame DEF propose, activate, status, stop, restart
<1>9. CASE \E n \in 1 .. MaxProposals : authorization_expires(n)
  BY <1>9, ExactFrame DEF authorization_expires
<1> QED BY Zenon, <1>1, <1>2, <1>3, <1>4, <1>5, <1>6, <1>7, <1>8, <1>9 DEF Next

----------------------------------------------------------------------------
(* The chain.                                                              *)

\* A step that changes the chain alone keeps everything else.
LEMMA ChainFrame ==
  ASSUME IInv, ChainInv', UNCHANGED <<receipts, claims, expired, observed, exported, prov>>
  PROVE  IInv'
<1>1. ExportedType'
  BY DEF IInv, ExportedType
<1> QED BY <1>1, ReceiptsFrame, ClaimsFrame, ObservedFrame, ProvStays DEF IInv

\* A block that holds exported amounts may be put on top of the chain.
LEMMA BlockOnTop ==
  ASSUME IInv, UNCHANGED exported, Height < MaxHeight, NEW block \in [Streams -> 0 .. Cap],
         \A s \in Streams : Covered(s, block[s]), chain' = Append(chain, block)
  PROVE  ChainInv'
<1> USE SettlementAssumption
<1>1. chain \in Seq([Streams -> 0 .. Cap]) /\ Len(chain) \in 1 .. MaxHeight /\ Len(chain) < MaxHeight
  BY DEF IInv, ChainInv, Height
<1>2. /\ chain' \in Seq([Streams -> 0 .. Cap]) /\ Len(chain') = Len(chain) + 1
      /\ chain'[Len(chain) + 1] = block /\ \A b \in 1 .. Len(chain) : chain'[b] = chain[b]
  BY <1>1
<1>3. DOMAIN chain' = 1 .. (Len(chain) + 1) /\ DOMAIN chain = 1 .. Len(chain)
  BY <1>1, <1>2
<1>4. ASSUME NEW b \in DOMAIN chain', NEW s \in Streams PROVE Covered(s, chain[b][s])'
  <2>1. CASE b = Len(chain) + 1
    BY SMTT(30), <1>2, <2>1 DEF Covered
  <2>2. CASE b \in DOMAIN chain
    BY <1>2, <1>3, <2>2 DEF Covered, IInv, ChainInv
  <2> QED BY <1>1, <1>3, <2>1, <2>2
<1> QED BY <1>1, <1>2, <1>4 DEF ChainInv

\* A settlement is mined.
LEMMA MineStep == ASSUME IInv, NEW x \in exported, mine(x.stream, x.cum) PROVE IInv'
<1> USE SettlementAssumption
<1> DEFINE s == x.stream
           top == chain[Height]
           block == [top EXCEPT ![s] = IF x.cum > @ THEN x.cum ELSE @]
<1>1. Height < MaxHeight /\ chain' = Append(chain, block)
      /\ UNCHANGED <<receipts, claims, expired, observed, exported, prov>>
  BY DEF mine
<1>2. s \in Streams /\ x.cum \in 0 .. Cap
  BY DEF IInv, ExportedType
<1>3. top \in [Streams -> 0 .. Cap] /\ \A t \in Streams : Covered(t, top[t])
  <2>1. Height \in DOMAIN chain
    BY DEF IInv, ChainInv, Height
  <2> QED BY <2>1 DEF IInv, ChainInv, Height
<1> HIDE DEF top
<1>4. block \in [Streams -> 0 .. Cap]
  BY <1>2, <1>3
<1>5. ASSUME NEW t \in Streams PROVE Covered(t, block[t])
  <2>1. CASE t = s
    BY <1>2, <1>3, <2>1 DEF Covered
  <2>2. CASE t # s
    BY <1>2, <1>3, <2>2
  <2> QED BY <2>1, <2>2
<1> HIDE DEF block
<1>6. ChainInv'
  BY <1>1, <1>4, <1>5, BlockOnTop
<1> QED BY <1>1, <1>6, ChainFrame

\* A block without a settlement of this provider.
LEMMA MineEmptyStep == ASSUME IInv, mine_empty PROVE IInv'
<1> DEFINE top == chain[Height]
<1>1. Height < MaxHeight /\ chain' = Append(chain, top)
      /\ UNCHANGED <<receipts, claims, expired, observed, exported, prov>>
  BY DEF mine_empty
<1>2. top \in [Streams -> 0 .. Cap] /\ \A t \in Streams : Covered(t, top[t])
  <2>1. Height \in DOMAIN chain
    BY SettlementAssumption DEF IInv, ChainInv, Height
  <2> QED BY <2>1 DEF IInv, ChainInv, Height
<1> HIDE DEF top
<1>3. ChainInv'
  BY <1>1, <1>2, BlockOnTop
<1> QED BY <1>1, <1>3, ChainFrame

\* Replaced blocks hold what an earlier block held.
LEMMA ReorganiseStep == ASSUME IInv, NEW k \in 2 .. Height, reorganise(k) PROVE IInv'
<1> USE SettlementAssumption
<1>1. chain' = [i \in DOMAIN chain |-> IF i < k THEN chain[i] ELSE chain[k - 1]]
      /\ UNCHANGED <<receipts, claims, expired, observed, exported, prov>>
  BY DEF reorganise
<1>2. chain \in Seq([Streams -> 0 .. Cap]) /\ Len(chain) \in 1 .. MaxHeight
      /\ DOMAIN chain = 1 .. Len(chain) /\ k - 1 \in DOMAIN chain
  BY DEF IInv, ChainInv, Height
<1>3. \A i \in DOMAIN chain : chain[i] \in [Streams -> 0 .. Cap] /\ \A s \in Streams : Covered(s, chain[i][s])
  BY <1>2 DEF IInv, ChainInv
<1>4. DOMAIN chain' = 1 .. Len(chain) /\ \A i \in DOMAIN chain' : \E j \in DOMAIN chain : chain'[i] = chain[j]
  BY Zenon, <1>1, <1>2
<1>5. chain' \in [1 .. Len(chain) -> [Streams -> 0 .. Cap]]
  BY <1>1, <1>2, <1>3
<1>6. chain' \in Seq([Streams -> 0 .. Cap]) /\ Len(chain') = Len(chain)
  <2>1. Len(chain) \in Nat
    BY <1>2
  <2> QED BY <1>5, <2>1, SeqOf, Zenon
<1>7. ChainInv'
  <2>1. \A i \in DOMAIN chain' : \A s \in Streams : Covered(s, chain'[i][s])
    BY Zenon, <1>3, <1>4
  <2>2. \A i \in DOMAIN chain' : \A s \in Streams : Covered(s, chain[i][s])'
    BY Zenon, <1>1, <2>1 DEF Covered
  <2> QED BY <1>2, <1>6, <2>2, Zenon DEF ChainInv
<1> QED BY <1>1, <1>7, ChainFrame

----------------------------------------------------------------------------
(* Observations and reconciliations.                                       *)

\* An observation reads amounts of one block.
LEMMA ObserveStep ==
  ASSUME IInv, NEW page \in SUBSET Streams, NEW depth \in Depths, observe(page, depth) PROVE IInv'
<1> USE SettlementAssumption
<1>1. PICK block \in 1 .. (Height - depth) :
         observed' = observed \cup
             {[depth |-> depth, block |-> block,
               settled |-> [s \in page |-> chain[block][s]],
               asked |-> [s \in page |-> IF outbox[s] > 0 THEN outbox[s] ELSE archive[s].cum]]}
  BY Zenon DEF observe
<1> DEFINE settled == [s \in page |-> chain[block][s]]
           asked == [s \in page |-> IF outbox[s] > 0 THEN outbox[s] ELSE archive[s].cum]
           o == [depth |-> depth, block |-> block, settled |-> settled, asked |-> asked]
<1>2. Len(chain) \in 1 .. MaxHeight /\ DOMAIN chain = 1 .. Len(chain)
  BY DEF IInv, ChainInv
<1>3. block \in 1 .. MaxHeight /\ block \in DOMAIN chain
  BY <1>2 DEF Height
<1>4. chain[block] \in [Streams -> 0 .. Cap] /\ \A s \in Streams : Covered(s, chain[block][s])
  BY Zenon, <1>3, <1>2, ElementOf DEF IInv, ChainInv
<1>5. DOMAIN settled = page /\ \A s \in page : settled[s] \in 0 .. Cap /\ Covered(s, settled[s])
  BY <1>4
<1>6. observed' = observed \cup {o}
  BY <1>1
<1> HIDE DEF settled, asked
<1>7. o.depth = depth /\ o.block = block /\ o.settled = settled
  OBVIOUS
<1> HIDE DEF o
<1>8. UNCHANGED <<receipts, claims, expired, world, exported, prov>>
  BY DEF observe
<1>9. ObservedInv'
  <2>1. ASSUME NEW q \in observed'
        PROVE  /\ q.depth \in Depths /\ q.block \in 1 .. MaxHeight /\ DOMAIN q.settled \subseteq Streams
               /\ \A s \in DOMAIN q.settled : q.settled[s] \in 0 .. Cap /\ Covered(s, q.settled[s])
    <3>1. CASE q \in observed
      BY <3>1 DEF IInv, ObservedInv
    <3>2. CASE q = o
      BY <1>3, <1>5, <1>7, <3>2
    <3> QED BY <1>6, <3>1, <3>2
  <2>2. exported' = exported
    BY <1>8
  <2> QED BY <2>1, <2>2 DEF ObservedInv, Covered
<1> QED BY <1>8, <1>9, ReceiptsFrame, ClaimsFrame, WorldFrame, ProvStays DEF IInv

\* A reconciliation keeps every claim: it archives what the observation covers, and moves
\* back what it does not.
LEMMA ReconcileKeeps ==
  ASSUME IInv, NEW o \in observed, Reconciled(o, ToArchive(o)), UNCHANGED <<cp, exported>>
  PROVE  ClaimInv' /\ ReconType'
<1> USE SettlementAssumption
<1>1. /\ o.depth \in Depths /\ o.block \in 1 .. MaxHeight /\ DOMAIN o.settled \subseteq Streams
      /\ \A s \in DOMAIN o.settled : o.settled[s] \in 0 .. Cap /\ Covered(s, o.settled[s])
  BY DEF IInv, ObservedInv
<1>2. ReconType'
  BY <1>1 DEF Reconciled, ReconType
<1>3. /\ outbox \in [Streams -> 0 .. Cap]
      /\ archive \in [Streams -> [cum : 0 .. Cap, confirmed : 0 .. Cap]]
      /\ \A s \in Streams : Kept(s) /\ cp[s].cum \in Nat
  BY DEF IInv, ClaimInv, CheckpointInv, Checkpoint
<1> DEFINE Outcome(s, b, a) ==
             /\ b \in 0 .. Cap /\ a \in [cum : 0 .. Cap, confirmed : 0 .. Cap]
             /\ \/ b = cp[s].cum /\ a = NotArchived
                \/ /\ b = 0 /\ a.cum = cp[s].cum /\ 0 < cp[s].cum
                   /\ cp[s].cum <= a.confirmed /\ Covered(s, a.confirmed)
<1> DEFINE newOutbox(s) == IF s \in ToArchive(o) THEN 0
                           ELSE IF s \in ToOutbox(o) THEN archive[s].cum ELSE outbox[s]
           newArchive(s) == IF s \in ToArchive(o) THEN [cum |-> outbox[s], confirmed |-> o.settled[s]]
                            ELSE IF s \in ToOutbox(o) THEN NotArchived
                            ELSE IF s \in Revalidated(o) THEN [archive[s] EXCEPT !.confirmed = o.settled[s]]
                            ELSE archive[s]
<1>4. ASSUME NEW s \in Streams PROVE Outcome(s, newOutbox(s), newArchive(s))
  <2>1. Kept(s) /\ cp[s].cum \in Nat /\ outbox[s] \in 0 .. Cap
        /\ archive[s] \in [cum : 0 .. Cap, confirmed : 0 .. Cap]
    BY <1>3
  <2>2. NotArchived \in [cum : 0 .. Cap, confirmed : 0 .. Cap] /\ NotArchived.cum = 0
    BY DEF NotArchived
  <2>3. CASE s \in ToArchive(o)
    <3> DEFINE n == o.settled[s]
               a == [cum |-> outbox[s], confirmed |-> n]
    <3>1. outbox[s] > 0 /\ n >= outbox[s] /\ n \in 0 .. Cap /\ Covered(s, n)
      BY <1>1, <2>3 DEF ToArchive
    <3>2. outbox[s] = cp[s].cum
      BY <2>1, <3>1 DEF Kept
    <3>3. newOutbox(s) = 0 /\ newArchive(s) = a
      BY <2>3
    <3> HIDE DEF n, newOutbox, newArchive
    <3>4. a \in [cum : 0 .. Cap, confirmed : 0 .. Cap] /\ a.cum = outbox[s] /\ a.confirmed = n
      BY <2>1, <3>1
    <3> HIDE DEF a
    <3> QED BY SMTT(30), <2>1, <3>1, <3>2, <3>3, <3>4
  <2>4. CASE s \notin ToArchive(o) /\ s \in ToOutbox(o)
    <3>1. outbox[s] = 0 /\ 0 < archive[s].cum
      BY <1>1, <2>1, <2>4 DEF ToOutbox
    <3>2. archive[s].cum = cp[s].cum
      BY <2>1, <2>2, <3>1 DEF Kept
    <3>3. newOutbox(s) = archive[s].cum /\ newArchive(s) = NotArchived
      BY <2>4
    <3> HIDE DEF newOutbox, newArchive
    <3> QED BY SMTT(30), <2>1, <2>2, <3>2, <3>3
  <2>5. CASE s \notin ToArchive(o) /\ s \notin ToOutbox(o) /\ s \in Revalidated(o)
    <3> DEFINE n == o.settled[s]
               a == [archive[s] EXCEPT !.confirmed = n]
    <3>1. s \in DOMAIN o.settled /\ outbox[s] = 0 /\ archive[s] # NotArchived /\ ~(n < archive[s].cum)
          /\ n \in 0 .. Cap /\ Covered(s, n)
      BY <1>1, <2>5 DEF Revalidated, ToOutbox
    <3>2. archive[s].cum = cp[s].cum /\ 0 < cp[s].cum
      BY <2>1, <3>1 DEF Kept
    <3>3. newOutbox(s) = outbox[s] /\ newArchive(s) = a
      BY <2>5
    <3> HIDE DEF n, newOutbox, newArchive
    <3>4. a \in [cum : 0 .. Cap, confirmed : 0 .. Cap] /\ a.cum = archive[s].cum /\ a.confirmed = n
      BY <2>1, <3>1
    <3> HIDE DEF a
    <3> QED BY SMTT(30), <2>1, <3>1, <3>2, <3>3, <3>4
  <2>6. CASE s \notin ToArchive(o) /\ s \notin ToOutbox(o) /\ s \notin Revalidated(o)
    <3>1. newOutbox(s) = outbox[s] /\ newArchive(s) = archive[s]
      BY <2>6
    <3> HIDE DEF newOutbox, newArchive
    <3> QED BY <2>1, <3>1 DEF Kept
  <2> QED BY <2>3, <2>4, <2>5, <2>6
<1>5. outbox' = [s \in Streams |-> newOutbox(s)] /\ archive' = [s \in Streams |-> newArchive(s)]
  BY DEF Reconciled
<1> HIDE DEF newOutbox, newArchive
<1>6. outbox' \in [Streams -> 0 .. Cap] /\ archive' \in [Streams -> [cum : 0 .. Cap, confirmed : 0 .. Cap]]
  BY SMTT(30), <1>4, <1>5
<1>7. ASSUME NEW s \in Streams PROVE Kept(s)'
  <2>1. Outcome(s, outbox'[s], archive'[s])
    BY SMTT(30), <1>4, <1>5
  <2> QED BY Zenon, <2>1 DEF Kept, Covered
<1> QED BY <1>2, <1>6, <1>7 DEF ClaimInv

\* The observation is applied, or refused because it regresses.
LEMMA ResultStep == ASSUME IInv, NEW o \in observed, reconciliation_result(o) PROVE IInv'
<1>1. observed' = observed \ {o} /\ UNCHANGED <<receipts, expired, world, exported, prov>>
  BY DEF reconciliation_result
<1>2. ClaimInv' /\ ReconType'
  <2>1. CASE reconcile_settlement_claims(o)
    BY <1>1, <2>1, ReconcileKeeps DEF reconcile_settlement_claims, receipts
  <2>2. CASE UNCHANGED claims
    BY <1>1, <2>2, ClaimsFrame
  <2> QED BY <2>1, <2>2 DEF reconciliation_result
<1> QED BY <1>1, <1>2, ReceiptsFrame, WorldFrame, ObservedFrame, ProvStays DEF IInv

----------------------------------------------------------------------------
(* The provider's authorization.                                           *)

\* 0 stands for no proposal.
LEMMA NoProposal == 0 \in 0 .. MaxProposals
BY SettlementAssumption

\* A failing database call leaves the manager as it was.
LEMMA FailedKeeps == ASSUME NEW p, Durable(p), NEW q \in Failed(p) PROVE
  /\ Durable(q) /\ q.active = p.active /\ q.stored = p.stored /\ q.pending = p.pending
  /\ q.stopped = p.stopped /\ q.next = p.next /\ q.expired = p.expired /\ q.usable = p.usable
BY DEF Failed, Durable, Manager

\* status() clears an expired authorization.
LEMMA StatusKeeps == ASSUME NEW p, Durable(p), NEW q \in Status(p) PROVE Durable(q)
<1>1. CASE q \in Failed(p)
  BY <1>1, FailedKeeps
<1>2. CASE q = p
  BY <1>2
<1>3. CASE q = [p EXCEPT !.active = 0, !.stored = 0]
  <2>1. /\ q \in Manager /\ q.active = 0 /\ q.stored = 0 /\ q.pending = p.pending
        /\ q.stopped = p.stopped /\ q.next = p.next
    BY Zenon, <1>3, NoProposal DEF Durable, Manager
  <2> QED BY <2>1 DEF Durable, Manager
<1> QED BY <1>1, <1>2, <1>3 DEF Status

\* activate() saves the pending authorization before it is active.
LEMMA ActivatedKeeps ==
  ASSUME NEW p, Durable(p), p.pending # 0, NEW q \in Activated(p) PROVE Durable(q)
<1>1. CASE q \in Failed(p)
  BY <1>1, FailedKeeps
<1>2. CASE q = [p EXCEPT !.pending = 0]
  BY <1>2, NoProposal DEF Durable, Manager
<1>3. CASE q = [p EXCEPT !.stored = p.pending, !.active = p.pending, !.pending = 0]
  <2>1. /\ q \in Manager /\ q.active = p.pending /\ q.stored = p.pending /\ q.pending = 0
        /\ q.stopped = p.stopped /\ q.next = p.next
    BY Zenon, <1>3, NoProposal DEF Durable, Manager
  <2> QED BY <2>1 DEF Durable, Manager
<1> QED BY <1>1, <1>2, <1>3 DEF Activated

\* stop() clears the stored authorization before the active one.
LEMMA StoppedKeeps == ASSUME NEW p, Durable(p), NEW q \in Stopped(p) PROVE Durable(q)
<1>1. CASE q \in Failed(p)
  BY <1>1, FailedKeeps
<1>2. CASE q = [p EXCEPT !.active = 0, !.pending = 0, !.stored = 0,
                         !.stopped = @ \cup ({p.active} \ {0})]
  <2> DEFINE gone == {p.active} \ {0}
             all == p.stopped \cup gone
  <2>1. gone \subseteq Nat /\ \A n \in gone : n = p.active /\ 0 < n
    BY DEF Durable, Manager
  <2>2. all \subseteq Nat
    BY <2>1 DEF Durable, Manager
  <2>3. q = [p EXCEPT !.active = 0, !.pending = 0, !.stored = 0, !.stopped = all]
    BY <1>2
  <2> HIDE DEF all
  <2>4. /\ q \in Manager /\ q.active = 0 /\ q.stored = 0 /\ q.pending = 0
        /\ q.stopped = all /\ q.next = p.next
    BY Zenon, <2>2, <2>3, NoProposal DEF Durable, Manager
  <2>5. \A n \in all : 0 < n /\ n < p.next
    BY <2>1 DEF all, Durable
  <2> QED BY <2>4, <2>5 DEF Durable, Manager
<1> QED BY <1>1, <1>2 DEF Stopped

\* A new manager takes over what is stored, never what was stopped.
LEMMA RestartedKeeps == ASSUME NEW p, Durable(p), NEW q \in Restarted(p) PROVE Durable(q)
<1> DEFINE yes == TRUE
           no == FALSE
<1>0. yes \in BOOLEAN /\ no \in BOOLEAN
  BY SMTT(30)
<1>a. \/ q = [p EXCEPT !.active = 0, !.stored = 0, !.pending = 0, !.usable = yes]
      \/ q = [p EXCEPT !.active = p.stored, !.pending = 0, !.usable = yes]
      \/ \E f \in Failed(p) : q = [f EXCEPT !.active = 0, !.pending = 0, !.usable = no]
  BY Zenon DEF Restarted
<1> HIDE DEF yes, no
<1>1. CASE q = [p EXCEPT !.active = 0, !.stored = 0, !.pending = 0, !.usable = yes]
  <2>1. /\ q \in Manager /\ q.active = 0 /\ q.stored = 0 /\ q.pending = 0
        /\ q.stopped = p.stopped /\ q.next = p.next
    BY Zenon, NoProposal, <1>0, <1>1 DEF Durable, Manager
  <2> QED BY <2>1 DEF Durable, Manager
<1>2. CASE q = [p EXCEPT !.active = p.stored, !.pending = 0, !.usable = yes]
  <2>1. /\ q \in Manager /\ q.active = p.stored /\ q.stored = p.stored /\ q.pending = 0
        /\ q.stopped = p.stopped /\ q.next = p.next
    BY Zenon, NoProposal, <1>0, <1>2 DEF Durable, Manager
  <2> QED BY <2>1 DEF Durable, Manager
<1>3. ASSUME NEW f \in Failed(p), q = [f EXCEPT !.active = 0, !.pending = 0, !.usable = no]
      PROVE  Durable(q)
  <2>1. Durable(f)
    BY FailedKeeps
  <2>2. /\ q \in Manager /\ q.active = 0 /\ q.stored = f.stored /\ q.pending = 0
        /\ q.stopped = f.stopped /\ q.next = f.next
    BY Zenon, NoProposal, <1>0, <1>3, <2>1 DEF Durable, Manager
  <2> QED BY <2>1, <2>2 DEF Durable, Manager
<1> QED BY Zenon, <1>a, <1>1, <1>2, <1>3

\* The manager's own steps.
LEMMA ProvFrame ==
  ASSUME IInv, Durable(prov)', UNCHANGED <<receipts, claims, expired, world, observed, exported>>
  PROVE  IInv'
BY ReceiptsFrame, ClaimsFrame, WorldFrame, ObservedFrame DEF IInv

\* A proposal has a number of its own.
LEMMA ProposeStep == ASSUME IInv, propose PROVE IInv'
<1>1. Durable(prov)'
  <2>1. Durable(prov) /\ prov.next <= MaxProposals
    BY DEF IInv, propose
  <2>2. /\ prov' \in Manager /\ prov'.active = prov.active /\ prov'.stored = prov.stored
        /\ prov'.pending = prov.next /\ prov'.stopped = prov.stopped /\ prov'.next = prov.next + 1
    <3>1. prov.next \in 0 .. MaxProposals /\ prov.next + 1 \in Nat
      BY <2>1, SettlementAssumption DEF Durable, Manager
    <3> QED BY Zenon, <2>1, <3>1 DEF propose, Durable, Manager
  <2> QED BY <2>1, <2>2, SettlementAssumption DEF Durable, Manager
<1> QED BY <1>1, ProvFrame DEF propose

\* Time passes for the provider's authorization.
LEMMA AuthorizationExpiresStep ==
  ASSUME IInv, NEW n \in 1 .. MaxProposals, authorization_expires(n) PROVE IInv'
<1>1. Durable(prov)'
  BY SettlementAssumption DEF IInv, authorization_expires, Durable, Manager
<1> QED BY <1>1, ProvFrame DEF authorization_expires

\* activate(), status() and stop(), each succeeding or failing.
LEMMA ManagerStep == ASSUME IInv, activate \/ status \/ stop PROVE IInv'
<1>1. Durable(prov)
  BY DEF IInv
<1>2. CASE activate
  <2>1. Durable(prov')
    BY <1>1, <1>2, ActivatedKeeps DEF activate
  <2> QED BY <1>2, <2>1, ProvFrame DEF activate
<1>3. CASE status
  <2>1. Durable(prov')
    BY <1>1, <1>3, StatusKeeps DEF status
  <2> QED BY <1>3, <2>1, ProvFrame DEF status
<1>4. CASE stop
  <2>1. Durable(prov')
    BY SMTT(30), <1>1, <1>4, StoppedKeeps DEF stop
  <2> QED BY <1>4, <2>1, ProvFrame DEF stop
<1> QED BY <1>2, <1>3, <1>4

\* The Node restarts; observations on their way are lost.
LEMMA RestartStep == ASSUME IInv, restart PROVE IInv'
<1>1. Durable(prov')
  BY RestartedKeeps DEF restart, IInv
<1>2. observed' = {} /\ UNCHANGED <<receipts, claims, expired, world, exported>>
  BY SMTT(30) DEF restart
<1> QED BY <1>1, <1>2, ReceiptsFrame, ClaimsFrame, WorldFrame, ObservedFrame DEF IInv

\* More claims are exported, so what was covered stays covered.
LEMMA ExportStep == ASSUME IInv, NEW page \in SUBSET Streams, export(page) PROVE IInv'
<1>1. Durable(prov')
  BY StatusKeeps DEF export, IInv
<1>2. exported \subseteq exported'
      /\ \A x \in exported' : x \in exported \/ \E s \in Streams : x = [stream |-> s, cum |-> outbox[s]]
  BY DEF export
<1>3. UNCHANGED <<receipts, claims, expired, world, observed>>
  BY DEF export
<1>4. ExportedType'
  BY <1>2 DEF IInv, ExportedType, ClaimInv
<1>5. \A s, n : Covered(s, n) => Covered(s, n)'
  BY <1>2, CoveredStays
<1>6. ClaimInv'
  BY <1>3, <1>5 DEF IInv, ClaimInv, Kept, claims, receipts
<1>7. ChainInv' /\ ObservedInv'
  BY <1>3, <1>5 DEF IInv, ChainInv, ObservedInv, world
<1>8. ReconType'
  BY <1>3 DEF IInv, ReconType, claims
<1> QED BY <1>1, <1>3, <1>4, <1>6, <1>7, <1>8, ReceiptsFrame DEF IInv

----------------------------------------------------------------------------
(* The theorems.                                                           *)

\* Every step keeps the invariant.
LEMMA StepInv == ASSUME IInv, [Next]_vars PROVE IInv'
<1>1. CASE UNCHANGED vars
  <2>1. Durable(prov')
    BY <1>1 DEF IInv, vars
  <2> QED BY <1>1, <2>1, ProvFrame DEF vars
<1>2. CASE \E s \in Streams : \E charge \in Charges[s] : make_routing_receipt_offer(s, charge)
  BY <1>2, OfferStep
<1>3. CASE \E x \in sent : accept_service_receipt(x.stream, x.receipt)
  BY <1>3, AcceptStep
<1>4. CASE \E a \in Auths : expire(a)
  BY <1>4, ExpireStep
<1>5. CASE \/ \E x \in exported : mine(x.stream, x.cum)
           \/ mine_empty
           \/ \E k \in 2 .. Height : reorganise(k)
  BY <1>5, MineStep, MineEmptyStep, ReorganiseStep
<1>6. CASE \E page \in SUBSET Streams : (\E depth \in Depths : observe(page, depth)) \/ export(page)
  BY <1>6, ObserveStep, ExportStep
<1>7. CASE \E o \in observed : reconciliation_result(o)
  BY <1>7, ResultStep
<1>8. CASE propose \/ activate \/ status \/ stop \/ restart
  BY <1>8, ProposeStep, ManagerStep, RestartStep
<1>9. CASE \E n \in 1 .. MaxProposals : authorization_expires(n)
  BY <1>9, AuthorizationExpiresStep
<1> QED BY Zenon, <1>1, <1>2, <1>3, <1>4, <1>5, <1>6, <1>7, <1>8, <1>9 DEF Next

\* Every accepted receipt stays a claim, in the outbox or in the archive and with its
\* latest charge, and is archived only under a settled payment that covers it, whatever
\* receipts, exports, reconciliations, reorganisations and restarts interleave
\* (accept_service_receipt, reconcile_settlement_claims).
THEOREM KeptClaims == Spec => []ClaimIsKept
<1>1. Init => IInv
  BY InitInv
<1>2. IInv /\ [Next]_vars => IInv'
  BY StepInv
<1>3. IInv => ClaimIsKept
  <2> SUFFICES ASSUME IInv, NEW s \in Streams
               PROVE  /\ outbox[s] = cp[s].cum \/ archive[s].cum = cp[s].cum
                      /\ outbox[s] = 0 \/ archive[s] = NotArchived
                      /\ archive[s] # NotArchived =>
                          /\ archive[s].confirmed >= cp[s].cum
                          /\ \E x \in exported : x.stream = s /\ x.cum >= archive[s].confirmed
    BY DEF ClaimIsKept
  <2>1. Kept(s) /\ cp[s].cum \in Nat /\ archive[s].confirmed \in Nat
    BY DEF IInv, ClaimInv, CheckpointInv, Checkpoint
  <2> QED BY <2>1 DEF Kept, Covered
<1> QED BY <1>1, <1>2, <1>3, PTL DEF Spec

\* The authorization exports run under is on disk, and one that was stopped comes back
\* neither at once nor with a restart, through any number of failing database calls
\* (ProviderSettlementManager: activate saves first, stop clears first).
THEOREM DurableAuthorization == Spec => []AuthorizationIsDurable
<1>1. Init => IInv
  BY InitInv
<1>2. IInv /\ [Next]_vars => IInv'
  BY StepInv
<1>3. IInv => AuthorizationIsDurable
  BY SMTT(30) DEF IInv, Durable, AuthorizationIsDurable
<1> QED BY <1>1, <1>2, <1>3, PTL DEF Spec

\* The rows of the tables stay within the cap, and no more offer states are saved than
\* MAX_ROUTING_RECEIPT_SESSION_STATES (save_routing_offer_state).
THEOREM TypedSettlement == Spec => []TypeOK
<1>1. Init => IInv
  BY InitInv
<1>2. IInv /\ [Next]_vars => IInv'
  BY StepInv
<1>3. IInv => TypeOK
  <2> SUFFICES ASSUME IInv PROVE TypeOK
    BY SMTT(30)
  <2>1. ASSUME NEW s \in Streams
        PROVE  /\ offer[s] \in [seq : 0 .. MaxSequence[s], cum : 0 .. Cap, charge : Charges[s] \cup {0}]
               /\ cp[s] \in [seq : 0 .. MaxSequence[s], cum : 0 .. Cap]
               /\ outbox[s] \in 0 .. Cap
               /\ archive[s] \in [cum : 0 .. Cap, confirmed : 0 .. Cap]
    <3>1. offer[s] \in Receipt(s) /\ outbox[s] \in 0 .. Cap /\ archive[s] \in [cum : 0 .. Cap, confirmed : 0 .. Cap]
      BY DEF IInv, OfferInv, ClaimInv
    <3>2. cp[s] \in Checkpoint /\ cp[s].seq <= MaxSequence[s] /\ cp[s].cum <= Cap
      BY DEF IInv, CheckpointInv
    <3>3. cp[s] \in [seq : 0 .. MaxSequence[s], cum : 0 .. Cap]
      BY <3>2, SettlementAssumption DEF Checkpoint
    <3> QED BY <3>1, <3>3 DEF Receipt
  <2>2. Cardinality({s \in Streams : offer[s] # NoOffer}) <= MaxStates
    BY DEF IInv, OfferInv, Saved
  <2> QED BY <2>1, <2>2 DEF TypeOK, IInv, BalanceInv, ReconType, Durable, Manager
<1> QED BY <1>1, <1>2, <1>3, PTL DEF Spec

\* A stream has earned the charges of its receipts, each once, the receivable is the sum
\* over the streams, and the streams of an authorization share its cap: for any number of
\* streams, and whatever acknowledgements are lost, repeated or reordered
\* (accept_service_receipt, make_routing_receipt_offer).
THEOREM ExactAccounts == Spec => []AccountedExactly
<1>1. Init => IInv /\ ExactInv
  BY InitInv, InitExact
<1>2. IInv /\ ExactInv /\ [Next]_vars => (IInv /\ ExactInv)'
  BY StepInv, StepExact
<1>3. ExactInv => AccountedExactly
  BY DEF ExactInv
<1> QED BY <1>1, <1>2, <1>3, PTL DEF Spec
=============================================================================
