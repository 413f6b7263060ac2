----------------------------- MODULE MCReceipts -----------------------------
(***************************************************************************)
(* Both sides of a paid session: the payer's receipt sessions and the       *)
(* provider's settlement.  They are checked side by side: `part` says which *)
(* moves in a behaviour.  The payer has no state when it does not move.     *)
(***************************************************************************)
EXTENDS ReceiptSettlement, TLC

CONSTANTS s1, s2,  \* two streams of the payer, told apart by nothing
          long, short, auth  \* two routes of one authorization at the provider

VARIABLES
    part,
    mgr, payerExpired, nextAuth, nextEpoch, admitted, dead, deferred, crashes, released,
    seen

StreamSymmetry == Permutations({s1, s2})

Rate == [service |-> 1, byte |-> 1]
Quote == [p \in {"exit", "relay"} |-> Rate]

\* Two streams in parallel and a cap that they can exhaust together: one authorization,
\* a write that fails, a deferred route and a crash; or two authorizations and a crash
Parallel == INSTANCE ReceiptSession WITH
    expired <- payerExpired,
    Streams <- {s1, s2}, Exits <- {"exit"}, Relays <- {"relay"}, RequestRelays <- {},
    ResponseRelays <- {"relay"}, Rates <- {Rate}, Sizes <- {1}, Cap <- 3,
    OfferedCharges <- {2}, MaxRoutes <- 2, MaxObserved <- 1, MaxDeferred <- 1,
    MaxAuths <- 1, MaxEpochs <- 2, MaxSequence <- 1, MaxRequests <- 0, MaxFaults <- 1,
    MaxCrashes <- 1
Renewed == INSTANCE ReceiptSession WITH
    expired <- payerExpired,
    Streams <- {s1, s2}, Exits <- {"exit"}, Relays <- {"relay"}, RequestRelays <- {},
    ResponseRelays <- {"relay"}, Rates <- {Rate}, Sizes <- {1}, Cap <- 3,
    OfferedCharges <- {2}, MaxRoutes <- 2, MaxObserved <- 1, MaxDeferred <- 0,
    MaxAuths <- 2, MaxEpochs <- 2, MaxSequence <- 1, MaxRequests <- 0, MaxFaults <- 0,
    MaxCrashes <- 1

\* One stream with requests and responses, and offers of every charge
Single == INSTANCE ReceiptSession WITH
    expired <- payerExpired,
    Streams <- {"stream"}, Exits <- {"exit"}, Relays <- {"relay"},
    RequestRelays <- {"relay"}, ResponseRelays <- {"relay"}, Rates <- {Rate}, Sizes <- {1},
    Cap <- 8, OfferedCharges <- {2, 4, 6, 8}, MaxRoutes <- 2, MaxObserved <- 2,
    MaxDeferred <- 1, MaxAuths <- 1, MaxEpochs <- 2, MaxSequence <- 1, MaxRequests <- 1,
    MaxFaults <- 0, MaxCrashes <- 1

\* The configuration has a long and a short route under one cap, charges of two amounts,
\* and a chain with one reorganisation; or there is one amount, and a chain that grows by
\* one block more
OneAuth == long :> auth @@ short :> auth
TwoCharges == long :> {1, 2} @@ short :> {1}
TwoReceipts == long :> 2 @@ short :> 1
Chain == INSTANCE ReceiptSettlement WITH
    Cap <- 2, Charges <- (long :> {1} @@ short :> {1}), MaxHeight <- 3, MaxInFlight <- 1

None == 0

payerVars == <<mgr, payerExpired, nextAuth, nextEpoch, admitted, dead, deferred, crashes,
               released, seen>>
receiptVars == <<part, payerVars, vars>>

\* A payer that does not move is given no state
PayerRests ==
    /\ mgr = None /\ payerExpired = None /\ nextAuth = None /\ nextEpoch = None
    /\ admitted = None /\ dead = None /\ deferred = None /\ crashes = None
    /\ released = None /\ seen = None

ReceiptInit ==
    /\ Init
    /\ \/ part = "single" /\ Single!Init
       \/ part = "parallel" /\ Parallel!Init
       \/ part = "renewed" /\ Renewed!Init
       \/ part \in {"provider", "chain"} /\ PayerRests

\* The payer may come to rest when its bounds are reached; the provider never does.
ReceiptNext ==
    /\ UNCHANGED part
    /\ \/ /\ \/ part = "parallel" /\ Parallel!Next
             \/ part = "renewed" /\ Renewed!Next
             \/ part = "single" /\ Single!Next
             \/ part \in {"parallel", "renewed", "single"} /\ UNCHANGED payerVars
          /\ UNCHANGED vars
       \/ /\ \/ part = "provider" /\ Next
             \/ part = "chain" /\ Chain!Next
          /\ UNCHANGED payerVars

ReceiptSpec == ReceiptInit /\ [][ReceiptNext]_receiptVars

---------------------------------------------------------------------------
\* Every variable of the two sides stays in its domain, and the queues within their
\* limits.
ReceiptTypeOK ==
    /\ part = "single" => Single!TypeOK
    /\ part = "parallel" => Parallel!TypeOK
    /\ part = "renewed" => Renewed!TypeOK
    /\ IF part = "chain" THEN Chain!TypeOK ELSE TypeOK

\* One wallet signature never pays more than its cap, and a restart gives nothing of it
\* back (ReceiptSessionManager::acknowledge_offer, restore_active).
CapHolds ==
    /\ part = "parallel" => Parallel!CapHolds
    /\ part = "renewed" => Renewed!CapHolds

\* The payer signs for the traffic it has seen, once (checked_charge_wei over the
\* requests and responses of the epoch).
PaysForSeenTraffic == part = "single" => Single!PaysForSeenTraffic

\* An acknowledgement is new only for the epoch some stream has now, under the
\* authorization that is active now (acknowledge_offer).
OnlyTheCurrentRoutePays ==
    [][/\ part = "single" => Single!PaysTheCurrentRoute
       /\ part = "parallel" => Parallel!PaysTheCurrentRoute
       /\ part = "renewed" => Renewed!PaysTheCurrentRoute]_receiptVars
=============================================================================
