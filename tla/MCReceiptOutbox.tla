--------------------------- MODULE MCReceiptOutbox ---------------------------
EXTENDS ReceiptOutbox, TLC

CONSTANTS e1, e2, exit, relay

(* A route with an exit and a relay, and a second route beside it.         *)
MCReceipts == (<<e1, relay>> :> 2) @@ (<<e1, exit>> :> 1) @@ (<<e2, exit>> :> 1)
=============================================================================
