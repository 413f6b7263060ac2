----------------------------- MODULE MCAccountant -----------------------------
(* The payable scans with two creditors: one debt grows while it is paid.     *)
EXTENDS Accountant, TLC

CONSTANTS c1, c2, r1, r2

MCMaxDebt == c1 :> 2 @@ c2 :> 1
==============================================================================
