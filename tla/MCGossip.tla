------------------------------ MODULE MCGossip ------------------------------
EXTENDS Gossip
ToFirst == [n \in Nodes |-> IF n = 1 THEN {} ELSE {1}]
=============================================================================
