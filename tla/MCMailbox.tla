------------------------------ MODULE MCMailbox ------------------------------
(* Instances of OfflineMailbox for TLC: two or three packets in one or two  *)
(* slots; p is long, q short, and x is one the recipient rejects.           *)
EXTENDS OfflineMailbox

CONSTANTS p, q, x

MCStart == [y \in Packet |-> IF y = q THEN SlotCount - 1 ELSE 0]
=============================================================================
