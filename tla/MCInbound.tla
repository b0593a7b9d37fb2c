----------------------------- MODULE MCInbound -----------------------------
(* An instance of Inbound for TLC: k1 is a packet of a, k3 one of b, so     *)
(* that the sessions of two peers and one journal meet.                     *)
EXTENDS Inbound

CONSTANTS a, b, k1, k3

MCPeerOf == [k \in Packet |-> IF k = k3 THEN b ELSE a]
=============================================================================
