----------------------------- MODULE MCReplicas -----------------------------
(* Instances of Replicas for TLC: the author has x1 and x2, p and q one device. *)
EXTENDS Replicas

CONSTANTS x, p, q, x1, x2, p1, q1, m1

MCAccountOf == [d \in Device |-> CASE d \in {x1, x2} -> x [] d = p1 -> p [] OTHER -> q]
MCWriter == [i \in Msg |-> IF i = m1 THEN x1 ELSE x2]
=============================================================================
