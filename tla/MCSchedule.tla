----------------------------- MODULE MCSchedule -----------------------------
(* Instances of OutboxSchedule for TLC: a1 and a2 are one message to two    *)
(* devices, b1 and c1 are other messages to the first of them.              *)
EXTENDS OutboxSchedule

CONSTANTS a1, a2, b1, c1, d1, m1, m2, m3, m4, here, there

MCMsgOf == [e \in Entry |-> CASE e \in {a1, a2} -> m1 [] e = b1 -> m2
                              [] e = c1 -> m3 [] OTHER -> m4]
MCDestOf == [e \in Entry |-> IF e \in {a2, d1} THEN there ELSE here]
=============================================================================
