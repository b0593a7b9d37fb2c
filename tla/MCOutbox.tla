------------------------------ MODULE MCOutbox ------------------------------
(* Instances of Outbox for TLC: m1 goes to two devices and m2 to one of    *)
(* them; m3, when Msg has it, is a message of an older release of which    *)
(* only the ciphertext z1 is left.                                         *)
EXTENDS Outbox

CONSTANTS m1, m2, m3, c1, c2, d1, d2, a1, a2, b1, z1

MCConvOf == [m \in Msg |-> IF m = m2 THEN c2 ELSE c1]
MCMsgOf  == [e \in Entry |-> CASE e = b1 -> m2 [] e = z1 -> m3 [] OTHER -> m1]
MCDestOf == [e \in Entry |-> IF e \in {a1, b1} THEN d1 ELSE d2]
=============================================================================
