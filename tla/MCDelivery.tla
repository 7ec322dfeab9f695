----------------------------- MODULE MCDelivery -----------------------------
(* Instances of Delivery for TLC. *)
EXTENDS Delivery, TLC

CONSTANTS w1, w2, c1, c2, k1, k2, e1, e2, none

MCWorkOf == [c \in Connectors |-> IF c = c2 THEN w2 ELSE w1]

MCSymmetry == Permutations(Workers) \cup Permutations(Events)
=============================================================================
