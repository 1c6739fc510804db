---------------------------- MODULE MCCaTimeout -----------------------------
(* Instances of CaTimeout for TLC. *)
EXTENDS CaTimeout

CONSTANTS c1, c2, up, down

MCSize == [c \in Chan |-> [v \in Value |-> IF v = down THEN 0 ELSE 2 * FragRoom]]
=============================================================================
