----------------------------- MODULE MCCaSender -----------------------------
(* Instances of CaSender for TLC. *)
EXTENDS CaSender

CONSTANTS d1, d2, t1, t2

(* A record with one field, and two records. *)
OneRecord == [c \in 0 .. 1 |-> 0]
Single == [c \in 0 .. 1 |-> c]

(* Every value takes 8 bytes per element. *)
EightBytes == [c \in Chan |-> [t \in Types |-> [n \in Counts |-> 8 * n]]]

(* The record is an array of n elements, its field a scalar. *)
ScalarField ==
  [c \in Chan |-> [t \in Types |-> [n \in Counts |-> IF c = 0 THEN 8 * n ELSE 8]]]

Injective == [d \in Data |-> d]
=============================================================================
