--------------------------- MODULE MCStripeEvents ---------------------------
(* A small instance of StripeEvents: the values its constants take. *)
EXTENDS StripeEvents

CONSTANTS b1, o1, o3

TwoEach == [s \in Bucks |-> 2]
=============================================================================
