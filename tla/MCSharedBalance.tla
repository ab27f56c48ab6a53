-------------------------- MODULE MCSharedBalance --------------------------
(* Small instances of SharedBalance: the values its constants take. *)
EXTENDS SharedBalance, TLC

CONSTANTS u1, u2, k1

Order(u, n, k) == [user |-> u, amount |-> n, key |-> k]

(* One user, with and without a key, or another one *)
TwoUsers == {Order(u1, 2, NoKey), Order(u1, 3, k1), Order(u2, 2, NoKey)}
Ample    == u1 :> 4 @@ u2 :> 3

(* u2 has asked u1 for 2, which u1 can pay unless a redemption took it. *)
OneTab   == {[requester |-> u2, payer |-> u1, amount |-> 2]}
Move(from, to, n) == [from |-> from, to |-> to, amount |-> n]
SomeMoves == {Move(u2, u1, 1), Move(None, u1, 2)}
=============================================================================
