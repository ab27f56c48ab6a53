----------------------------- MODULE MCAccounts -----------------------------
(* A small instance of Accounts: one user has a name, "a_b"; as a pattern  *)
(* it also matches "axb".  One has none, and one is new.                   *)
EXTENDS Accounts, TLC

CONSTANTS u1, u2, u3, ab, axb, cd

MCLegacy    == {u1, u2}
MCFirstName == u1 :> ab @@ u2 :> Null
MCWild      == {<<ab, axb>>}

CallSymmetry == Permutations(Requests) \cup Permutations(Codes)
=============================================================================
