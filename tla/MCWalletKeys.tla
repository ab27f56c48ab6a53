---------------------------- MODULE MCWalletKeys ----------------------------
(* A small instance of WalletKeys: one user for each kind of old address *)
EXTENDS WalletKeys, TLC

CONSTANTS u1, u2, u3, u4, o2, o3, o4

OldAddresses == (u1 :> None) @@ (u2 :> o2) @@ (u3 :> o3) @@ (u4 :> o4)
EachScheme   == (o2 :> "none") @@ (o3 :> "missing") @@ (o4 :> "direct")

Alike == Permutations(Calls) \cup Permutations(Fresh)
=============================================================================
