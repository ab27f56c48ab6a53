---------------------------- MODULE MCClosedLoop ----------------------------
(* Values of ClosedLoop's constants for TLC *)
EXTENDS ClosedLoop, TLC

CONSTANTS c1, c2, d1, d2

CardWith(state, limit) == [status |-> state, single |-> 3, daily |-> limit]

(* Members 1 and 2 sell to each other, and 3 buys from both.  A card's     *)
(* limit is a cent too low for both purchases, and 1 has a cent too little *)
(* for one; 3 has registered as many devices as a card may have.           *)
Sellers    == c1 :> 2 @@ c2 :> 1
Prices     == c1 :> 2 @@ c2 :> 3
Merchants  == 1 :> "none" @@ 2 :> "active" @@ 3 :> "active"
Tight      == {CardWith("active", 6), CardWith("frozen", 6)}
CardsOf    == 1 :> CardWith("active", 6) @@ 2 :> NoCard @@ 3 :> CardWith("active", 6)
OneDevice  == d1 :> 3 @@ d2 :> None
Balances   == 1 :> 2 @@ 2 :> 4 @@ 3 :> 7

(* Only the identity of a request tells it from another. *)
CallSymmetry == Permutations(Calls)
=============================================================================
