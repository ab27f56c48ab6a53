--------------------------- MODULE MCInvestments ---------------------------
(* Values of Investments' constants for TLC *)
EXTENDS Investments, TLC

CONSTANTS p1, aapl

OneTicker == p1 :> aapl
(* The price falls and rises again. *)
Market    == 0 :> 2 @@ 1 :> 1 @@ 2 :> 1 @@ 3 :> 2
TwoShares == p1 :> Row(1, 2, 3, 2)

(* Only the identity of a request tells it from another. *)
CallSymmetry == Permutations(Calls)
=============================================================================
