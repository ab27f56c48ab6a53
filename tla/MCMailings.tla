----------------------------- MODULE MCMailings -----------------------------
(* A small instance of Mailings: its values are all in the configuration. *)
EXTENDS Mailings
=============================================================================
