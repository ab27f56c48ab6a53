---------------------------- MODULE MCOnboarding ----------------------------
(* A small instance of Onboarding: the forms and preferences filled in. *)
EXTENDS Onboarding, TLC

Form(r, l) == [risk |-> r, license |-> l, complete |-> TRUE]

(* A general merchant; a dispensary without a license and with one *)
ThreeForms == {Form(FALSE, None), Form(TRUE, None), Form(TRUE, 1)}

Hold == {[auto |-> FALSE, address |-> FALSE]}

Alike == Permutations(Calls) \cup Permutations(Keys)
=============================================================================
