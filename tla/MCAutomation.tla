---------------------------- MODULE MCAutomation ----------------------------
(* A small instance of Automation: a subscription that batches are not     *)
(* posted to.                                                              *)
EXTENDS Automation

MCWants == [s \in Subs |-> {"alert", "test"}]
=============================================================================
