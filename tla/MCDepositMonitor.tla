-------------------------- MODULE MCDepositMonitor --------------------------
(* Small instances of DepositMonitor: the values its constants take. *)
EXTENDS DepositMonitor, TLC

CONSTANTS d1, native, bridged

OneContract == d1 :> native
OneAmount   == d1 :> 2
=============================================================================
