-------------------------- MODULE MCCustodialSend --------------------------
(* Small instances of CustodialSend: the values its constants take. *)
EXTENDS CustodialSend

CONSTANTS u1, u2, x1, k1

Pay(f, t, n, k, i) == [from |-> f, to |-> t, amount |-> n, key |-> k, internal |-> i]

(* A small send with an idempotency key and without, a large one, one in   *)
(* the ledger, and one to oneself                                          *)
ReviewPayments == {Pay(u1, x1, 2, NoKey, FALSE), Pay(u1, x1, 2, k1, FALSE),
                   Pay(u1, x1, 4, NoKey, FALSE),
                   Pay(u1, u2, 2, NoKey, TRUE), Pay(u1, u1, 2, NoKey, TRUE)}

FeePayments == {Pay(u1, x1, 2, NoKey, FALSE)}

Rich  == [u \in Users |-> 12]
(* Enough for any one send, not for two *)
Tight == [u \in Users |-> 6]
RichOnchain == [u \in Users |-> [c \in Chains |-> 12]]
(* Enough in the ledger for two sends, on each chain only for one *)
SplitOnchain == [u \in Users |-> [c \in Chains |-> 5]]
=============================================================================
