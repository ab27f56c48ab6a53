---------------------------- MODULE ReviewQueue ----------------------------
(***************************************************************************)
(* What the review queue promises about one transfer row, with everything  *)
(* else of a send left out: a row is settled at once or held; a held row   *)
(* is settled only by the one admin request that claimed it; a claim ends  *)
(* in settlement or goes back to the queue; a rejected row is closed.      *)
(* The statuses are those of CryptoTransfer (models.py).                   *)
(***************************************************************************)
CONSTANTS Rows, Admins

VARIABLES status,   \* status of each transfer row
          claims    \* the pairs <<admin request, row>> now being settled

vars == <<status, claims>>

Statuses == {"none", "pending_review", "approving", "completed", "rejected"}

TypeOK == /\ status \in [Rows -> Statuses]
          /\ claims \subseteq Admins \X Rows

Init == /\ status = [r \in Rows |-> "none"]
        /\ claims = {}

(* A send that is not held inserts its row already completed. *)
SettleAtOnce(r) == /\ status[r] = "none"
                   /\ status' = [status EXCEPT ![r] = "completed"]
                   /\ UNCHANGED claims

Hold(r) == /\ status[r] = "none"
           /\ status' = [status EXCEPT ![r] = "pending_review"]
           /\ UNCHANGED claims

(* Only a row that waits in the queue can be claimed, by one admin. *)
Claim(a, r) == /\ status[r] = "pending_review"
               /\ ~ \E c \in claims : c[1] = a \/ c[2] = r
               /\ status' = [status EXCEPT ![r] = "approving"]
               /\ claims' = claims \cup {<<a, r>>}

Release(a, r) == /\ <<a, r>> \in claims
                 /\ status[r] = "approving"
                 /\ status' = [status EXCEPT ![r] = "pending_review"]
                 /\ claims' = claims \ {<<a, r>>}

Settle(a, r) == /\ <<a, r>> \in claims
                /\ status[r] = "approving"
                /\ status' = [status EXCEPT ![r] = "completed"]
                /\ claims' = claims \ {<<a, r>>}

Reject(r) == /\ status[r] = "pending_review"
             /\ status' = [status EXCEPT ![r] = "rejected"]
             /\ UNCHANGED claims

(* The process stops: every claim loses its owner, no row changes. *)
Stop == claims' = {} /\ UNCHANGED status

Next == \/ \E r \in Rows : SettleAtOnce(r) \/ Hold(r) \/ Reject(r)
        \/ \E r \in Rows, a \in Admins :
              Claim(a, r) \/ Release(a, r) \/ Settle(a, r)
        \/ Stop

Spec == Init /\ [][Next]_vars
=============================================================================
