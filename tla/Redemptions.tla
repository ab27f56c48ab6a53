---------------------------- MODULE Redemptions ----------------------------
(***************************************************************************)
(* Selling USDC back to FAWN (routers/redemptions.py): the amount leaves   *)
(* the balance when it is requested and is held on the redemption row      *)
(* until an admin records its payment or it is refunded.                   *)
(*                                                                         *)
(* The handlers are plain functions in a thread pool, so an action is one  *)
(* statement that waits for the database or reads it.  get_current_user    *)
(* loads the user's row first, in the session the handler then uses: the   *)
(* later SELECT ... FOR UPDATE takes the lock and returns the object that  *)
(* is already there, so seen[c] stays the balance loaded before the lock.  *)
(***************************************************************************)
EXTENDS Integers, FiniteSets, Functions

CONSTANTS
  Users,
  Requests,    \* calls of request_redemption; a call also names its row
  Cancels,     \* calls of cancel_redemption
  Reviews,     \* calls of reject and mark_failed
  Orders,      \* what a request may ask for: user, amount and key
  NoKey, None,
  Opening,     \* balance of each user at the start
  DailyMax, Float, \* redemption_daily_max_cents, redemption_float_cents
  MaxCrashes   \* bound on process restarts

Refunders == Cancels \cup Reviews
Calls     == Requests \cup Refunders

ASSUME OrdersAssumption  == \A o \in Orders : o.user \in Users /\ o.amount \in Nat \ {0}
ASSUME BoundsAssumption  == {DailyMax, Float, MaxCrashes} \subseteq Nat
ASSUME OpeningAssumption == Opening \in [Users -> Nat]
ASSUME CallsAssumption   == /\ Requests \cap Refunders = {} /\ Cancels \cap Reviews = {}
                            /\ None \notin Calls \cup Requests
ASSUME FiniteAssumption  == IsFiniteSet(Users) /\ IsFiniteSet(Requests)

VARIABLES
  balance,   \* User.usdc_balance_cents
  ask,       \* what each request asks for
  status,    \* StablecoinRedemption.status, "none" before the row exists
  held,      \* StablecoinRedemption.held_cents
  refunded,  \* history: what refunds have credited for each row
  pc,        \* the statement each call executes next
  seen,      \* the balance in the user object of each call's session
  target,    \* the row each refunding call works on
  rowLock, userLock, \* who holds each row's lock
  crashes

rows  == <<status, held, refunded>>
locks == <<rowLock, userLock>>
vars  == <<balance, ask, rows, pc, seen, target, locks, crashes>>

Open    == {"requested", "approved"}
Closed  == {"rejected", "cancelled", "failed"}
Owner(r) == ask[r].user

Sum(S) == SumFunctionOnSet([r \in Requests |-> ask[r].amount], S)

(* _redeemed_last_24h: a behaviour fits in 24 hours. *)
Redeemed(u) == Sum({r \in Requests : Owner(r) = u /\ status[r] \in Open \cup {"paid"}})

OpenFloat == Sum({r \in Requests : status[r] \in Open})

(* idempotency_key is UNIQUE. *)
KeyTaken(r) == /\ ask[r].key # NoKey
               /\ \E q \in Requests : status[q] # "none" /\ ask[q].key = ask[r].key

Init ==
  /\ balance = Opening
  /\ ask \in [Requests -> Orders]
  /\ status = [r \in Requests |-> "none"]
  /\ held = [r \in Requests |-> 0]
  /\ refunded = [r \in Requests |-> 0]
  /\ pc = [c \in Calls |-> "idle"]
  /\ seen = [c \in Calls |-> 0]
  /\ target = [c \in Refunders |-> None]
  /\ rowLock = [r \in Requests |-> None]
  /\ userLock = [u \in Users |-> None]
  /\ crashes = 0

Goto(c, stage) == pc' = [pc EXCEPT ![c] = stage]

----------------------------------------------------------------------------
(* request_redemption *)

(* get_current_user *)
Load(r) ==
  /\ pc[r] = "idle"
  /\ seen' = [seen EXCEPT ![r] = balance[Owner(r)]]
  /\ Goto(r, "loaded")
  /\ UNCHANGED <<balance, ask, rows, target, locks, crashes>>

(* A known key replays its row. *)
CheckKey(r) ==
  /\ pc[r] = "loaded"
  /\ Goto(r, IF KeyTaken(r) THEN "done" ELSE "checked")
  /\ UNCHANGED <<balance, ask, rows, seen, target, locks, crashes>>

(* Mutant: the day's total is summed without the user's lock. *)
LockUserLate(r) ==
  /\ pc[r] = "checked"
  /\ IF /\ ask[r].amount <= seen[r]
        /\ Redeemed(Owner(r)) + ask[r].amount <= DailyMax
     THEN Goto(r, "locked")
     ELSE Goto(r, "refused")
  /\ UNCHANGED <<balance, ask, rows, seen, target, locks, crashes>>

(* The user's row is locked; then the balance, as loaded, the day's total  *)
(* and the open float are checked.                                         *)
LockUser(r) ==
  /\ pc[r] = "checked"
  /\ userLock[Owner(r)] = None
  /\ userLock' = [userLock EXCEPT ![Owner(r)] = r]
  /\ IF /\ ask[r].amount <= seen[r]
        /\ Redeemed(Owner(r)) + ask[r].amount <= DailyMax
        /\ Float > 0 => OpenFloat + ask[r].amount <= Float
     THEN Goto(r, "locked")
     ELSE Goto(r, "refused")
  /\ UNCHANGED <<balance, ask, rows, seen, target, rowLock, crashes>>

(* The commit: the debit and the row together, or neither if the key has   *)
(* been taken meanwhile.                                                   *)
Escrow(r) ==
  /\ pc[r] = "locked"
  /\ IF KeyTaken(r)
     THEN UNCHANGED <<balance, status, held>>
     ELSE /\ balance' = [balance EXCEPT ![Owner(r)] = seen[r] - ask[r].amount]
          /\ status' = [status EXCEPT ![r] = "requested"]
          /\ held' = [held EXCEPT ![r] = ask[r].amount]
  /\ userLock' = [userLock EXCEPT ![Owner(r)] = None]
  /\ Goto(r, "done")
  /\ UNCHANGED <<ask, refunded, seen, target, rowLock, crashes>>

----------------------------------------------------------------------------
(* cancel_redemption, reject, mark_failed: _release_hold *)

(* get_current_user again: a user cancels a row of his own. *)
LoadForCancel(c, r) ==
  /\ pc[c] = "idle"
  /\ status[r] # "none"
  /\ target' = [target EXCEPT ![c] = r]
  /\ seen' = [seen EXCEPT ![c] = balance[Owner(r)]]
  /\ Goto(c, "loaded")
  /\ UNCHANGED <<balance, ask, rows, locks, crashes>>

(* An admin's request loads no user. *)
StartReview(c, r) ==
  /\ pc[c] = "idle"
  /\ status[r] # "none"
  /\ target' = [target EXCEPT ![c] = r]
  /\ Goto(c, "loaded")
  /\ UNCHANGED <<balance, ask, rows, seen, locks, crashes>>

Refundable(c) == IF c \in Cancels THEN {"requested"} ELSE Open

(* Mutant: the status is checked, and the row not locked. *)
CheckRow(c) ==
  /\ pc[c] = "loaded"
  /\ Goto(c, IF status[target[c]] \in Refundable(c) THEN "rowLocked" ELSE "refused")
  /\ UNCHANGED <<balance, ask, rows, seen, target, locks, crashes>>

(* The redemption row is locked, and its status read under the lock. *)
LockRow(c) ==
  /\ pc[c] = "loaded"
  /\ rowLock[target[c]] = None
  /\ rowLock' = [rowLock EXCEPT ![target[c]] = c]
  /\ Goto(c, IF status[target[c]] \in Refundable(c) THEN "rowLocked" ELSE "refused")
  /\ UNCHANGED <<balance, ask, rows, seen, target, userLock, crashes>>

(* Then the user's row: an admin's session reads it here, a user's session *)
(* already has it.                                                         *)
LockOwner(c) ==
  LET u == Owner(target[c])
  IN  /\ pc[c] = "rowLocked"
      /\ userLock[u] = None
      /\ userLock' = [userLock EXCEPT ![u] = c]
      /\ seen' = IF c \in Reviews THEN [seen EXCEPT ![c] = balance[u]] ELSE seen
      /\ Goto(c, "locked")
      /\ UNCHANGED <<balance, ask, rows, target, rowLock, crashes>>

(* Mutant: the user's row is never unlocked. *)
ReleaseKeepingUser(c, stage) ==
  LET r == target[c]
  IN  /\ pc[c] = "locked"
      /\ balance' = [balance EXCEPT ![Owner(r)] = seen[c] + held[r]]
      /\ refunded' = [refunded EXCEPT ![r] = @ + held[r]]
      /\ held' = [held EXCEPT ![r] = 0]
      /\ status' = [status EXCEPT ![r] = stage]
      /\ rowLock' = [rowLock EXCEPT ![r] = None]
      /\ Goto(c, "done")
      /\ UNCHANGED <<ask, seen, target, userLock, crashes>>

(* The commit of _release_hold: exactly what is held is credited. *)
Release(c, stage) ==
  LET r == target[c]
  IN  /\ pc[c] = "locked"
      /\ balance' = [balance EXCEPT ![Owner(r)] = seen[c] + held[r]]
      /\ refunded' = [refunded EXCEPT ![r] = @ + held[r]]
      /\ held' = [held EXCEPT ![r] = 0]
      /\ status' = [status EXCEPT ![r] = stage]
      /\ rowLock' = [rowLock EXCEPT ![r] = None]
      /\ userLock' = [userLock EXCEPT ![Owner(r)] = None]
      /\ Goto(c, "done")
      /\ UNCHANGED <<ask, seen, target, crashes>>

----------------------------------------------------------------------------
(* approve, mark_paid: one row, locked, checked and written in one         *)
(* transaction that waits for nothing else                                 *)

ApproveRow(r) ==
  /\ rowLock[r] = None
  /\ status[r] = "requested"
  /\ status' = [status EXCEPT ![r] = "approved"]
  /\ UNCHANGED <<balance, ask, held, refunded, pc, seen, target, locks, crashes>>

MarkPaid(r) ==
  /\ rowLock[r] = None
  /\ status[r] = "approved"
  /\ status' = [status EXCEPT ![r] = "paid"]
  /\ held' = [held EXCEPT ![r] = 0]
  /\ UNCHANGED <<balance, ask, refunded, pc, seen, target, locks, crashes>>

(* A refused call has raised an HTTPException: what it has locked is let   *)
(* go when the request's session is closed, by get_db, which the event     *)
(* loop runs once it gets to the exception.                                *)
Close(c) ==
  /\ pc[c] = "refused"
  /\ rowLock' = [r \in Requests |-> IF rowLock[r] = c THEN None ELSE rowLock[r]]
  /\ userLock' = [u \in Users |-> IF userLock[u] = c THEN None ELSE userLock[u]]
  /\ Goto(c, "done")
  /\ UNCHANGED <<balance, ask, rows, seen, target, crashes>>

(* The process restarts: the database rolls open transactions back. *)
Crash ==
  /\ crashes < MaxCrashes
  /\ crashes' = crashes + 1
  /\ pc' = [c \in Calls |-> IF pc[c] \in {"idle", "done"} THEN pc[c] ELSE "dead"]
  /\ rowLock' = [r \in Requests |-> None]
  /\ userLock' = [u \in Users |-> None]
  /\ UNCHANGED <<balance, ask, rows, seen, target>>

----------------------------------------------------------------------------

RequestStep(r) == CheckKey(r) \/ LockUser(r) \/ Escrow(r)

RefundStep(c) ==
  \/ LockRow(c) \/ LockOwner(c)
  \/ \E stage \in Closed : (stage = "cancelled" <=> c \in Cancels) /\ Release(c, stage)

Next ==
  \/ \E r \in Requests : Load(r) \/ RequestStep(r) \/ ApproveRow(r) \/ MarkPaid(r)
  \/ \E c \in Refunders : RefundStep(c)
  \/ \E c \in Calls : Close(c)
  \/ \E r \in Requests : \/ \E c \in Cancels : LoadForCancel(c, r)
                         \/ \E c \in Reviews : StartReview(c, r)
  \/ Crash

Spec == Init /\ [][Next]_vars

----------------------------------------------------------------------------
(* Properties that hold *)

(* Every variable holds what its column or local variable may hold. *)
TypeOK ==
  /\ balance \in [Users -> Int]
  /\ ask \in [Requests -> Orders]
  /\ status \in [Requests -> {"none", "paid"} \cup Open \cup Closed]
  /\ held \in [Requests -> Int] /\ refunded \in [Requests -> Int]
  /\ pc \in [Calls -> {"idle", "loaded", "checked", "rowLocked", "locked", "refused", "done", "dead"}]
  /\ seen \in [Calls -> Int]
  /\ target \in [Refunders -> Requests \cup {None}]
  /\ rowLock \in [Requests -> Calls \cup {None}]
  /\ userLock \in [Users -> Calls \cup {None}]
  /\ crashes \in 0 .. MaxCrashes

(* "Escrow is always either held, refunded, or consumed": each row's       *)
(* amount is in exactly one place, whichever of a cancellation, several    *)
(* admins and a payment meet on the row.                                   *)
EscrowInOnePlace ==
  \A r \in Requests :
    /\ held[r] = IF status[r] \in Open THEN ask[r].amount ELSE 0
    /\ refunded[r] = IF status[r] \in Closed THEN ask[r].amount ELSE 0

(* The 24-hour limit holds, since the total is summed under the lock that  *)
(* every request of the user takes.                                        *)
DailyLimitHolds == \A u \in Users : Redeemed(u) <= DailyMax

(* A payment is only ever recorded for a row an admin has approved, and    *)
(* the closed statuses are final.                                          *)
Edges == ({"none"} \X {"requested"}) \cup ({"requested"} \X ({"approved"} \cup Closed))
         \cup ({"approved"} \X {"paid", "rejected", "failed"})
StatusFollowsEdges ==
  [][\A r \in Requests : status'[r] # status[r] => <<status[r], status'[r]>> \in Edges]_vars

----------------------------------------------------------------------------
(* A property the code's comments state and its behaviour refutes *)

(* "Lock the user row so two concurrent requests cannot both pass the      *)
(* balance check and overdraw": what is held or paid out came out of the   *)
(* opening balance.                                                        *)
NoOverdraw == \A u \in Users : Redeemed(u) <= Opening[u]
=============================================================================
