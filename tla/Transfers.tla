----------------------------- MODULE Transfers -----------------------------
(***************************************************************************)
(* Money that moves inside the ledger: sends to a FAWN username            *)
(* (routers/crypto.py), FAWN Tab requests (routers/repayments.py) and an   *)
(* admin's manual credit (routers/admin_credit.py).                        *)
(*                                                                         *)
(* The three are coroutines that never suspend once they run, so loop      *)
(* names the one the event loop runs; other threads, which lock and write  *)
(* the same users, go on meanwhile.  A new balance is computed from the    *)
(* user object of the session and written as a number: its commit waits    *)
(* for the row's lock and overwrites what was committed since the load.    *)
(* pay_request has its payer from get_current_user, which runs in a thread *)
(* before; creating a request and preparing a reminder are plain functions *)
(* in the thread pool.                                                     *)
(*                                                                         *)
(* That the recipient's username names a user with a wallet is taken for   *)
(* granted: the external path is in CustodialSend.                         *)
(***************************************************************************)
EXTENDS Integers

CONSTANTS
  Users, None,
  Moves,        \* calls of send_to_user_or_wallet and manual_credit_balance
  MoveOrders,   \* what they may ask for; a credit comes from None
  Tabs, Terms,  \* RepaymentRequest rows, and what one may say
  Pays,         \* calls of pay_request
  Reminders,    \* calls of prepare_reminder
  INTERNAL_TRANSFER_FEE_CENTS,
  MaxFaults     \* bound on errors of the database that no handler lists

VARIABLES
  balance,   \* User.usdc_balance_cents
  userLock,  \* who has locked each user's row
  terms,     \* RepaymentRequest.requester_id, payer_id and amount_cents
  tab,       \* RepaymentRequest.status, "none" before the row exists
  reminded,  \* rows with last_reminded_at in the last 24 hours
  moved,     \* history: ledger transfers made for each request
  fees, credited, \* history: fees charged, and cents an admin has added
  loop,      \* the coroutine the event loop runs
  stage, work, \* what each call does next, and what it has loaded
  faults

requests == <<terms, tab, reminded, moved>>
sums     == <<fees, credited>>
tasks    == <<loop, stage, work>>
vars     == <<balance, userLock, requests, sums, tasks, faults>>

Coroutines == Moves \cup Pays
Tasks      == Coroutines \cup Reminders

NoWork == [from |-> None, to |-> None, amount |-> 0, tab |-> None, mine |-> 0, theirs |-> 0]

Init ==
  /\ terms = [r \in Tabs |-> None]
  /\ tab = [r \in Tabs |-> "none"]
  /\ reminded = {}
  /\ moved = [r \in Tabs |-> 0]
  /\ fees = 0 /\ credited = 0
  /\ loop = None
  /\ stage = [h \in Tasks |-> "idle"]
  /\ work = [h \in Tasks |-> NoWork]
  /\ faults = 0

Goto(h, s) == stage' = [stage EXCEPT ![h] = s]

(* The call ends, and leaves the event loop. *)
Return(h) ==
  /\ loop' = IF loop = h THEN None ELSE loop
  /\ Goto(h, "done")
  /\ work' = [work EXCEPT ![h] = NoWork]

Fee(h)   == IF work[h].from = None THEN 0 ELSE INTERNAL_TRANSFER_FEE_CENTS
Total(h) == work[h].amount + Fee(h)
Covered(h) == work[h].from # None => Total(h) <= work[h].mine

Unlocked(u) == u \in Users => userLock[u] = None

(* Mutant: the sender pays the amount, and not the fee. *)
AfterWithoutFee(h) ==
  [u \in Users |-> CASE u = work[h].from -> work[h].mine - work[h].amount
                     [] u = work[h].to   -> work[h].theirs + work[h].amount
                     [] OTHER            -> balance[u]]

(* The balances a transfer writes *)
After(h) ==
  [u \in Users |-> CASE u = work[h].from -> work[h].mine - Total(h)
                     [] u = work[h].to   -> work[h].theirs + work[h].amount
                     [] OTHER            -> balance[u]]

(* The commit of the internal branch of send_usdc, or of the credit *)
MoveMoney(h) ==
  /\ Unlocked(work[h].from) /\ Unlocked(work[h].to)
  /\ balance' = After(h)
  /\ fees' = fees + Fee(h)
  /\ credited' = IF work[h].from = None THEN credited + work[h].amount ELSE credited

----------------------------------------------------------------------------
(* send_to_user_or_wallet and manual_credit_balance *)

(* The users are loaded; a send that they do not cover is refused. *)
LoadMove(h, m) ==
  LET k == [NoWork EXCEPT !.from = m.from, !.to = m.to, !.amount = m.amount,
                          !.mine = IF m.from = None THEN 0 ELSE balance[m.from],
                          !.theirs = balance[m.to]]
  IN  /\ loop = None /\ stage[h] = "idle"
      /\ work' = [work EXCEPT ![h] = k]
      /\ Covered(h)'
      /\ loop' = h
      /\ Goto(h, "loaded")
      /\ UNCHANGED <<balance, userLock, requests, sums, faults>>

CommitMove(h) ==
  /\ loop = h /\ h \in Moves /\ stage[h] = "loaded"
  /\ MoveMoney(h)
  /\ Return(h)
  /\ UNCHANGED <<userLock, requests, faults>>

----------------------------------------------------------------------------
(* FAWN Tab *)

CreateRequest(r, k) ==
  /\ tab[r] = "none"
  /\ terms' = [terms EXCEPT ![r] = k]
  /\ tab' = [tab EXCEPT ![r] = "pending"]
  /\ UNCHANGED <<balance, userLock, reminded, moved, sums, tasks, faults>>

(* prepare_reminder loads a pending request that was not reminded of. *)
LoadReminder(h, r) ==
  /\ stage[h] = "idle"
  /\ tab[r] = "pending" /\ r \notin reminded
  /\ work' = [work EXCEPT ![h].tab = r]
  /\ Goto(h, "loaded")
  /\ UNCHANGED <<balance, userLock, requests, sums, loop, faults>>

(* Mutant: the whole row is written, with the status that was loaded. *)
SaveWholeRow(h) ==
  /\ h \in Reminders /\ stage[h] = "loaded"
  /\ reminded' = reminded \cup {work[h].tab}
  /\ tab' = [tab EXCEPT ![work[h].tab] = "pending"]
  /\ Return(h)
  /\ UNCHANGED <<balance, userLock, terms, moved, sums, faults>>

(* Only last_reminded_at has changed, and only it is written. *)
SaveReminder(h) ==
  /\ h \in Reminders /\ stage[h] = "loaded"
  /\ reminded' = reminded \cup {work[h].tab}
  /\ Return(h)
  /\ UNCHANGED <<balance, userLock, terms, tab, moved, sums, faults>>

(* get_current_user, for the payer of r *)
LoadPayer(h, r) ==
  LET k == terms[r]
  IN  /\ stage[h] = "idle" /\ tab[r] # "none"
      /\ work' = [work EXCEPT ![h] = [NoWork EXCEPT !.from = k.payer, !.to = k.requester, !.tab = r,
                                       !.amount = k.amount, !.mine = balance[k.payer]]]
      /\ Goto(h, "loaded")
      /\ UNCHANGED <<balance, userLock, requests, sums, loop, faults>>

(* Mutant: the request stays pending until it is paid. *)
ClaimNothing(r) == tab

Claimed(r) == [tab EXCEPT ![r] = "processing"]

(* A pending request is claimed, and that is committed; the recipient has  *)
(* been loaded just before.                                                *)
Claim(h) ==
  LET r == work[h].tab
  IN  /\ loop = None /\ h \in Pays /\ stage[h] = "loaded"
      /\ IF tab[r] = "pending"
         THEN /\ tab' = Claimed(r)
              /\ work' = [work EXCEPT ![h].theirs = balance[work[h].to]]
              /\ loop' = h
              /\ Goto(h, "claimed")
         ELSE Return(h) /\ UNCHANGED tab
      /\ UNCHANGED <<balance, userLock, terms, reminded, moved, sums, faults>>

(* The payer's balance, as loaded, is too low: the request is given back. *)
GiveBack(h) ==
  /\ stage[h] = "claimed" /\ ~ Covered(h)
  /\ tab' = [tab EXCEPT ![work[h].tab] = "pending"]
  /\ Return(h)
  /\ UNCHANGED <<balance, userLock, terms, reminded, moved, sums, faults>>

Pay(h) ==
  /\ stage[h] = "claimed" /\ Covered(h)
  /\ MoveMoney(h)
  /\ moved' = [moved EXCEPT ![work[h].tab] = @ + 1]
  /\ Goto(h, "paid")
  /\ UNCHANGED <<userLock, terms, tab, reminded, loop, work, faults>>

RecordPaid(h) ==
  /\ stage[h] = "paid"
  /\ tab' = [tab EXCEPT ![work[h].tab] = "paid"]
  /\ Return(h)
  /\ UNCHANGED <<balance, userLock, terms, reminded, moved, sums, faults>>

(* A statement or a commit fails with an error that the handler does not   *)
(* list: the request's session is closed, which rolls it back.             *)
Fault(h) ==
  /\ faults < MaxFaults /\ faults' = faults + 1
  /\ stage[h] \in {"loaded", "claimed", "paid"}
  /\ Return(h)
  /\ UNCHANGED <<balance, userLock, requests, sums>>

(* The process restarts. *)
Stop ==
  /\ loop' = None
  /\ stage' = [h \in Tasks |-> IF stage[h] = "idle" THEN "idle" ELSE "done"]
  /\ work' = [h \in Tasks |-> NoWork]
  /\ UNCHANGED <<requests, sums, faults>>

----------------------------------------------------------------------------

Run(h) ==
  \/ CommitMove(h) \/ SaveReminder(h)
  \/ Claim(h) \/ GiveBack(h) \/ Pay(h) \/ RecordPaid(h)

Next ==
  \/ \E h \in Tasks : Run(h) \/ Fault(h)
  \/ \E h \in Moves, m \in MoveOrders : LoadMove(h, m)
  \/ \E h \in Pays, r \in Tabs : LoadPayer(h, r)
  \/ \E h \in Reminders, r \in Tabs : LoadReminder(h, r)
  \/ \E r \in Tabs, k \in Terms : CreateRequest(r, k)

(* Calls whose session holds a copy of a user's balance *)
Copies(u) ==
  {h \in Coroutines : \/ stage[h] \in {"loaded", "claimed"} /\ work[h].from = u
                      \/ stage[h] \in {"loaded", "claimed"} /\ work[h].to = u /\ loop = h}
=============================================================================
