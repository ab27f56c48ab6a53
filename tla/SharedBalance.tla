--------------------------- MODULE SharedBalance ---------------------------
(***************************************************************************)
(* The two components that write one column, User.usdc_balance_cents, at   *)
(* the same time: Redemptions, whose handlers are threads that lock the    *)
(* user's row, and Transfers, whose handlers are coroutines that do not.   *)
(***************************************************************************)
EXTENDS Redemptions

CONSTANTS Moves, MoveOrders, Tabs, Terms, Pays, Reminders,
          INTERNAL_TRANSFER_FEE_CENTS, MaxFaults,
          MaxCalls,   \* bound on calls in a behaviour
          MaxFailures \* bound on restarts and faults together

ASSUME MovesAssumption ==
  \A m \in MoveOrders : m.from \in Users \cup {None} /\ m.to \in Users \ {m.from} /\ m.amount \in Nat \ {0}
ASSUME TermsAssumption ==
  \A k \in Terms : {k.payer, k.requester} \subseteq Users /\ k.payer # k.requester /\ k.amount \in Nat \ {0}
ASSUME NumbersAssumption == {INTERNAL_TRANSFER_FEE_CENTS, MaxFaults, MaxCalls, MaxFailures} \subseteq Nat
ASSUME TasksAssumption   ==
  /\ None \notin Users \cup Moves \cup Pays \cup Reminders \cup Tabs \cup Terms
  /\ Moves \cap Pays = {} /\ Moves \cap Reminders = {} /\ Pays \cap Reminders = {}

VARIABLES
  terms, tab, reminded, moved, fees, credited, loop, stage, work, faults,
  overtaken  \* history: a balance has changed while a call held a copy of it

T == INSTANCE Transfers

transferVars == <<terms, tab, reminded, moved, fees, credited, loop, stage, work, faults>>
sharedVars   == <<vars, transferVars, overtaken>>

(* Calls that hold a copy of the user's balance: from get_current_user, or *)
(* from the locking read of a call that has no user.                       *)
Copies(u) ==
  {r \in Requests : pc[r] \in {"loaded", "checked", "locked"} /\ Owner(r) = u}
  \cup {c \in Cancels : pc[c] \in {"loaded", "rowLocked", "locked"} /\ Owner(target[c]) = u}
  \cup {c \in Reviews : pc[c] = "locked" /\ Owner(target[c]) = u}
  \cup T!Copies(u)

SharedInit == Init /\ T!Init /\ overtaken = FALSE

(* A copy that outlives a change of its balance is out of date. *)
NoteOvertaking ==
  overtaken' = (overtaken \/ \E u \in Users : balance'[u] # balance[u] /\ Copies(u) \cap Copies(u)' # {})

(* The event loop closes a session only between its coroutines. *)
CloseBetween(c) == Close(c) /\ loop = None

RedemptionCall ==
  \/ \E r \in Requests : Load(r) \/ RequestStep(r) \/ ApproveRow(r) \/ MarkPaid(r)
  \/ \E c \in Refunders : RefundStep(c)
  \/ \E c \in Calls : CloseBetween(c)
  \/ \E r \in Requests : \/ \E c \in Cancels : LoadForCancel(c, r)
                         \/ \E c \in Reviews : StartReview(c, r)

RedemptionStep == RedemptionCall /\ UNCHANGED transferVars
TransferStep   == T!Next /\ UNCHANGED <<ask, rows, pc, seen, target, rowLock, crashes>>
Restart        == Crash /\ T!Stop

Started == {c \in Calls : pc[c] # "idle"} \cup {h \in T!Tasks : stage[h] # "idle"}

SharedNext ==
  /\ RedemptionStep \/ TransferStep \/ Restart
  /\ NoteOvertaking
  /\ Cardinality(Started') <= MaxCalls
  /\ crashes' + faults' <= MaxFailures

SharedSpec == SharedInit /\ [][SharedNext]_sharedVars

(* Some call that has begun moves on as long as one can: the thread pool   *)
(* and the event loop run them all.  A behaviour has finitely many calls,  *)
(* so nothing need be assumed of each of them.                             *)
Progress ==
  /\ \/ /\ \/ \E r \in Requests : RequestStep(r)
           \/ \E c \in Refunders : RefundStep(c)
           \/ \E c \in Calls : CloseBetween(c)
        /\ UNCHANGED transferVars
     \/ /\ \E h \in T!Tasks : T!Run(h)
        /\ UNCHANGED <<ask, rows, pc, seen, target, rowLock, crashes>>
  /\ NoteOvertaking

SharedFairSpec == SharedSpec /\ WF_sharedVars(Progress)

(* The coroutine of the event loop waits for a row that is locked by a     *)
(* refused call, which waits for the event loop.                           *)
LoopBlocksItself ==
  \E h \in T!Coroutines, u \in Users, c \in Calls :
    /\ loop = h /\ u \in {work[h].from, work[h].to}
    /\ stage[h] \in {"loaded", "claimed"} /\ T!Covered(h)
    /\ userLock[u] = c /\ pc[c] = "refused"

----------------------------------------------------------------------------
(* Properties that hold *)

(* Every variable of Transfers holds what its column or local variable may *)
(* hold, beside a redemption's.                                            *)
SharedTypeOK ==
  /\ TypeOK
  /\ tab \in [Tabs -> {"none", "pending", "processing", "paid"}]
  /\ terms \in [Tabs -> Terms \cup {None}]
  /\ reminded \subseteq Tabs /\ {fees, credited, faults} \subseteq Nat
  /\ loop \in T!Coroutines \cup {None}
  /\ \A h \in T!Tasks : stage[h] \in {"claimed", "paid"} => loop = h

(* "Claim the request before invoking settlement, preventing double        *)
(* approval": a request moves money at most once; one that may still be    *)
(* paid has moved none, and a paid one has, whatever clicks, reminders,    *)
(* errors and restarts meet on it.  Only a restart or an unlisted error    *)
(* leaves a request processing with nobody at work on it.                  *)
TabPaidOnce ==
  \A r \in Tabs :
    /\ moved[r] <= 1
    /\ tab[r] \in {"none", "pending"} => moved[r] = 0
    /\ tab[r] = "paid" => moved[r] = 1
    /\ crashes = 0 /\ faults = 0 /\ tab[r] = "processing" =>
         \E h \in Pays : work[h].tab = r /\ stage[h] \in {"claimed", "paid"}

(* Balances, redemptions that are open or paid, and fees add up to what    *)
(* there was and what an admin has credited, as long as no balance changes *)
(* under a call that holds a copy of it.                                   *)
Total(f) == SumFunctionOnSet(f, Users)

LedgerAddsUp ==
  /\ SharedTypeOK
  /\ \/ overtaken
     \/ Total(balance) + Sum({r \in Requests : status[r] \in Open \cup {"paid"}}) + fees
          = Total(Opening) + credited

(* The calls that have begun all end, whatever rows other calls have       *)
(* locked, unless the event loop has blocked itself.                       *)
AtRest ==
  /\ \A c \in Calls : pc[c] \in {"idle", "done", "dead"}
  /\ \A h \in T!Tasks : stage[h] \in {"idle", "done"}
EveryCallEnds == []<>(AtRest \/ LoopBlocksItself)

----------------------------------------------------------------------------
(* A property that the composition refutes *)

(* The event loop never waits for itself.  It does: a refused request      *)
(* keeps the user's row locked until the event loop closes its session; a  *)
(* coroutine that commits a balance of that user in between waits for the  *)
(* lock on the event loop's own thread, and the process answers nothing    *)
(* any more.                                                               *)
LoopRunsOn == ~ LoopBlocksItself
=============================================================================
