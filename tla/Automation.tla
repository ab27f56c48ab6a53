----------------------------- MODULE Automation -----------------------------
(***************************************************************************)
(* Price alerts and user webhooks (services/automation_runner.py,          *)
(* services/webhook_delivery.py, routers/webhooks.py, automation.py, the   *)
(* loop in main.py), of one user.                                          *)
(*                                                                         *)
(* Alerts and subscriptions are audit rows whose JSON details are read     *)
(* whole and written back whole.  Everything is a coroutine: an action     *)
(* runs to the next await, or to a commit, where the process may stop.     *)
(* A pass writes back the rows as it loaded them.                          *)
(*                                                                         *)
(* Signatures, times and error texts are left out, and an address that is  *)
(* not public counts as a post that fails.  Recurring transfers, goals and *)
(* DCA plans are rows that nothing reads.                                  *)
(***************************************************************************)
EXTENDS Integers, FiniteSets, FiniteSetsExt

CONSTANTS
  Subs,        \* subscriptions, numbered in the order they are posted to
  Wants,       \* the events of each
  Cap,         \* the most a user may have
  Alerts,      \* price alerts, numbered in the order they are checked
  AtStart,     \* those whose threshold the price is beyond at first
  loop,        \* the scheduler
  Requests,    \* POST /batch/transfers, POST /subscriptions/{id}/test
  MaxMoves,    \* bound on price moves
  MaxRestarts  \* bound on restarts

Senders == {loop} \cup Requests
Events  == {"alert", "batch", "test"}

ASSUME OrderAssumption == Subs \subseteq Nat \ {0} /\ Alerts \subseteq Nat \ {0}
ASSUME WantsAssumption == Wants \in [Subs -> SUBSET Events]
ASSUME AlertsAssumption == AtStart \subseteq Alerts
ASSUME LoopAssumption == loop \notin Requests
ASSUME BoundsAssumption == Cap \in Nat /\ MaxMoves \in Nat /\ MaxRestarts \in Nat

VARIABLES
  sub,      \* the subscriptions' rows
  alert,    \* the alerts' rows: condition_met, or "none" without a row
  beyond,   \* alerts whose threshold the price has crossed
  fired,    \* price_alert_triggered rows of each alert
  step,     \* a sender's next step
  session,  \* what a sender has loaded, changed and still to do
  posts,    \* history: posts begun to each subscription
  rises,    \* history: crossings of each alert's threshold
  quiet,    \* history: subscriptions ended while no sender had them loaded
  moves, restarts

tables  == <<sub, alert, fired>>
senders == <<step, session>>
history == <<posts, rises, quiet>>
automationVars == <<tables, beyond, senders, history, moves, restarts>>

NoSub     == [there |-> FALSE, active |-> FALSE, ok |-> 0, failed |-> 0]
NoSession == [subs |-> [s \in Subs |-> NoSub], event |-> "none", todo |-> {}, at |-> 0,
              alerts |-> [a \in Alerts |-> "none"], prices |-> {}, cur |-> 0]

AutomationInit ==
  /\ sub = [s \in Subs |-> NoSub]
  /\ alert = [a \in Alerts |-> "none"]
  /\ beyond = AtStart
  /\ fired = [a \in Alerts |-> 0]
  /\ step = [p \in Senders |-> "idle"]
  /\ session = [p \in Senders |-> NoSession]
  /\ posts = [s \in Subs |-> 0]
  /\ rises = [a \in Alerts |-> 0]
  /\ quiet = {}
  /\ moves = 0 /\ restarts = 0

----------------------------------------------------------------------------
(* Requests that change a row of their own *)

Loaded(s) == \E p \in Senders : session[p].subs[s].there

(* subscribe_webhook: ended subscriptions count too. *)
Subscribe(s, active) ==
  /\ ~ sub[s].there
  /\ Cardinality({r \in Subs : sub[r].there}) < Cap
  /\ sub' = [sub EXCEPT ![s] = [NoSub EXCEPT !.there = TRUE, !.active = active]]
  /\ quiet' = IF active THEN quiet ELSE quiet \cup {s}
  /\ UNCHANGED <<alert, fired, beyond, senders, posts, rises, moves, restarts>>

Unsubscribe(s) ==
  /\ sub[s].active
  /\ sub' = [sub EXCEPT ![s].active = FALSE]
  /\ quiet' = IF Loaded(s) THEN quiet ELSE quiet \cup {s}
  /\ UNCHANGED <<alert, fired, beyond, senders, posts, rises, moves, restarts>>

(* create_price_alert; its first check triggers when the price is there. *)
CreateAlert(a) ==
  /\ alert[a] = "none"
  /\ alert' = [alert EXCEPT ![a] = "no"]
  /\ rises' = [rises EXCEPT ![a] = @ + (IF a \in beyond THEN 1 ELSE 0)]
  /\ UNCHANGED <<sub, fired, beyond, senders, posts, quiet, moves, restarts>>

PriceMoves(a) ==
  /\ moves < MaxMoves /\ moves' = moves + 1
  /\ beyond' = IF a \in beyond THEN beyond \ {a} ELSE beyond \cup {a}
  /\ rises' = [rises EXCEPT ![a] = @ + (IF a \in beyond THEN 0 ELSE 1)]
  /\ UNCHANGED <<tables, senders, posts, quiet, restarts>>

----------------------------------------------------------------------------
(* dispatch_user_event *)

(* Mutant: an ended subscription is posted to as well. *)
Wanted(x, s) == x.subs[s].there /\ x.event \in Wants[s]

(* The subscription, as the session has it, is active and has the event. *)
Posted(x, s) == x.subs[s].active /\ x.event \in Wants[s]

(* The rows of session x go to the table: those posted to, and the alerts  *)
(* checked before the current one, whose audit row goes with them.         *)
Flush(x) ==
  /\ sub' = [s \in Subs |-> IF Posted(x, s) THEN x.subs[s] ELSE sub[s]]
  /\ alert' = [a \in Alerts |-> IF a < x.cur /\ x.alerts[a] # "none" THEN x.alerts[a] ELSE alert[a]]
  /\ fired' = [a \in Alerts |-> fired[a] + (IF a = x.cur THEN 1 ELSE 0)]

(* On to the next subscription, or to the commit that ends the dispatch *)
Proceed(p, x) ==
  LET open == {s \in x.todo : Posted(x, s)}
  IN  IF open # {}
      THEN /\ step' = [step EXCEPT ![p] = "post"]
           /\ session' = [session EXCEPT ![p] =
                            [x EXCEPT !.at = Min(open), !.todo = {s \in x.todo : s > Min(open)}]]
           /\ posts' = [posts EXCEPT ![Min(open)] = @ + 1]
           /\ UNCHANGED tables
      ELSE /\ Flush(x)
           /\ step' = [step EXCEPT ![p] = IF p = loop THEN "walk" ELSE "done"]
           /\ session' = [session EXCEPT ![p] = 
                IF p = loop THEN [NoSession EXCEPT !.alerts = x.alerts, !.prices = x.prices,
                                                   !.cur = x.cur]
                            ELSE NoSession]
           /\ UNCHANGED posts

(* The user's subscriptions are queried, all at once. *)
Dispatch(p, x, event) == Proceed(p, [x EXCEPT !.subs = sub, !.event = event, !.todo = Subs])

(* The user asks for the test event on one of the subscriptions; all that  *)
(* have the event get it.                                                  *)
Test(q) ==
  /\ step[q] = "idle"
  /\ \E s \in Subs : sub[s].active /\ "test" \in Wants[s]
  /\ Dispatch(q, NoSession, "test")
  /\ UNCHANGED <<beyond, rises, quiet, moves, restarts>>

(* A batch is queued, with an audit row, and announced. *)
Batch(q) ==
  /\ step[q] = "idle"
  /\ Dispatch(q, NoSession, "batch")
  /\ UNCHANGED <<beyond, rises, quiet, moves, restarts>>

Counted(x, ok) == IF ok THEN [x EXCEPT !.subs[x.at].ok = @ + 1]
                        ELSE [x EXCEPT !.subs[x.at].failed = @ + 1]

Answer(p, ok) ==
  /\ step[p] = "post"
  /\ Proceed(p, Counted(session[p], ok))
  /\ UNCHANGED <<beyond, rises, quiet, moves, restarts>>

----------------------------------------------------------------------------
(* run_price_alert_checks *)

LoadAlerts ==
  /\ step[loop] = "idle"
  /\ step' = [step EXCEPT ![loop] = "prices"]
  /\ session' = [session EXCEPT ![loop] = [NoSession EXCEPT !.alerts = alert]]
  /\ UNCHANGED <<tables, beyond, history, moves, restarts>>

Rest == /\ step' = [step EXCEPT ![loop] = "idle"]
        /\ session' = [session EXCEPT ![loop] = NoSession]

PricesUnavailable ==
  /\ step[loop] = "prices"
  /\ Rest
  /\ UNCHANGED <<tables, beyond, history, moves, restarts>>

(* Mutant: only one token is priced. *)
PricedFirst == beyond \cap {Min(Alerts)}

(* The alerts whose token has its price beyond the threshold now *)
Priced == beyond

Prices ==
  /\ step[loop] = "prices"
  /\ step' = [step EXCEPT ![loop] = "walk"]
  /\ session' = [session EXCEPT ![loop].prices = Priced]
  /\ UNCHANGED <<tables, beyond, history, moves, restarts>>

(* What a check makes of condition_met *)
Checked(x, a) == IF a \in x.prices THEN "met" ELSE "no"

(* Mutant: a condition that is met triggers on every check. *)
Met(x) == {a \in Alerts : x.alerts[a] # "none" /\ a \in x.prices}

(* "Trigger only on a false-to-true threshold crossing" *)
Crossing(x) == {a \in Alerts : x.alerts[a] = "no" /\ a \in x.prices}

(* The alerts up to the next one to trigger get their new state; that one  *)
(* does after its dispatch.                                                *)
Walk ==
  LET x    == session[loop]
      next == {a \in Crossing(x) : a > x.cur}
      upto == {a \in Alerts : next = {} \/ a < Min(next)}
      y    == [x EXCEPT !.alerts = [a \in Alerts |->
                 IF x.alerts[a] # "none" /\ a \in upto THEN Checked(x, a) ELSE x.alerts[a]]]
  IN  /\ step[loop] = "walk"
      /\ IF next = {}
         THEN /\ alert' = [a \in Alerts |-> IF y.alerts[a] # "none" THEN y.alerts[a] ELSE alert[a]]
              /\ Rest
              /\ UNCHANGED <<sub, fired, posts>>
         ELSE Dispatch(loop, [y EXCEPT !.cur = Min(next)], "alert")
      /\ UNCHANGED <<beyond, rises, quiet, moves, restarts>>

----------------------------------------------------------------------------

Restart ==
  /\ restarts < MaxRestarts /\ restarts' = restarts + 1
  /\ step' = [p \in Senders |-> IF p = loop \/ step[p] = "idle" THEN "idle" ELSE "done"]
  /\ session' = [p \in Senders |-> NoSession]
  /\ UNCHANGED <<tables, beyond, history, moves>>

LoopStep == LoadAlerts \/ PricesUnavailable \/ Prices \/ Walk \/ Answer(loop, TRUE) \/ Answer(loop, FALSE)

AutomationNext ==
  \/ \E s \in Subs : Subscribe(s, TRUE) \/ Subscribe(s, FALSE) \/ Unsubscribe(s)
  \/ \E a \in Alerts : CreateAlert(a) \/ PriceMoves(a)
  \/ \E q \in Requests : Test(q) \/ Batch(q) \/ Answer(q, TRUE) \/ Answer(q, FALSE)
  \/ LoopStep \/ Restart

AutomationSpec == AutomationInit /\ [][AutomationNext]_automationVars

(* The loop wakes up every five minutes, its awaits have time limits, and  *)
(* prices are not unavailable for ever.                                    *)
AutomationFairSpec == AutomationSpec /\ WF_automationVars(LoopStep) /\ SF_automationVars(Prices)

----------------------------------------------------------------------------
(* Properties *)

(* Every variable holds what its column or local variable may hold. *)
AutomationTypeOK ==
  LET Row == [there : BOOLEAN, active : BOOLEAN, ok : Nat, failed : Nat] IN
  /\ sub \in [Subs -> Row] /\ \A s \in Subs : sub[s].active => sub[s].there
  /\ alert \in [Alerts -> {"none", "no", "met"}] /\ beyond \subseteq Alerts
  /\ fired \in [Alerts -> Nat] /\ posts \in [Subs -> Nat] /\ rises \in [Alerts -> Nat]
  /\ step \in [Senders -> {"idle", "prices", "walk", "post", "done"}]
  /\ \A p \in Senders : /\ session[p].subs \in [Subs -> Row]
                        /\ session[p].alerts \in [Alerts -> {"none", "no", "met"}]
                        /\ session[p].event \in Events \cup {"none"}
                        /\ step[p] = "post" => session[p].at \in Subs
  /\ quiet \subseteq Subs /\ moves \in Nat /\ restarts \in Nat

(* A threshold that is crossed triggers once: again only after the price   *)
(* has come back, or after a restart between the commit that records the   *)
(* trigger and the one that records condition_met.                         *)
(* Rows are written back whole by several senders: deliveries may go       *)
(* uncounted, but none is counted that was not tried.                      *)
OneTriggerPerCrossing ==
  /\ AutomationTypeOK
  /\ \A a \in Alerts : fired[a] <= rises[a] + restarts
  /\ \A s \in Subs : sub[s].ok + sub[s].failed <= posts[s]

(* A subscription that ended while no sender had it loaded stays ended:    *)
(* nothing is posted to it.                                                *)
QuietStaysQuiet ==
  \A s \in quiet : ~ sub[s].active /\ \A p \in Senders : step[p] = "post" => session[p].at # s

(* Every alert whose price has crossed its threshold is marked as met by   *)
(* some check, unless the price comes back.                                *)
AlertsAreChecked ==
  \A a \in Alerts : alert[a] # "none" /\ a \in beyond ~> alert[a] = "met" \/ a \notin beyond

(* An unsubscribe stands: refuted, since a dispatch that loaded the row    *)
(* before writes it back as active.                                        *)
UnsubscribeStands == [][\A s \in Subs : sub[s].there /\ sub'[s].active => sub[s].active]_automationVars
=============================================================================
