------------------------------ MODULE Mailings ------------------------------
(***************************************************************************)
(* What the program mails: the Daily Brief (services/podcast.py, its loop  *)
(* in main.py, routers/podcast.py), the waitlist's welcome and the nurture *)
(* sequence (routers/waitlist.py, routers/email_automation.py).            *)
(*                                                                         *)
(* Passes of the brief are coroutines of one event loop: an action runs    *)
(* from one await to the next.  The waitlist's requests and campaigns run  *)
(* in threads, and a thread that mails waits for the provider.  A mail is  *)
(* accepted by the provider before the program hears of it, if it does.    *)
(*                                                                         *)
(* One day's episode, which the loop delivers while its day lasts; its     *)
(* sound is left out, and so are the attempts and error texts of a         *)
(* delivery.  Of the nurture sequence, one mail is due.                    *)
(***************************************************************************)
EXTENDS Integers, FiniteSets, FiniteSetsExt

CONSTANTS
  Recipients,  \* addresses, numbered in the order a pass visits them
  Accounts,    \* those with a User row
  loop,        \* the scheduler
  Manual,      \* requests to /podcast/internal
  Threads,     \* requests to /waitlist/join and /internal, numbered as they come
  Null,
  MaxFaults    \* bound on restarts and lost answers

Passes    == {loop} \cup Manual
Campaigns == {"welcome", "nurture"}

ASSUME RecipientsAssumption == Recipients \subseteq Nat /\ Accounts \subseteq Recipients
ASSUME CallsAssumption == /\ loop \notin Manual
                          /\ Threads \subseteq Nat
                          /\ Null \notin Recipients \cup Passes \cup Threads
ASSUME FaultsAssumption == MaxFaults \in Nat
ASSUME FiniteAssumption == IsFiniteSet(Manual) /\ IsFiniteSet(Threads)

VARIABLES
  episode,   \* there is a PodcastEpisode of the release day
  over,      \* that day is over: today_pacific is another one
  delivery,  \* PodcastDelivery.status of each recipient, "none" without a row
  waiting,   \* addresses with a WaitlistEntry
  optin,     \* those with marketing_opt_in
  logged,    \* EmailLog: who has been sent which campaign
  pc, pass,  \* a pass's next step, and its locals
  frozen,    \* the event loop's only thread waits for a lock one of its own coroutines holds
  tc, thread, \* the same of a thread
  briefs,    \* history: briefs the provider has accepted, by recipient
  mails,     \* history: the same of each campaign
  overlaps,  \* history: threads that started while another one was mailing
  faults

waitlist == <<waiting, optin>>
passes   == <<pc, pass, frozen>>
threads  == <<tc, thread>>
history  == <<briefs, mails, overlaps>>
mailingsVars == <<episode, over, delivery, waitlist, logged, passes, threads, history, faults>>

NoPass   == [todo |-> {}, at |-> Null, seen |-> "none", known |-> FALSE]
NoThread == [kind |-> "none", todo |-> {}, at |-> Null, done |-> {}, consent |-> {}]

MailingsInit ==
  /\ episode = FALSE /\ over = FALSE
  /\ delivery = [r \in Recipients |-> "none"]
  /\ waiting = {} /\ optin = {}
  /\ logged = [k \in Campaigns |-> {}]
  /\ pc = [p \in Passes |-> "idle"]
  /\ pass = [p \in Passes |-> NoPass]
  /\ frozen = FALSE
  /\ tc = [t \in Threads |-> "idle"]
  /\ thread = [t \in Threads |-> NoThread]
  /\ briefs = [r \in Recipients |-> 0]
  /\ mails = [k \in Campaigns |-> [r \in Recipients |-> 0]]
  /\ overlaps = 0 /\ faults = 0

Goto(p, stage) == pc' = [pc EXCEPT ![p] = stage]

(* The loop sleeps until its next pass; a request has been answered. *)
Rest(p) == /\ Goto(p, IF p = loop THEN "idle" ELSE "done")
           /\ pass' = [pass EXCEPT ![p] = NoPass]
           /\ UNCHANGED frozen

----------------------------------------------------------------------------
(* generate_episode *)

(* The episode of today is looked up, and one is written when there is     *)
(* none, or when an admin forces it.  Headlines, script: awaits.           *)
Generate(p, force) ==
  /\ ~ frozen /\ pc[p] = "idle" /\ ~ over
  /\ ~ episode \/ force
  /\ p = loop => ~ force
  /\ Goto(p, "script")
  /\ pass' = [pass EXCEPT ![p].known = episode]
  /\ UNCHANGED <<episode, over, delivery, waitlist, logged, frozen, threads, history, faults>>

(* Nothing to say, or another pass has written the episode meanwhile and   *)
(* the insert violates the unique date.                                    *)
GenerateFails(p) ==
  /\ ~ frozen /\ pc[p] = "script"
  /\ Rest(p)
  /\ UNCHANGED <<episode, over, delivery, waitlist, logged, threads, history, faults>>

Publish(p) ==
  /\ ~ frozen /\ pc[p] = "script"
  /\ episode => pass[p].known
  /\ episode' = TRUE
  /\ Goto(p, "voice")
  /\ UNCHANGED <<over, delivery, waitlist, logged, pass, frozen, threads, history, faults>>

----------------------------------------------------------------------------
(* send_episode_to_subscribers *)

(* Mutant: what was delivered is delivered again. *)
NeverDelivered(D, r) == FALSE

Delivered(D, r) == D[r] = "sent"

(* Other passes that have inserted r's row and not committed it yet *)
Inserting(p, r) ==
  {q \in Passes \ {p} : pc[q] \in {"post", "accepted"} /\ pass[q].at = r /\ pass[q].seen = "none"}

(* The next recipients are looked up, with status D as committed by then:  *)
(* delivered ones are skipped, the first other one gets its row and its    *)
(* mail.  An insert waits for another transaction's insert of that row,    *)
(* and with it waits the event loop.                                       *)
Continue(p, rest, D) ==
  LET open == {r \in rest : ~ Delivered(D, r)}
      r    == Min(open)
  IN  IF open = {} THEN Rest(p)
      ELSE /\ pass' = [pass EXCEPT ![p] = [todo |-> {q \in rest : q > r}, at |-> r,
                                           seen |-> D[r], known |-> FALSE]]
           /\ frozen' = (D[r] = "none" /\ Inserting(p, r) # {})
           /\ Goto(p, IF frozen' THEN "blocked" ELSE "post")

(* Everyone with an account and everyone on the waitlist *)
Subscribers == Accounts \cup waiting

(* The loop finds the episode of today there; deliver_latest_now takes the *)
(* newest one, of whatever day.                                            *)
Newest(p) == pc[p] = "idle" /\ episode /\ (p = loop => ~ over)

(* The loop sends after it has published, with sound or without, or when   *)
(* it finds the episode there; the other request sends the newest one.     *)
Send(p) ==
  /\ ~ frozen
  /\ \/ pc[p] = "voice" /\ p = loop
     \/ Newest(p)
  /\ Continue(p, Subscribers, delivery)
  /\ UNCHANGED <<episode, over, delivery, waitlist, logged, threads, history, faults>>

(* A forced or first generation by request ends with the sound. *)
Generated(p) ==
  /\ ~ frozen /\ pc[p] = "voice" /\ p # loop
  /\ Rest(p)
  /\ UNCHANGED <<episode, over, delivery, waitlist, logged, threads, history, faults>>

(* The provider takes the mail. *)
Accept(p) ==
  /\ pc[p] = "post"
  /\ Goto(p, "accepted")
  /\ briefs' = [briefs EXCEPT ![pass[p].at] = @ + 1]
  /\ UNCHANGED <<episode, over, delivery, waitlist, logged, pass, frozen, threads, mails, overlaps, faults>>

(* Mutant: the status is written whatever the row was loaded as. *)
WriteAlways(p, status) == [delivery EXCEPT ![pass[p].at] = status]

(* The commit: a column is only written when it differs from what was      *)
(* loaded, so a failure does not overwrite what another pass has sent.     *)
Written(p, status) ==
  IF pass[p].seen = status THEN delivery ELSE [delivery EXCEPT ![pass[p].at] = status]

Record(p, status) ==
  /\ ~ frozen
  /\ delivery' = Written(p, status)
  /\ Continue(p, pass[p].todo, delivery')
  /\ UNCHANGED <<episode, over, waitlist, logged, threads, history>>

(* The answer is 200 or 201. *)
Answered(p) == /\ pc[p] = "accepted"
               /\ Record(p, "sent")
               /\ UNCHANGED faults

(* Any other answer, or none, and the mail was not taken *)
Refused(p) == /\ pc[p] = "post"
              /\ Record(p, "failed")
              /\ UNCHANGED faults

(* The mail was taken, and the answer is lost or late. *)
AnswerLost(p) == /\ pc[p] = "accepted"
                 /\ faults < MaxFaults /\ faults' = faults + 1
                 /\ Record(p, "failed")

----------------------------------------------------------------------------
(* The waitlist, and the campaigns *)

(* The next request to come *)
Arrives(t) == tc[t] = "idle" /\ \A u \in Threads : u < t => tc[u] # "idle"

Mailing(t) == tc[t] \in {"post", "accepted"}
Overlap(t) == overlaps' = overlaps + (IF \E u \in Threads \ {t} : Mailing(u) THEN 1 ELSE 0)

(* The addresses the log, as committed by now, does not have yet *)
Unlogged(k, todo) == todo \ logged[k]

(* The thread goes on to its next address, or ends with a commit of what   *)
(* it has sent.                                                            *)
Proceed(t, k, todo, done, consent) ==
  LET open == Unlogged(k, todo)
  IN  IF open = {}
      THEN /\ logged' = [logged EXCEPT ![k] = @ \cup done]
           /\ tc' = [tc EXCEPT ![t] = "done"]
           /\ thread' = [thread EXCEPT ![t] = NoThread]
      ELSE /\ tc' = [tc EXCEPT ![t] = "post"]
           /\ thread' = [thread EXCEPT ![t] =
                [kind |-> k, todo |-> {r \in todo : r > Min(open)}, at |-> Min(open),
                 done |-> done, consent |-> consent]]
           /\ UNCHANGED logged

(* join_waitlist: a new entry, and with consent the welcome *)
Join(t, r, consent) ==
  /\ ~ frozen /\ Arrives(t) /\ r \notin waiting
  /\ waiting' = waiting \cup {r}
  /\ optin' = IF consent THEN optin \cup {r} ELSE optin
  /\ Overlap(t)
  /\ tc' = [tc EXCEPT ![t] = IF consent THEN "post" ELSE "done"]
  /\ thread' = [thread EXCEPT ![t] =
       IF consent THEN [kind |-> "welcome", todo |-> {}, at |-> r, done |-> {}, consent |-> {r}]
       ELSE NoThread]
  /\ UNCHANGED <<episode, over, delivery, logged, passes, briefs, mails, faults>>

(* ... of an address that is on the list and consents now *)
Consent(r) ==
  /\ ~ frozen /\ r \in waiting \ optin
  /\ optin' = optin \cup {r}
  /\ UNCHANGED <<episode, over, delivery, waiting, logged, passes, threads, history, faults>>

Unsubscribe(r) ==
  /\ ~ frozen /\ r \in optin
  /\ optin' = optin \ {r}
  /\ UNCHANGED <<episode, over, delivery, waiting, logged, passes, threads, history, faults>>

(* Mutant: everyone on the list is mailed. *)
Everyone == waiting

(* Whom a campaign mails, as read when it starts *)
Eligible == optin

(* process_nurture, resend_welcome_backfill *)
StartCampaign(t, k) ==
  /\ ~ frozen /\ Arrives(t)
  /\ Proceed(t, k, Eligible, {}, optin)
  /\ Overlap(t)
  /\ UNCHANGED <<episode, over, delivery, waitlist, passes, briefs, mails, faults>>

AcceptMail(t) ==
  /\ tc[t] = "post"
  /\ tc' = [tc EXCEPT ![t] = "accepted"]
  /\ mails' = [mails EXCEPT ![thread[t].kind][thread[t].at] = @ + 1]
  /\ UNCHANGED <<episode, over, delivery, waitlist, logged, passes, thread, briefs, overlaps, faults>>

(* Mutant: a mail is entered in the log whatever the answer. *)
DoneAnyway(t, ok) == thread[t].done \cup {thread[t].at}

(* A mail that was answered for is added to the session. *)
DoneAfter(t, ok) == thread[t].done \cup (IF ok THEN {thread[t].at} ELSE {})

MailEnds(t, ok) ==
  /\ Proceed(t, thread[t].kind, thread[t].todo, DoneAfter(t, ok), thread[t].consent)
  /\ UNCHANGED <<episode, over, delivery, waitlist, passes, history>>

MailAnswered(t) == tc[t] = "accepted" /\ MailEnds(t, TRUE) /\ UNCHANGED faults

MailRefused(t)  == tc[t] = "post" /\ MailEnds(t, FALSE) /\ UNCHANGED faults

MailAnswerLost(t) == /\ tc[t] = "accepted"
                     /\ faults < MaxFaults /\ faults' = faults + 1
                     /\ MailEnds(t, FALSE)

----------------------------------------------------------------------------

(* The process is restarted: what was not committed is gone. *)
Restart ==
  /\ faults < MaxFaults /\ faults' = faults + 1
  /\ pc' = [p \in Passes |-> IF p = loop \/ pc[p] = "idle" THEN "idle" ELSE "done"]
  /\ pass' = [p \in Passes |-> NoPass]
  /\ frozen' = FALSE
  /\ tc' = [t \in Threads |-> IF tc[t] = "idle" THEN "idle" ELSE "done"]
  /\ thread' = [t \in Threads |-> NoThread]
  /\ UNCHANGED <<episode, over, delivery, waitlist, logged, history>>

(* From now on the loop looks for another day's episode; a pass that has   *)
(* begun goes on with this one.                                            *)
DayEnds ==
  /\ ~ over /\ over' = TRUE
  /\ UNCHANGED <<episode, delivery, waitlist, logged, passes, threads, history, faults>>

PassStep(p) ==
  \/ Generate(p, FALSE) \/ Generate(p, TRUE) \/ GenerateFails(p) \/ Publish(p) \/ Generated(p)
  \/ Send(p) \/ Accept(p) \/ Answered(p) \/ Refused(p) \/ AnswerLost(p)

ThreadStep(t) ==
  \/ \E r \in Recipients, consent \in BOOLEAN : Join(t, r, consent)
  \/ \E k \in Campaigns : StartCampaign(t, k)
  \/ AcceptMail(t) \/ MailAnswered(t) \/ MailRefused(t) \/ MailAnswerLost(t)

MailingsNext ==
  \/ \E p \in Passes : PassStep(p)
  \/ \E t \in Threads : ThreadStep(t)
  \/ \E r \in Recipients : Consent(r) \/ Unsubscribe(r)
  \/ Restart \/ DayEnds

MailingsSpec == MailingsInit /\ [][MailingsNext]_mailingsVars

(* The loop wakes up again and again and each of its awaits ends: all have *)
(* time limits.  The mail provider does not refuse an account's address    *)
(* for ever.                                                               *)
Fairness ==
  /\ WF_mailingsVars(PassStep(loop))
  /\ \A r \in Accounts : SF_mailingsVars(pass[loop].at = r /\ Accept(loop))

FairSpec == MailingsSpec /\ Fairness

----------------------------------------------------------------------------
(* Properties *)

(* Every variable holds what its column or local variable may hold. *)
MailingsTypeOK ==
  /\ episode \in BOOLEAN /\ over \in BOOLEAN /\ frozen \in BOOLEAN
  /\ delivery \in [Recipients -> {"none", "sent", "failed"}]
  /\ optin \subseteq waiting /\ waiting \subseteq Recipients
  /\ logged \in [Campaigns -> SUBSET Recipients]
  /\ pc \in [Passes -> {"idle", "script", "voice", "post", "accepted", "blocked", "done"}]
  /\ pass \in [Passes -> [todo : SUBSET Recipients, at : Recipients \cup {Null},
                          seen : {"none", "failed"}, known : BOOLEAN]]
  /\ tc \in [Threads -> {"idle", "post", "accepted", "done"}]
  /\ \A t \in Threads : Mailing(t) => thread[t].kind \in Campaigns /\ thread[t].at \in Recipients
  /\ briefs \in [Recipients -> Nat] /\ mails \in [Campaigns -> [Recipients -> Nat]]
  /\ overlaps \in Nat /\ faults \in Nat

(* What the tables say was sent, the provider has accepted. *)
RecordsAreTrue ==
  /\ MailingsTypeOK
  /\ \A r \in Recipients : delivery[r] = "sent" => briefs[r] > 0
  /\ \A k \in Campaigns : \A r \in logged[k] : mails[k][r] > 0

(* "Retries never duplicate a successful send": a subscriber gets a second *)
(* brief only through a lost answer, a restart, or a request that delivers *)
(* beside the loop.                                                        *)
(* "Each (email, email_number) pair is only ever sent once": twice only    *)
(* through a lost answer, a restart, or two threads that mail at once.     *)
NothingIsMailedTwice ==
  \A r \in Recipients :
    /\ briefs[r] <= 1 + faults + Cardinality({m \in Manual : pc[m] # "idle"})
    /\ \A k \in Campaigns : mails[k][r] <= 1 + faults + overlaps

(* A campaign mails nobody who had no consent in force when it started,    *)
(* or, for the welcome, when the address joined.                           *)
MailFollowsConsent == \A t \in Threads : Mailing(t) => thread[t].at \in thread[t].consent

(* A pass that fails does not take back what another one has delivered.    *)
SentStaysSent == [][\A r \in Recipients : delivery[r] = "sent" => delivery'[r] = "sent"]_mailingsVars

(* "Retries any failed email deliveries hourly for the rest of that        *)
(* release day": once published, the brief reaches every account while the *)
(* day lasts, unless a request that delivers beside the loop has frozen    *)
(* the process; and what has been delivered stays so.                      *)
BriefArrives ==
  /\ \A r \in Accounts : episode ~> delivery[r] = "sent" \/ frozen \/ over
  /\ SentStaysSent
=============================================================================
