----------------------------- MODULE ClosedLoop -----------------------------
(***************************************************************************)
(* The closed-loop card and merchant checkout (routers/closed_loop.py).    *)
(*                                                                         *)
(* The handlers run in a thread pool, each in a transaction of its own     *)
(* (READ COMMITTED).  A handler locks rows one after the other, so the     *)
(* order in which it does is part of the state: call h holds the first     *)
(* taken[h] of Rows(h).  A row that it loads for the first time under its  *)
(* lock is read as it is; a row it has loaded before is seen as it was.    *)
(*                                                                         *)
(* What a handler reads before its first lock it reads in one step.  A     *)
(* wallet is locked only under its user's lock and is not listed.  A       *)
(* behaviour spans less than the 24 hours of the card's limit.  The fees    *)
(* that _settle books, two cents for each charge, are left out.            *)
(***************************************************************************)
EXTENDS Integers, Sequences, FiniteSets, Functions

CONSTANTS
  Users,        \* members, numbered in the order of their primary keys
  Checkouts, Seller, Price, \* Seller[c] owns the merchant account of c
  Taps, Challenges, Passes, \* tap tokens, NFC challenges and links to a phone-wallet pass
  Devices,      \* NFC device keys
  Calls,        \* requests that take more than one step
  Controls,     \* what a member may set: [status, single, daily]
  Merchants0, Cards0, Devices0, Balances0, \* the rows there are at the start
  NFC_MAX_ACTIVE_DEVICES,
  None,
  MaxEvents     \* bound on changes of controls, revoked devices, links and expiries

Grants   == Taps \cup Challenges \cup Passes

USER_FEE_CENTS     == 1
MERCHANT_FEE_CENTS == 1

ASSUME UsersAssumption == Users \subseteq Nat /\ None \notin Users
ASSUME CheckoutsAssumption == /\ Seller \in [Checkouts -> Users]
                              /\ Price \in [Checkouts -> Nat \ {0, 1}]
                              /\ None \notin Checkouts
ASSUME GrantsAssumption == /\ Taps \cap Challenges = {} /\ Passes \cap (Taps \cup Challenges) = {}
                           /\ None \notin Grants
ASSUME DevicesAssumption == None \notin Devices /\ Devices0 \in [Devices -> Users \cup {None}]
ASSUME ControlsAssumption ==
  \A k \in Controls : /\ k.status \in {"active", "frozen"}
                      /\ k.single \in Nat /\ k.daily \in Nat /\ k.single <= k.daily
ASSUME BoundsAssumption == {MaxEvents, NFC_MAX_ACTIVE_DEVICES} \subseteq Nat
ASSUME FiniteAssumption == IsFiniteSet(Checkouts) /\ IsFiniteSet(Devices) /\ IsFiniteSet(Calls)

NoCard == [status |-> "none", single |-> 0, daily |-> 0]
Cards  == Controls \cup {NoCard}

ASSUME StartAssumption ==
  /\ Balances0 \in [Users -> Nat]
  /\ Merchants0 \in [Users -> {"none", "pending_review", "active"}]
  /\ Cards0 \in [Users -> Cards]
  /\ \A u \in Users : Cardinality({d \in Devices : Devices0[d] = u}) <= NFC_MAX_ACTIVE_DEVICES

VARIABLES
  merchant,  \* MerchantAccount.status of each user's account
  card,      \* ClosedLoopCard of each user
  holder,    \* who has registered a device key, None before
  revoked,   \* devices whose status is revoked
  status,    \* ClosedLoopCheckout.status, "none" before it is created
  payer,     \* ClosedLoopCheckout.payer_user_id
  late,      \* checkouts whose expires_at has passed
  bound,     \* the checkout a grant was created for, None before
  bearer,    \* the member a tap token was created by
  links,     \* the links to a pass that were created
  used,      \* grants with used_at
  balance,   \* User.usdc_balance_cents
  pc,        \* "idle", "running" or "done" for each call
  call,      \* the arguments of each call and the rows it has loaded
  taken,     \* how many of its rows a call has locked
  charges,   \* history: how often each user was charged for each checkout
  spentBy,   \* history: how many settlements or downloads a grant has authorised
  events

accounts == <<merchant, card>>
devices  == <<holder, revoked>>
sales    == <<status, payer>>
grants   == <<bound, bearer, links, used>>
threads  == <<pc, call, taken>>
history  == <<charges, spentBy>>
vars == <<accounts, devices, sales, late, grants, balance, threads, history, events>>

NoCall == [kind |-> "none",
           checkout |-> None, payer |-> None, grant |-> None, device |-> None,
           balance |-> 0, status |-> "none", card |-> NoCard]

Kind(h)    == call[h].kind
IsPayment(h) == Kind(h) \in {"pay", "tap", "nfc"}

Total(c) == Price[c] + USER_FEE_CENTS
Net(c)   == Price[c] - MERCHANT_FEE_CENTS

Init ==
  /\ merchant = Merchants0 /\ card = Cards0
  /\ holder = Devices0 /\ revoked = {}
  /\ status = [c \in Checkouts |-> "none"]
  /\ payer = [c \in Checkouts |-> None]
  /\ late = {}
  /\ bound = [g \in Grants |-> None] /\ bearer = [g \in Taps |-> None] /\ links = {} /\ used = {}
  /\ balance = Balances0
  /\ pc = [h \in Calls |-> "idle"]
  /\ call = [h \in Calls |-> NoCall]
  /\ taken = [h \in Calls |-> 0]
  /\ charges = [c \in Checkouts |-> [u \in Users |-> 0]]
  /\ spentBy = [g \in Grants |-> 0]
  /\ events = 0

----------------------------------------------------------------------------
(* Row locks *)

(* Mutant: the payer's row is locked before the merchant's. *)
PayerFirst(c, p) ==
  <<<<"checkout", c>>, <<"merchant", Seller[c]>>, <<"card", p>>, <<"user", p>>, <<"user", Seller[c]>>>>

(* The rows _settle locks: users in the order of their keys *)
SettlementRows(c, p) ==
  LET s == Seller[c] IN
  <<<<"checkout", c>>, <<"merchant", s>>, <<"card", p>>>>
  \o (IF p < s THEN <<<<"user", p>>, <<"user", s>>>> ELSE <<<<"user", s>>, <<"user", p>>>>)

(* All the rows a call locks, in order *)
Rows(h) ==
  LET k == call[h] IN
  CASE Kind(h) = "pay" -> SettlementRows(k.checkout, k.payer)
    [] Kind(h) = "tap" -> <<<<"grant", k.grant>>>> \o SettlementRows(k.checkout, k.payer)
    [] Kind(h) = "nfc" -> <<<<"grant", k.grant>>, <<"device", k.device>>>>
                          \o SettlementRows(k.checkout, k.payer)
    [] Kind(h) = "register" -> <<<<"card", k.payer>>>>
                               \o (IF holder[k.device] = None THEN <<>>
                                   ELSE <<<<"device", k.device>>>>)
    [] Kind(h) = "view" -> <<<<"checkout", k.checkout>>>>
    [] Kind(h) = "download" -> <<<<"grant", k.grant>>>>
    [] OTHER -> <<>>

Held(h)   == {Rows(h)[i] : i \in 1 .. taken[h]}
Wants(h)  == pc[h] = "running" /\ taken[h] < Len(Rows(h))
Wanted(h) == Rows(h)[taken[h] + 1]
Unlocked(r) == \A h \in Calls : r \notin Held(h)

(* Mutant: the card is read without FOR UPDATE. *)
FreeCard(h) == Wanted(h)[1] = "card" \/ Unlocked(Wanted(h))

(* The next lock can be had. *)
Free(h) == Unlocked(Wanted(h))

AllLocked(h) == pc[h] = "running" /\ ~ Wants(h)

(* The transaction ends by a commit. *)
Done(h) ==
  /\ pc' = [pc EXCEPT ![h] = "done"]
  /\ call' = [call EXCEPT ![h] = NoCall]
  /\ taken' = [taken EXCEPT ![h] = 0]

(* Mutant: after an error the session is not closed. *)
LeaveOpen(h) == pc' = [pc EXCEPT ![h] = "done"] /\ UNCHANGED <<call, taken>>

(* An error: the session is closed, which rolls its changes back. *)
RollBack(h) == Done(h)

Begin(h, k) ==
  /\ pc[h] = "idle"
  /\ pc' = [pc EXCEPT ![h] = "running"]
  /\ call' = [call EXCEPT ![h] = k]
  /\ UNCHANGED <<taken, accounts, devices, sales, late, grants, balance, history, events>>

----------------------------------------------------------------------------
(* Requests that need no more than one step *)

CreateMerchant(u) ==
  /\ merchant[u] = "none"
  /\ merchant' = [merchant EXCEPT ![u] = "pending_review"]
  /\ UNCHANGED <<card, devices, sales, late, grants, balance, threads, history, events>>

(* By an admin, or after the merchant's KYB was verified *)
ApproveMerchant(u) ==
  /\ merchant[u] = "pending_review" /\ Unlocked(<<"merchant", u>>)
  /\ merchant' = [merchant EXCEPT ![u] = "active"]
  /\ UNCHANGED <<card, devices, sales, late, grants, balance, threads, history, events>>

IssueCard(u, k) ==
  /\ card[u] = NoCard
  /\ k.status = "active" /\ card' = [card EXCEPT ![u] = k]
  /\ UNCHANGED <<merchant, devices, sales, late, grants, balance, threads, history, events>>

UpdateControls(u, k) ==
  /\ events < MaxEvents /\ events' = events + 1
  /\ card[u] \notin {NoCard, k} /\ Unlocked(<<"card", u>>)
  /\ card' = [card EXCEPT ![u] = k]
  /\ UNCHANGED <<merchant, devices, sales, late, grants, balance, threads, history>>

RevokeDevice(d) ==
  /\ events < MaxEvents /\ events' = events + 1
  /\ holder[d] # None /\ d \notin revoked /\ Unlocked(<<"device", d>>)
  /\ revoked' = revoked \cup {d}
  /\ UNCHANGED <<accounts, holder, sales, late, grants, balance, threads, history>>

(* A repeated Idempotency-Key finds the checkout there is. *)
CreateCheckout(c) ==
  /\ merchant[Seller[c]] = "active"
  /\ status[c] = "none" /\ status' = [status EXCEPT ![c] = "open"]
  /\ UNCHANGED <<accounts, devices, payer, late, grants, balance, threads, history, events>>

Expire(c) ==
  /\ events < MaxEvents /\ events' = events + 1
  /\ status[c] # "none" /\ c \notin late
  /\ late' = late \cup {c}
  /\ UNCHANGED <<accounts, devices, sales, grants, balance, threads, history>>

OpenNow(c) == status[c] = "open" /\ c \notin late

CreateTapToken(g, u, c) ==
  /\ bound[g] = None
  /\ card[u].status = "active" /\ OpenNow(c) /\ Seller[c] # u
  /\ bound' = [bound EXCEPT ![g] = c] /\ bearer' = [bearer EXCEPT ![g] = u]
  /\ UNCHANGED <<accounts, devices, sales, late, links, used, balance, threads, history, events>>

CreateChallenge(g, c) ==
  /\ bound[g] = None
  /\ OpenNow(c) /\ Unlocked(<<"checkout", c>>)
  /\ bound' = [bound EXCEPT ![g] = c]
  /\ UNCHANGED <<accounts, devices, sales, late, bearer, links, used, balance, threads, history, events>>

(* A link to the member's Apple Wallet pass *)
CreatePass(g, u) ==
  /\ events < MaxEvents /\ events' = events + 1
  /\ g \notin links /\ card[u] # NoCard
  /\ links' = links \cup {g}
  /\ UNCHANGED <<accounts, devices, sales, late, bound, bearer, used, balance, threads, history>>

----------------------------------------------------------------------------
(* The start of a call: what it loads before it locks anything *)

(* authorize_checkout loads the payer and the payer's card. *)
BeginPay(h, u, c) ==
  /\ card[u] # NoCard /\ status[c] # "none"
  /\ Begin(h, [NoCall EXCEPT !.kind = "pay", !.checkout = c, !.payer = u,
                                    !.balance = balance[u], !.card = card[u]])

(* accept_tap loads the merchant's owner and the checkout. *)
BeginTap(h, g) ==
  /\ bound[g] # None
  /\ LET c == bound[g] IN
     Begin(h, [NoCall EXCEPT !.kind = "tap", !.checkout = c, !.payer = bearer[g], !.grant = g,
                                    !.balance = balance[Seller[c]], !.status = status[c]])

(* authorize_nfc_checkout does, too, and has to find the checkout open. *)
BeginNfc(h, g, d) ==
  /\ bound[g] # None /\ OpenNow(bound[g])
  /\ holder[d] # None
  /\ LET c == bound[g] IN
     Begin(h, [NoCall EXCEPT !.kind = "nfc", !.checkout = c, !.payer = holder[d], !.grant = g, !.device = d,
                                    !.balance = balance[Seller[c]], !.status = status[c]])

BeginRegister(h, u, d) ==
  Begin(h, [NoCall EXCEPT !.kind = "register", !.payer = u, !.device = d])

BeginDownload(h, g) ==
  /\ g \in links
  /\ Begin(h, [NoCall EXCEPT !.kind = "download", !.grant = g])

(* get_checkout has loaded an open checkout whose time is up. *)
BeginView(h, c) ==
  /\ status[c] = "open" /\ c \in late
  /\ Begin(h, [NoCall EXCEPT !.kind = "view", !.checkout = c])

----------------------------------------------------------------------------
(* The steps of a call *)

(* What a call knows of rows it may have loaded before it locked them *)
StatusSeen(h) == IF Kind(h) = "pay" THEN status[call[h].checkout] ELSE call[h].status
CardSeen(h)   == IF Kind(h) \in {"pay", "nfc"} THEN call[h].card ELSE card[call[h].payer]

Spent(u) ==
  SumFunctionOnSet([c \in Checkouts |-> Total(c)],
                   {c \in Checkouts : status[c] = "completed" /\ payer[c] = u})

(* Mutant: only the status tells whether a checkout is open. *)
NeverTimeUp(h) == FALSE

TimeUp(h) == call[h].checkout \in late

Payable(h) ==
  /\ merchant[Seller[call[h].checkout]] = "active"
  /\ StatusSeen(h) = "open"

(* The limits of the card, and the rolling sum as the database has it *)
WithinLimits(h) ==
  LET k == call[h] IN
  /\ CardSeen(h).status = "active"
  /\ Price[k.checkout] <= CardSeen(h).single
  /\ Spent(k.payer) + Total(k.checkout) <= CardSeen(h).daily

(* Mutant: a used tap token or challenge is good again. *)
AdmitsUsed(h, r) ==
  IF Kind(h) = "register" THEN r[1] = "card" => card[r[2]].status = "active"
  ELSE CASE r[1] = "device"   -> card[call[h].payer].status = "active" /\ r[2] \notin revoked
         [] r[1] = "merchant" -> Payable(h) /\ ~ TimeUp(h) /\ Seller[call[h].checkout] # call[h].payer
         [] r[1] = "card"     -> WithinLimits(h)
         [] OTHER             -> TRUE

(* The checks that follow the lock on row r *)
Admits(h, r) ==
  IF Kind(h) = "register" THEN r[1] = "card" => card[r[2]].status = "active"
  ELSE CASE r[1] = "grant"    -> r[2] \notin used
         [] r[1] = "device"   -> card[call[h].payer].status = "active" /\ r[2] \notin revoked
         [] r[1] = "merchant" -> Payable(h) /\ ~ TimeUp(h) /\ Seller[call[h].checkout] # call[h].payer
         [] r[1] = "card"     -> WithinLimits(h)
         [] OTHER             -> TRUE

(* A call gets the lock it waits for; an NFC call then loads the card. *)
Take(h) ==
  /\ Wants(h) /\ Free(h) /\ Admits(h, Wanted(h))
  /\ taken' = [taken EXCEPT ![h] = @ + 1]
  /\ call' = IF Kind(h) = "nfc" /\ Wanted(h)[1] = "device"
             THEN [call EXCEPT ![h].card = card[call[h].payer]] ELSE call
  /\ UNCHANGED <<pc, accounts, devices, sales, late, grants, balance, history, events>>

(* _settle finds that the time of an open checkout is up, and commits that. *)
ExpireUnpaid(h) ==
  /\ Wants(h) /\ Free(h) /\ Wanted(h)[1] = "merchant"
  /\ Payable(h) /\ TimeUp(h)
  /\ status' = [status EXCEPT ![call[h].checkout] = "expired"]
  /\ used' = used \cup ({call[h].grant} \ {None})
  /\ Done(h)
  /\ UNCHANGED <<accounts, devices, payer, late, bound, bearer, links, balance, history, events>>

(* A check fails, or a grant is past its own time. *)
Refuse(h) ==
  /\ Wants(h) /\ Free(h)
  /\ ~ Admits(h, Wanted(h)) \/ Wanted(h)[1] = "grant"
  /\ ~ (Wanted(h)[1] = "merchant" /\ Payable(h) /\ TimeUp(h))
  /\ RollBack(h)
  /\ UNCHANGED <<accounts, devices, sales, late, grants, balance, history, events>>

(* The balances of the two parties as loaded *)
PayerBalance(h)  == IF Kind(h) = "pay" THEN call[h].balance ELSE balance[call[h].payer]
SellerBalance(h) == IF Kind(h) = "pay" THEN balance[Seller[call[h].checkout]] ELSE call[h].balance

Affords(h) == PayerBalance(h) >= Total(call[h].checkout)

(* The end of _settle: every row is locked, all is committed at once. *)
Settle(h) ==
  /\ IsPayment(h) /\ AllLocked(h)
  /\ LET k == call[h]
         s == Seller[k.checkout]
     IN  /\ Affords(h)
         /\ balance' = [balance EXCEPT ![k.payer] = PayerBalance(h) - Total(k.checkout),
                                       ![s] = SellerBalance(h) + Net(k.checkout)]
         /\ status' = [status EXCEPT ![k.checkout] = "completed"]
         /\ payer' = [payer EXCEPT ![k.checkout] = k.payer]
         /\ used' = used \cup ({k.grant} \ {None})
         /\ charges' = [charges EXCEPT ![k.checkout][k.payer] = @ + 1]
         /\ spentBy' = [g \in Grants |-> spentBy[g] + (IF g = k.grant THEN 1 ELSE 0)]
  /\ Done(h)
  /\ UNCHANGED <<accounts, devices, late, bound, bearer, links, events>>

MayAddDevice(u) ==
  Cardinality({d \in Devices : holder[d] = u /\ d \notin revoked}) < NFC_MAX_ACTIVE_DEVICES

(* A new device key; one that is known is only answered. *)
Register(h) ==
  /\ Kind(h) = "register" /\ AllLocked(h)
  /\ LET k == call[h] IN
     holder' = IF holder[k.device] = None /\ MayAddDevice(k.payer)
               THEN [holder EXCEPT ![k.device] = k.payer] ELSE holder
  /\ Done(h)
  /\ UNCHANGED <<accounts, revoked, sales, late, grants, balance, history, events>>

(* get_checkout writes what it made of the row it had loaded. *)
View(h) ==
  /\ Kind(h) = "view" /\ AllLocked(h)
  /\ status' = [status EXCEPT ![call[h].checkout] = "expired"]
  /\ Done(h)
  /\ UNCHANGED <<accounts, devices, payer, late, grants, balance, history, events>>

(* download_apple_wallet_pass: the pass is built, and its link is used up. *)
Download(h) ==
  /\ Kind(h) = "download" /\ AllLocked(h)
  /\ used' = used \cup {call[h].grant}
  /\ spentBy' = [spentBy EXCEPT ![call[h].grant] = @ + 1]
  /\ Done(h)
  /\ UNCHANGED <<accounts, devices, sales, late, bound, bearer, links, balance, charges, events>>

(* The payer's balance is too low, or the pass cannot be built. *)
Decline(h) ==
  /\ AllLocked(h)
  /\ (IsPayment(h) /\ ~ Affords(h)) \/ Kind(h) = "download"
  /\ RollBack(h)
  /\ UNCHANGED <<accounts, devices, sales, late, grants, balance, history, events>>

(* Each call in S waits for a lock that another one in S holds. *)
Deadlocked(S) == \A h \in S : Wants(h) /\ \E g \in S \ {h} : Wanted(h) \in Held(g)

(* The database finds a deadlock and makes one of its transactions fail. *)
Abort(h) ==
  /\ \E S \in SUBSET Calls : h \in S /\ Deadlocked(S)
  /\ RollBack(h)
  /\ UNCHANGED <<accounts, devices, sales, late, grants, balance, history, events>>

----------------------------------------------------------------------------

Step(h) ==
  Take(h) \/ ExpireUnpaid(h) \/ Refuse(h) \/ Settle(h) \/ Decline(h)
    \/ Register(h) \/ View(h) \/ Download(h)

Arrive(h) ==
  \/ \E u \in Users, c \in Checkouts : BeginPay(h, u, c)
  \/ \E g \in Taps : BeginTap(h, g)
  \/ \E g \in Challenges, d \in Devices : BeginNfc(h, g, d)
  \/ \E u \in Users, d \in Devices : BeginRegister(h, u, d)
  \/ \E c \in Checkouts : BeginView(h, c)
  \/ \E g \in Passes : BeginDownload(h, g)

Manage ==
  \/ \E u \in Users : CreateMerchant(u) \/ ApproveMerchant(u)
  \/ \E u \in Users, k \in Controls : IssueCard(u, k) \/ UpdateControls(u, k)
  \/ \E d \in Devices : RevokeDevice(d)
  \/ \E c \in Checkouts : CreateCheckout(c) \/ Expire(c)
  \/ \E c \in Checkouts, u \in Users, g \in Taps : CreateTapToken(g, u, c)
  \/ \E c \in Checkouts, g \in Challenges : CreateChallenge(g, c)
  \/ \E g \in Passes, u \in Users : CreatePass(g, u)

Next ==
  \/ \E h \in Calls : Arrive(h) \/ Step(h) \/ Abort(h)
  \/ Manage

Spec == Init /\ [][Next]_vars

----------------------------------------------------------------------------
(* Properties that hold *)

(* Every variable holds what its column or local variable may hold; no     *)
(* balance goes below zero.                                                *)
TypeOK ==
  /\ merchant \in [Users -> {"none", "pending_review", "active"}]
  /\ card \in [Users -> Cards]
  /\ holder \in [Devices -> Users \cup {None}] /\ revoked \subseteq Devices
  /\ status \in [Checkouts -> {"none", "open", "completed", "expired"}]
  /\ payer \in [Checkouts -> Users \cup {None}]
  /\ late \subseteq Checkouts
  /\ bound \in [Grants -> Checkouts \cup {None}] /\ bearer \in [Taps -> Users \cup {None}]
  /\ links \subseteq Passes /\ used \subseteq Grants
  /\ balance \in [Users -> Nat]
  /\ pc \in [Calls -> {"idle", "running", "done"}]
  /\ \A h \in Calls : Kind(h) \in {"none", "pay", "tap", "nfc", "register", "view", "download"}
  /\ taken \in [Calls -> Nat]
  /\ charges \in [Checkouts -> [Users -> Nat]] /\ spentBy \in [Grants -> Nat]
  /\ events \in Nat

(* A tap token, a challenge or a link to a pass is "single-use": it        *)
(* authorises at most one settlement or download, whatever calls present   *)
(* it at once.                                                             *)
GrantsAreSpentOnce == \A g \in Grants : spentBy[g] <= 1

(* Purchases that run at once do not exceed the card's daily limit: what   *)
(* the database counts for a payer is within the highest limit ever set.   *)
(* No card has more active devices than the cap.                           *)
LimitsHold ==
  /\ TypeOK
  /\ \A u \in Users :
       /\ Spent(u) = 0 \/ \E k \in Controls : Spent(u) <= k.daily
       /\ Cardinality({d \in Devices : holder[d] = u /\ d \notin revoked}) <= NFC_MAX_ACTIVE_DEVICES

(* A checkout that was seen expired is never charged, not even by a tap    *)
(* that loaded it while it was open.                                       *)
NoChargeAfterExpiry ==
  [][\A c \in Checkouts : status[c] = "expired" => charges'[c] = charges[c]]_vars

(* "Stable primary-key order": payments alone never deadlock, also when    *)
(* two merchants pay each other.                                           *)
NoPaymentDeadlock ==
  \A S \in (SUBSET {h \in Calls : IsPayment(h)}) \ {{}} : ~ Deadlocked(S)

(* While a request is under way, one of them can go on, or is part of a    *)
(* deadlock that the database ends: no lock outlives its request.  A       *)
(* request has as many steps as it has rows to lock, so all are answered.  *)
NoCallIsStuck ==
  LET Running == {h \in Calls : pc[h] = "running"}
  IN  Running # {} => \/ \E h \in Running : AllLocked(h) \/ Free(h)
                      \/ \E S \in (SUBSET Running) \ {{}} : Deadlocked(S)
=============================================================================
