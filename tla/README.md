# A specification of the FAWN backend

FAWN is a custodial USDC wallet: a FastAPI application (`main.py`, `routers/`,
`services/`, `models*.py`) over one Postgres database, run as a single
`uvicorn` process, with two chains (Polygon and Base), Stripe, mail and
market-data services outside. This directory holds TLA+ modules that model the
parts of it whose state several requests, background loops or outside services
change, the TLC configurations that check them on small instances, and TLAPS
proofs of the properties that matter most.

Contents: 1. how the program runs; 2. inventory; 3. the modules; 4. the runs;
5. fairness; 6. the proofs; 7. what is only model-checked; 8. where the code
and its text disagree; 9. what is not modelled; 10. plan.

## 1. How the program runs

* `async def` handlers and the background loops started in `main.py` are
  coroutines on one event loop. They run without a break between two awaits.
  `def` handlers and `def` dependencies run in a thread pool, beside the event
  loop and each other.
* Each request has its own SQLAlchemy session (`database.py`): READ COMMITTED,
  `autoflush=False`, `expire_on_commit=False`. A row once loaded is never
  re-read in that session, not even by a query with `with_for_update()`, which
  takes the lock and returns the object already in the identity map. A commit
  writes the columns that changed, with values computed in Python.
* The process may be restarted at any point (a deploy). Committed rows stay;
  coroutines, threads and anything in memory do not.

These three facts are where most of the hazards in `PROJECT.json` come from:
state read before an await or a lock and written after it, and claims
committed before the work they stand for. They also fix the grain of the
models: an action is what a coroutine does between two awaits, or, for a
handler in the thread pool, what it does up to the next statement that waits
for a lock or that reads what another transaction may have changed.

## 2. Inventory

| part | state | operations | correct when | module |
|---|---|---|---|---|
| Custodial send (`services/crypto_wallet.py`, `services/onchain_send.py`) | ledger balances, pending fees, transfer rows | `send_usdc`, settlement on a chain | a completed row stands for money that moved; no balance below zero | `CustodialSend` |
| Review queue (`routers/admin_credit.py`) | status of held transfer rows | approve, reject | a claim is exclusive and ends in settlement or back in the queue | `CustodialSend`, abstractly `ReviewQueue` |
| Fee sweep (`crypto_wallet.collect_fees`) | `pending_fee_cents`, audit rows, `FeeCollection` | one run over all wallets | no cent of fee lost or counted twice | `CustodialSend` |
| Redemptions (`routers/redemptions.py`) | redemption rows, held amounts | request, cancel, approve, reject, mark paid, mark failed | an amount is held, refunded or consumed, once | `Redemptions` |
| Ledger transfers (`routers/crypto.py`, `routers/repayments.py`, `admin_credit.py`) | balances, FAWN Tab requests | send to a username, request, remind, pay, manual credit | a request is paid once; balances add up | `Transfers`, with redemptions in `SharedBalance` |
| Deposit monitor (`services/blockchain_monitor.py`) | deposit rows, checkpoint, baseline | scan by the loop, by sync-now; admin rewind, baseline, corrections | every transfer recorded once, none hidden | `DepositMonitor` |
| Closed-loop card (`routers/closed_loop.py`) | merchants, cards, checkouts, tap tokens, NFC devices, challenges, pass links | issue, control, tap, NFC, settle, register, revoke, download a pass | limits hold, grants are single-use, payments do not deadlock | `ClosedLoop` |
| Stripe webhook, Fawn Bucks (`routers/stripe_webhook.py`, `routers/bucks.py`) | event ids, funding payments, credits, ledger entries, members, payouts | one handler for all events | effects once per event, whatever the delivery; a checkout once per session | `StripeEvents` |
| Merchant onboarding (`routers/merchant_onboarding.py`) | KYB form, API keys, settlement preferences, audit log | save, submit, decide, auto-approve, keys, preferences, licence sweep | decisions are logged, live keys earned | `Onboarding` |
| Wallets and keys (`crypto_wallet.py`, `routers/admin.py`, `migrate_legacy_wallets.py`) | wallet rows, wrapped data keys, the treasury | create, reissue, migrate, rotate, find or make the treasury | one wallet each, and its key opens | `WalletKeys` |
| Daily brief, waitlist, campaigns (`services/podcast.py`, `routers/waitlist.py`, `routers/email_automation.py`) | episode, delivery rows, waitlist, mail log | generate, deliver, retry, join, unsubscribe, backfill, nurture | one mail each, with consent, and the brief arrives | `Mailings` |
| Price alerts, user webhooks (`services/automation_runner.py`, `services/webhook_delivery.py`, `routers/webhooks.py`) | alerts and subscriptions kept as JSON in audit rows | subscribe, end, dispatch, check | one trigger per crossing; an ended subscription is quiet | `Automation` |
| Accounts, referrals (`routers/auth.py`, `accounts.py`, `referral.py`, `services/username_service.py`) | users, names, handles, one-time links, passwords, codes | register, rename, backfill, reset, verify, delete, refer | names are own, links and referrals work once | `Accounts` |
| Investments (`routers/investments.py`, `services/dspp.py`) | positions, orders, price cache | buy, sell, view, quote | a position is what its orders add up to | `Investments` |
| Trading, gas station, screening, goals, reports, external data, wiring, migrations | see `PROJECT.json` | | | section 9 |

How they interact: sends, approvals, redemptions, deposits, closed-loop
settlements, ledger transfers, referrals and payout refunds all read and write
`User.usdc_balance_cents` directly, each from what its own session has loaded.
`SharedBalance` composes the two that meet it from different sides: threads
that lock the row and coroutines that do not. Sends and the sweep share
`onchain_send`; approvals finish what `send_usdc` has held; the onboarding's
automatic approval activates the closed-loop merchant; registration, renaming
and the backfill share the names. What else they share is rows.

Hard behaviours: awaits between a check and the write it guards (send, sweep,
monitor, brief, alerts, sales), pool threads that meet on one row
(redemptions, closed-loop, onboarding, campaigns), rows written back whole
(alerts, transfers, referrals), an external effect whose answer is lost
(broadcasts, mails), redelivery and reordering (Stripe, price answers),
partial answers (RPC endpoints), restarts between two commits (claims, event
ids, fees, orders, triggers). `PROJECT.json` lists each as a hazard at the line
where it bites, with the properties that watch over it.

## 3. The modules

`X.tla` is the model, `MCX.tla` the values its constants take in the runs.
The theorems are in modules of their own, some of which hold those of several
models (section 6). A comment at the head of each model says what it abstracts
from. Definitions marked "Mutant" are plausible slips of the code;
no specification uses them, they serve to show that each property notices one.

**`ReviewQueue`** is the abstract promise about a transfer row: settled at
once or held; claimed by one admin request; settled or released by it. Its
state is the status of each row and the set of live claims.

**`CustodialSend`**: `pc[a]` is the await a coroutine is suspended in.

| action | code |
|---|---|
| `Refuse`, `SettleInternal`, `StartExternal` | `send_usdc` up to the risk service |
| `Hold`, `Decline`, `Proceed` | after its answer: review row, refusal, or on-chain send |
| `Approve`, `Reject` | `admin_credit.py`: the conditional UPDATE and the checks after it |
| `StartSweep`, `ClaimFee`, `EndSweep`, `CancelSweep` | `collect_fees` |
| `Screened`, `ChooseChain`, `Broadcast`, `AnswerLost`, `TimedOut`, `Reverted`, `FailBeforeBroadcast` | `onchain_send.py`: `send_onchain_usdc`, `_settle_onchain_transfer`, `_broadcast`, `_wait_for_confirmation`; with `GiveUp`, what each caller does on an error |
| `FinishSend`, `FinishApproval`, `FinishSweep` | the commit after a confirmed transfer |
| `Mine`, `Drop`, `Crash` | the chain and the process |

`seen[a]` is the balance a coroutine loaded: the debit is computed from it, as
in the code. The limits are computed from completed rows only, as in the code.

**`Redemptions`**: one action per statement that waits (`LockUser`, `LockRow`,
`LockOwner`) or reads (`Load`, `CheckKey`), and the commit (`Escrow`,
`Release`). `approve` and `mark_paid` lock, check and write one row and are
one action each. The lock of a row is the variable `rowLock` or `userLock`. A
refused call keeps its locks until the event loop closes its session
(`Close`).

**`Transfers`**: sends to a username, FAWN Tab requests and manual credits.
They are coroutines that do not suspend, so `loop` names the one that runs;
`work[h]` holds the balances it has loaded, which its commit writes back.
`Claim`, `Pay`, `RecordPaid` and `GiveBack` are the three commits of
`pay_request` and its error path; `Fault` is an error no handler lists.

**`SharedBalance`** is `Redemptions` and `Transfers` over the same `balance`
and `userLock`. A coroutine that waits for a row lock waits on the event
loop's thread, which must run to close a refused redemption's session.

**`DepositMonitor`**: one wallet on one chain; `scan[s]` holds a scan's
locals. `ReadLogs`, `FinishLogs` and `AskBalance` are the answers for one
contract with complete or partial results, `CheckBalance` the combined-balance
fallback, `Settle` the commit with the unique indexes that can refuse it.

**`ClosedLoop`**: `Rows(h)` is the list of rows a call locks, in order;
`Take`, `Refuse`, `ExpireUnpaid` advance it row by row with the checks that
follow each lock (`Admits`), `Settle` and `Decline` are the end of `_settle`,
`Register`, `View` and `Download` those of `register_nfc_device`,
`get_checkout` and the pass download. Requests of one statement are one action
(`CreateMerchant` ... `CreatePass`). `Abort` is Postgres's deadlock detection.

**`StripeEvents`**: `Events` are the event objects Stripe may deliver; a
session or payout in `Twins` is reported by two, each with its own id. `Record`
is the first commit (the event id), one action per kind of effect is the
second, `Lose` is an exception or a restart between them, `Skip` is every
answer without an effect. The id is all that keeps a payout from being credited
again; a checkout is looked up by its session as well. `members` and `number`
are the rows of `FoundingMember`.

**`Onboarding`**: one merchant. The merchant's own calls are a load and a
commit (`LoadSave` or `LoadSubmit` and `CommitKyb`, `LoadMint` and
`CommitMint`, ...); a commit merges the changed columns into the row as it is
by then. The admin's calls hold the row's lock and are one action
(`DecideKyb`, `AutoApproveKyb`). `LoadSweep` and `CommitSweep` are
`license_expiry_sweep`, `Tick` the day.

**`WalletKeys`**: `env` is the pair of master keys in the environment;
`row[a]` says which one a wallet's key depends on. Each of creation, treasury,
reissue and rotation is a load and a commit. The migration looks for old
wallets twice: `LoadMigrate` is what it asks the chain about, `ReloadMigrate`
what it will replace, for which its session knows the rows it has seen as they
were then. `NewKek` and `RetireKek` are the two deployments around a rotation.

**`Mailings`**: passes of the brief (`PassStep`: `Generate`, `Publish`,
`Accept`, `Answered`, `Refused`, `AnswerLost`) are coroutines, sign-ups and
campaigns (`ThreadStep`: `Join`, `StartCampaign`, `AcceptMail`, `MailEnds`)
are threads. `DayEnds` is the end of the release day: the loop looks for
another episode from then on, a pass that has begun and `deliver_latest_now`
go on with this one. That the provider takes a mail and that the program learns of it
are two steps. `frozen` is the state in which an insert waits, on the event
loop's thread, for a row inserted by a suspended coroutine.

**`Automation`**: `session[p]` is what a sender has loaded and will write
back. `Walk` checks the loaded alerts, `Dispatch` starts the posts of one
event, `Answer` ends one post and, after the last, commits.

**`Accounts`**: `Register`, `RegisterRefused`, `Restart` (with the backfill of
names it runs) are one step; renames, links, password changes and referrals
are a load (`BeginRequest`, `FindLink`, `FindInviter`) and a commit. `Like` is the
database's `ILIKE`, to which `_` is any character.

**`Investments`**: a handler runs up to the price it needs (`Begin`), suspends
unless the cache has it (`AnswerPrice`, `NoAnswer`), commits the order (`OrderBuy`,
`OrderSell`) and then the position (`BookBuy`, `BookSell`). `Column` says that
a column is written only when it differs from what was loaded; `Rounded` is
Python's `round`. Quotes run in an event loop of their own.

History variables (`refunded` in `Redemptions`; `times`, `vouched`; `charges`,
`spentBy`; `repaid`, `lost`; `moved`, `fees`, `credited`, `overtaken`; `briefs`,
`mails`, `overlaps`; `posts`, `rises`, `quiet`; `uses`, `claims`, `bonuses`;
`bought`, `sold`, `spent`, `disturbed`) are written and never read by an
action's guard; they let properties speak of what has happened.

## 4. The runs

| run | instance | properties |
|---|---|---|
| `review` | 2 sends by one of 2 users, chosen among 5 payments (with and without a key, large, internal, to oneself), 2 approvals, a chain balance that covers either send and a ledger that covers one, 1 restart; 119,957 states | `BalanceNeverNegative`, `CompletedMeansMined`, `ClaimsResolve`, and the refinement `ImplementsQueue` |
| `fees` | 2 sends, 2 sweeps, 1 restart; 124,628 states | `FeesAddUp`, `CoroutinesEnd` |
| `escrow` | `SharedBalance`: 2 redemptions among orders of 2 users with and without a key, 1 cancellation, 1 review, 1 send or credit, 1 tab with 2 payers' calls and 1 reminder, of which 3 calls in a behaviour, a limit and a float that bind, 1 restart or fault; 262,335 states | `EscrowInOnePlace`, `DailyLimitHolds`, `TabPaidOnce`, `LedgerAddsUp`, `EveryCallEnds` |
| `deposits` | 1 deposit on one of 2 contracts, a send, the monitor beside a sync-now call, 1 edit by an admin, 1 restart; 110,600 states | `RecordedOnce`, `NothingHidden`, `DepositsAreFound` |
| `checkout` | 3 members of whom 2 sell to each other, 2 checkouts, 1 tap token, 1 challenge, 1 pass link, 2 device keys under a cap of 1, 2 calls, 1 change of controls, revocation or expiry; 507,953 states | `LimitsHold`, `NoPaymentDeadlock`, `GrantsAreSpentOnce`, `NoCallIsStuck`, `NoChargeAfterExpiry` |
| `webhook` | 1 Bucks session, 1 offer and 1 payout that are reported by two events each, 1 more offer and 1 that is passed over, 2 partial refunds, a dispute, 1 event lost; 1,728,544 states | `LedgerExplainsBucks`, `OneNumberEach`, `EffectsMatchEvents` |
| `onboarding` | 2 overlapping calls, 3 forms (general, high-risk without and with a licence), 3 keys under a limit of 1, 2 decisions, 2 days; 849,351 states | `ActionsAreLogged`, `LiveKeysAreEarned`, `KeyLimitHolds` |
| `wallets` | 4 users (no address, a row without a key, no row, an old key), 4 fresh addresses, 2 overlapping calls, 3 master keys; 77,897 states | `EnvelopesOpen`, `OneWalletEach`, `SignableWalletsStay` |
| `mailings` | 2 addresses, 1 with an account, the scheduler and 1 request, 2 threads, 1 restart or lost answer, one release day and its end; 862,174 states | `RecordsAreTrue`, `NothingIsMailedTwice`, `MailFollowsConsent`, `BriefArrives` |
| `automation` | 1 subscription, 2 alerts, the loop and 1 request, 2 price moves, 1 restart; 120,677 states | `OneTriggerPerCrossing`, `QuietStaysQuiet`, `AlertsAreChecked` |
| `accounts` | 3 users (named, nameless, new), 3 names of which one matches another as a pattern, 1 link, 1 code, 3 overlapping calls, 1 restart or deletion; 871,448 states | `NamesAreOwn`, `LinksWorkOnce`, `ReferralsAddUp` |
| `investments` | 1 position of 2 shares, 3 calls, a price that falls and rises within 3 ticks, a cache that lasts 2, 1 restart; 777,423 states | `PositionsMatchOrders`, `FreshPricesAreRecent` |

What they show: in every interleaving of these instances the properties hold;
each property says in its comment what it excepts and why. A property that
would hold in any model was not stated: each has a mutant of the code in
`PROJECT.json`, an edit such as a dropped check or a swapped order, under which
the same run fails.

Several properties carry a module's type invariant as their first conjunct
(`LimitsHold`, `RecordsAreTrue`, `OneTriggerPerCrossing`,
`PositionsMatchOrders`, `ReferralsAddUp`, `LedgerAddsUp`, and, at every state,
`DepositsAreFound`); those of the other modules are theorems. So are
`ClaimsAreExclusive`, the two `StatusFollowsEdges` and `RefundsNeverShrink`,
which the runs no longer repeat.

Why the bounds are enough. Every hazard listed is a matter of two actors on
one row, and of one or two objects; the instances have two of each, and the
constants are chosen so that the checks bind: a balance that covers one of two
sends, a daily limit that covers one of two purchases, a device cap of one, a
key limit of one, a float of two requests. `MaxCrashes`, `MaxFaults` and
`MaxRestarts` are one: a restart at any await leaves any claim behind; so is
`MaxLosses`: a lost event is not looked at again.
`MaxEdits` and `MaxEvents` bound what an admin or member may do by hand.
`MaxRefunds` is two, the least at which refunds can be reordered; `MaxKek` is
three, the least at which a key that was missed by one rotation is lost by the
next; `MaxCalls` is three, so that two transfers can meet a redemption.
Behaviours are shorter than the windows of the limits (an hour, a day): no row
leaves a rolling sum in them.

`CHECK_DEADLOCK FALSE` in every cfg: the numbers of calls are bounded, and a
system in which every call has been answered stops. `SYMMETRY` is used where
only the identity tells requests, keys or codes apart, and never in a run with
a liveness property.

## 5. Fairness

* `CustodialSend`: weak fairness of every coroutine that has started. The
  event loop resumes what it can, each HTTP call has a timeout and the receipt
  poll a fixed number of rounds (`onchain_send.py`), so every await returns.
  Clients and admins need not call, the chain need not mine.
* `SharedBalance`: weak fairness of one action, `Progress`: some call that has
  begun moves on as long as one can. A behaviour has finitely many steps of
  calls, so nothing need be assumed of each. A call that waits for a lock is
  not enabled; that the locks are let go is what `EveryCallEnds` shows, with
  the one exception of the event loop that waits for itself.
* `DepositMonitor`: weak fairness of the monitor's loop, and strong fairness
  of the answers: an endpoint asked again and again at the same point of a
  scan does not fail every time. Without the latter an outage that lasts
  for ever hides every deposit.
* `Mailings`: weak fairness of the scheduler's pass, which wakes up for ever,
  and strong fairness of the provider: asked again for the same account, it
  takes the mail at some time. The day need not end, and when it does
  `BriefArrives` asks no more. Nothing is assumed of requests.
* `Automation`: weak fairness of the alert loop, whose awaits have time
  limits, and strong fairness of the step in which prices come.

The other specifications state no fairness. In `ClosedLoop` the invariant
`NoCallIsStuck` takes the place of liveness: while a call is under way one can
go on or is part of a deadlock that the database ends, and a call has finitely
many steps.

## 6. The proofs

| module | models | theorems about the runs' properties |
|---|---|---|
| `CustodialSendProofs` | `CustodialSend`, `ReviewQueue` | `NoOverdraft`, `CompletedIsMined`, `FeesAreConserved`, `QueueIsImplemented` |
| `SharedBalanceProofs` | `Redemptions`, `Transfers`, `SharedBalance` | `EscrowIsConserved`, `DailyLimitIsKept`, `TabIsPaidOnce`, `LedgerIsConserved` |
| `ClosedLoopProofs` | `ClosedLoop` | `LimitsAreKept`, `GrantsAreSingleUse`, `ExpiredIsNotCharged`, `PaymentsDoNotDeadlock`, `SomeCallGoesOn` |
| `BackgroundProofs` | `DepositMonitor`, `Automation` | `TransfersAreRecordedOnce`, `CheckpointHidesNothing`; `CrossingsTriggerOnce`, `QuietStayQuiet` |
| `ProductProofs` | `StripeEvents`, `Investments` | `LedgerIsExplained`, `MembersAreNumbered`, `EffectsAreExact`; `PositionsAreExplained`, `ServedPricesAreRecent` |
| `AccountProofs` | `Onboarding`, `Accounts` | `TheLogIsTrue`, `LiveKeysNeedVerification`, `KeysAreLimited`; `NamesStayOwn`, `LinksAreSingleUse`, `ReferralsAreAccounted` |
| `KeysAndMailProofs` | `WalletKeys`, `Mailings` | `EnvelopesStayOpen`, `WalletsAreUnique`, `WalletsThatSignStay`; `RecordsStayTrue`, `RepeatsAreAccounted`, `ConsentComesFirst` |
| `SumTheorems` | sums over finite sets | cited by the first three |

Every invariant that a run checks is the subject of one of these theorems, and
so are the type invariants of all models but `DepositMonitor`, by themselves or
as a conjunct. They hold for every value of the constants that satisfies the
assumptions named in the model (`...Assumption`), which only say what the
constants are: amounts are positive, kinds of calls are disjoint, `None` or
`Null` is nothing else, and what is counted or summed over is a finite set
(`FiniteAssumption`, `RequestsAssumption`, `TasksAssumption`,
`HoldingsAssumption`).
`StartAssumption` of `ClosedLoop` says that a card's initial controls are among
those a member may choose. TLC evaluates them all on the runs' constants.

`BackgroundProofs`, `ProductProofs`, `AccountProofs` and `KeysAndMailProofs`
extend two models each, which have nothing to do with each other, so that a
theorem names the very properties a run checks. That is why `Accounts`,
`Investments`, `Mailings` and `Automation` put their own name before `Init`,
`Next`, `Spec` and `TypeOK` (`AccountsInit`, `MailingsSpec`), and why a value
that is absent is `Null` there and `None` elsewhere. A specification speaks of
its own variables only: no theorem about one model says anything of the other.

Each invariant below was checked by TLC on the run's instance before its proof.
What they have in common: a step is harmless because of what some call found
when it read or locked a row, so the invariant says what remains true of each
call in progress, whatever commits before it does; and a count of what has
happened is bounded together with what is still going to happen.

* **`SumTheorems`**. A sum over a set is a fold: a solution of a recursion over
  its subsets. That the recursion has a solution, and what a sum is when an
  element is added, removed or changed (`SumAdd`, `SumRemove`, `SumChange`,
  `SumMonotone`), needs an induction over finite sets; its place is taken by
  `SmallestSet`: among subsets of a finite set there is a smallest one, so a
  counterexample would have no smallest one.
* **`CustodialSendProofs`**. A send that still runs has no row and its loaded
  balance covers it (`RequestsOK`, from which the stale debit cannot go below
  zero); an approval that still runs owns its row, alone (`ApprovalsOK`); the
  transfer a coroutine waits for is the one it was asked to make
  (`TransfersOK`); a completed row was completed by a coroutine that has ended
  (`CompletedOK`, needed because `by` points to its transaction). The
  refinement maps `claims` to the pairs of live approval and held row; every
  action is an action of `ReviewQueue` or leaves status and claims alone, and
  a restart is `Stop`. For the fees (`FeeInv`), a sweep's claim is what it
  read, and it has dealt with the wallet it settled last (`SweepWork`): without
  the latter a wallet's fee could be counted twice in what the run collected.
* **`SharedBalanceProofs`**. A refund past `LockRow` holds the row's lock and
  finds the row still refundable (`RefundsOK`): without it a payment between
  the check and the release would be possible. A request whose checks have
  passed holds its user's lock, and the day's redemptions with its own still
  fit (`LocksOK`). A tab whose coroutine is under way is `processing`, and its
  money has moved exactly if that coroutine has paid (`TabsOK`). As long as
  nothing was overtaken, every copy of a balance is current (`CopiesOK`), which
  is what makes `LedgerAddsUp` inductive. `SharedInvariance` is the invariant
  of the composition, each step of either component preserving the other's.
* **`ClosedLoopProofs`**. No row is held by two calls (`LocksAreExclusive`);
  the grant of a call that holds its row is unused (`GrantsAreFresh`); only a
  checkout whose time is up is expired (`ExpiredIsLate`); a payment past the
  merchant's row is not expired, and past the card's row its total still fits
  in a daily limit the controls allow (`Checked`), because whoever could change
  that needs a row the payment holds. Deadlocks: rows are ranked (grant,
  device, checkout, merchant, card, user by user), every payment locks them in
  ascending order, and among payments that wait for each other the one that
  waits for the highest row waits for a call that waits for a higher one.
* **`BackgroundProofs`**, deposits. The invariant relates each scan's locals to
  the chain: what is hidden lies at or after the scan's first block, and, in
  the part of its range that was answered reliably, is among what it has found
  (`Knows`). Nothing is scanned before it is mined (`BehindHead`). The amounts
  are left out of the invariant.
  Automation: a copy of the subscriptions counts no more deliveries than were
  begun, and none of its quiet ones is active, in the table and in what every
  sender has loaded (`SubsOK`): rows are written back whole, so what must not
  return to the table must be in no copy either. What a pass has loaded is in
  the table, and what it is triggering has crossed its threshold (`PassOK`). An
  alert that will trigger before the price moves again (`Owing`, in this pass
  or in the next one, which finds the row as this one leaves it) counts as
  triggered (`CrossingsOK`); a restart is what pays for the one that triggered
  and was not marked.
* **`ProductProofs`**, Stripe's events. The properties the run checks are
  inductive together with the types: an event counts as applied from the answer
  of its handler on, so the commit of its id and the loss of its handling leave
  the applied ones as they are (`AppliedSame`), and each answer adds the one
  event it is about (`OneMoreApplied`), with its effect. Investments: a sale that nothing overtook has loaded what the position
  still is (`SalesOK`); a position with an order that is committed and not
  booked lacks exactly what that order will do (`BooksOK`); no cache entry is
  stamped later than it was quoted (`StampsOK`).
* **`AccountProofs`**, onboarding. `Waiting` says what a call in progress has
  read: a save or submission writes no verdict, so a merge can only take the
  form out of its decision; a live key about to be written has been earned
  (`Earned` is never taken back). `Room` counts active keys together with the
  keys under way: their number stays below the limit and the number of calls,
  which is what the limit is worth when calls overlap. Accounts: a link that is
  not marked as used has not been used, and the calls about to use it count
  with its uses (`LinksOK`); the same goes for the claims of an account, and no
  copy of a balance exceeds what the audit rows explain (`ClaimsOK`). A user
  without a row has no name (`RowsOK`), from which a registration cannot take
  one away.
* **`KeysAndMailProofs`**, keys. `EnvelopesOpen` is not inductive: clearing the
  previous master key would break it unless a clean rotation meant that every
  data key is wrapped with the new one, which `Wrapped` adds. `Schemes`
  separates the rows this code makes from those before it, `Loaded` says what
  the rows a call loaded can have become by its commit (a row loaded as
  stranded still cannot sign; a wallet of this code's making that a migration
  takes for the old one is its user's, or nobody's), and `Linked` ties a user's address to the row, from which two
  creations cannot both leave one.
  Mailings: while a pass waits for the provider, the row it works on is there
  or not as it was when loaded, and of two passes at one address one has seen
  the other's row (`PassesOK`): the loop's thread would have frozen. A brief is
  charged to the loop, to a fault, or to a request that will not send that
  address another one (`BriefsOK`); the mails of a campaign, with the threads
  that are about to send one more (`Due`), exceed one by faults and overlaps
  only (`MailsOK`). A thread mails who had consent, and what it has done the
  provider has accepted (`ThreadsOK`).

Proved and not listed in a run: `TypeCorrectness` of five models,
`ExclusiveClaims`, the two `StatusEdges`, `RefundsGrow`, and `DeliveriesStand`,
the part of `BriefArrives` that is not liveness.

## 7. What is only model-checked

* Liveness: `ClaimsResolve`, `CoroutinesEnd`, `EveryCallEnds`,
  `DepositsAreFound`, `AlertsAreChecked` and the first part of `BriefArrives`.
  What follows from fairness, like anything that speaks of `ENABLED`, is out of
  the prover's reach. `SomeCallGoesOn` (`ClosedLoop`) is the invariant that
  takes its place there.
* The type invariant of `DepositMonitor`, a conjunct of `DepositsAreFound`: the
  balance checks of the scans are sums of what they found, and no theorem needs
  their type. The types the proofs need are in `ScanTypes`.

## 8. Where the code and its text disagree

Each of these is a behaviour of the models. Those with a name are stated in
the module, under the heading of what the code breaks, and TLC finds them
violated in the run's instance or a slightly larger one; no run keeps them.

* `NothingMovedBeforeSettlement` (`CustodialSend`): an approval whose receipt
  poll gives up, or whose broadcast answer is lost, returns the row to the
  queue, although its transfer may be mined later. The queue's text says that
  nothing has moved for its rows (`admin_credit.py:48`, `:209`).
* `NoOverdraw` (`Redemptions`): the `SELECT ... FOR UPDATE` of a redemption
  request returns the user object `get_current_user` has loaded before; two
  requests pass the balance check with one balance.
* `CreditedAtMostReceived` (`DepositMonitor`): with one contract's logs read
  and the other's not, the balance check does not see the rows the scan has
  added and not flushed, and credits their amounts again.
* A tap or NFC call has loaded its checkout before it waits for its lock;
  `_settle` sees the status of then, and charges it again (`ClosedLoop`: no
  property limits `charges` by one; `NoChargeAfterExpiry` is what is left).
* `LoopRunsOn` (`SharedBalance`): a refused redemption's session is closed by
  the event loop; a coroutine that writes the same user before waits for the
  row on the loop's own thread.
* `SubmittedIsLicensed` (`Onboarding`): a save that began before a submission
  or a decision writes its fields over a locked form
  (`merchant_onboarding.py:22`, `:211`). `WithdrawalsHaveAddress`: overlapping
  changes of the preferences leave an automatic withdrawal without an address.
* `DirectKeysOpen` (`WalletKeys`): a rotation re-wraps no row of the older
  scheme, and a lookup of such a row tries only the new master key, although
  `models.py:430` calls it "still decryptable exactly as before".
* `SignableWalletsKeepOwner` (`WalletKeys`): the migration replaces what its
  second query finds (`migrate_legacy_wallets.py:147`). A wallet that was made
  for the user since the first one, by a reissue, is detached in favour of
  another, although only the old address was asked about on the chain and the
  text says that the script "moves only a reconciled internal balance"
  (`migrate_legacy_wallets.py:6`).
* `RepaidAtMostOnce` (`StripeEvents`): `payout.failed` is applied whatever the
  transfer's status is (`stripe_webhook.py:310-327`), so two event objects that
  report one failure credit the sender twice; the mail says "we refunded it".
  A redelivery of one event does not: its id is known (`EffectsMatchEvents`).
* "High-risk verticals (cannabis et al.) can NEVER be auto-approved. Every one
  requires an explicit human decision" (`merchant_onboarding.py:20`, and so
  `models_merchant.py:38`, `tests/test_merchant_onboarding.py:6` and
  `docs/merchant/INTEGRATION.md:173`). `auto_approve_kyb`
  (`merchant_onboarding.py:505`) approves them when the licence is unexpired,
  as `system_auto_approval`, and activates the merchant; `AutoApproveKyb`
  (`Onboarding`) is that code, and no property says otherwise.
* `PaidOncePerAccount` (`Accounts`): two uses of a code by one account both
  find `referred_by` empty (`referral.py:112`).
* `DeletionStands` (`Accounts`): a reset link, or a change of password that
  has loaded the account before, gives a deleted account a password again.
* `UnsubscribeStands` (`Automation`): a dispatch writes the subscription back
  as active.
* `NothingIsSoldTwice` (`Investments`): two sales that both loaded a position
  before either is booked sell the same shares.

Reached in the models and not stated as properties: a claim, or a tab, stays
`approving` or `processing` after a restart; sends in flight escape the rolling
limits; overlapping calls with one idempotency key can both move money;
requests of two users together exceed the redemption float; a view can mark a
checkout expired that was settled an instant before; a Stripe event whose
handling fails is not handled again, and the brief of a day that is over is not
sent again by the loop; a refund that arrives before its checkout
reverses nothing; a late `payout.paid` overwrites `failed`; a name with an
underscore is refused because it matches another one as a pattern, and the
refused registration leaves an account; a change of password overwrites a
reset that came between; a magic link is burnt for a member who is refunded;
two passes of the brief freeze the process.

Seen in the code and outside the models: two transfers of one contract to one
wallet in one transaction conflict on the unique index
(`blockchain_monitor.py:322`, `models.py:588`) and hold up the wallet's scan;
the start-up backfill fails as a whole when it generates one name for two
users, which `FirstNamesAssumption` excludes.

## 9. What is not modelled

* Token trading (`routers/trading.py`, `services/trading_uniswap.py`): no trade
  can be executed. `validate_token_address` calls `.hex()` on an `int` for
  every token (`trading_uniswap.py:245`), and `execute_trade` reads the built
  transaction, a dataclass, with `.get` (`trading.py:421`). A model of it
  would be one of refusals.
* The gas station and the address screening are one nondeterministic failure
  or verdict inside `CustodialSend`.
* Recurring transfers, savings goals, DCA plans and goals: rows that are
  appended and listed, and that nothing executes.
* `investments_full.py` and `alpaca.py`: not mounted.
* Cryptography, signing, decoding of logs and addresses, mail and push texts,
  listings and reports; chain reorganisations; amounts below a cent; the order
  in which endpoints are tried; the fees and volumes `_settle` books;
  `create_checkout` of the Bucks, which only calls Stripe; sessions and expiry
  of links.
* Start-up wiring, migrations and scripts, except the backfill of names
  (`Accounts`) and the migration of old wallets (`WalletKeys`).

Except in `SharedBalance`, each model has the shared balance to itself.
Every component left out is in `PROJECT.json` with its reason.

## 10. Plan

1. Abstract specifications for the closed-loop checkout (a checkout is open
   until it is charged or expires) and for the ledger (transfers between
   balances), with `ClosedLoop` and `SharedBalance` shown to implement them as
   `CustodialSend` implements `ReviewQueue`.
2. `DepositMonitor`'s type invariant and what its balance check credits, with
   `SumTheorems`.
3. The external send as a third writer of `SharedBalance`, in place of the
   copy `CustodialSend` has of the ledger.
