--------------------------- MODULE CustodialSend ---------------------------
(***************************************************************************)
(* Sending USDC out of custodial wallets: crypto_wallet.send_usdc, the     *)
(* admin review of held sends (routers/admin_credit.py), the sweep of      *)
(* accrued fees (crypto_wallet.collect_fees) and the on-chain settlement   *)
(* all three share (services/onchain_send.py).                             *)
(*                                                                         *)
(* Every handler is a coroutine on one event loop.  It runs without a      *)
(* break from one await to the next, so an action is what it does between  *)
(* two awaits, and pc[a] names the await it is suspended in.  A session    *)
(* never re-reads a row it has loaded (database.py): seen[a] is the        *)
(* balance a loaded, and what it later writes is computed from it.         *)
(***************************************************************************)
EXTENDS Integers, FiniteSets, Functions

CONSTANTS
  Users,          \* FAWN users, each with a custodial wallet
  Outside,        \* recipient addresses with no FAWN wallet
  Treasury,       \* FAWN's treasury wallet
  Chains,         \* "polygon", "base"
  Requests,       \* calls of send_usdc; a call also names the row it inserts
  Approvals,      \* calls of approve_transfer
  Sweeps,         \* runs of collect_fees
  Payments,       \* the sends a client may ask for
  NoKey, None,
  Opening,        \* ledger balance of each user at the start
  OpeningOnchain, \* native USDC of each user's wallet on each chain
  InternalFee, ExternalFee,             \* crypto_wallet.py:36-37
  MaxPerTx, MaxPerDay, MaxSends,        \* custody limits, config.py
  ReviewThreshold,                      \* new_recipient_review_threshold_cents
  MaxCrashes                            \* bound on process restarts

Actors    == Requests \cup Approvals \cup Sweeps
Addresses == Users \cup Outside \cup {Treasury}

ASSUME FeesAssumption     == InternalFee \in Nat /\ ExternalFee \in Nat
ASSUME LimitsAssumption   == {MaxPerTx, MaxPerDay, MaxSends, ReviewThreshold, MaxCrashes} \subseteq Nat
ASSUME PaymentsAssumption ==
  \A p \in Payments : /\ p.from \in Users /\ p.to \in Users \cup Outside
                      /\ p.amount \in Nat \ {0} /\ p.internal \in BOOLEAN
ASSUME OpeningAssumption  == /\ Opening \in [Users -> Nat]
                             /\ OpeningOnchain \in [Users -> [Chains -> Nat]]
ASSUME ActorsAssumption   == /\ Requests \cap Approvals = {}
                             /\ Requests \cap Sweeps = {}
                             /\ Approvals \cap Sweeps = {}
                             /\ None \notin Actors \cup Users \cup Chains
ASSUME FiniteAssumption   == IsFiniteSet(Users) /\ IsFiniteSet(Requests) /\ IsFiniteSet(Sweeps)

VARIABLES
  balance,    \* User.usdc_balance_cents
  pendingFee, \* CryptoWallet.pending_fee_cents
  pay,        \* what each request asks for
  status,     \* CryptoTransfer.status of each request's row, "none" before it
  by,         \* the request or approval that completed the row, None before
  pc,         \* the await each coroutine is suspended in
  seen,       \* the sender balance each coroutine loaded
  held,       \* the row each approval claimed
  wallet,     \* the wallet each sweep is settling
  snap,       \* the fees each sweep read and has not dealt with yet
  run,        \* swept_cents of each sweep
  audited,    \* fees recorded as swept, by user
  collected,  \* total of the FeeCollection rows
  chain,      \* the chain each coroutine chose
  tx,         \* the transaction each coroutine broadcast from each wallet
  onchain,    \* native USDC of every address on every chain
  crashes

ledger    == <<balance, pendingFee>>
table     == <<status, by>>
coroutine == <<pc, seen, held, wallet, snap, run, chain>>
fees      == <<audited, collected>>
network   == <<tx, onchain>>
vars      == <<ledger, table, pay, coroutine, fees, network, crashes>>

Transactions == [status : {"none", "pending", "mined", "reverted", "dropped"},
                 chain : Chains \cup {None}, to : Addresses \cup {None}, amount : Int]

NoTx == [status |-> "none", chain |-> None, to |-> None, amount |-> 0]

Fee(r)      == IF pay[r].internal THEN InternalFee ELSE ExternalFee
Total(r)    == pay[r].amount + Fee(r)
ToLedger(r) == pay[r].internal /\ pay[r].to \in Users

(* The row a send settles, and where the money of a settlement comes from, *)
(* goes to, and how much of it there is.                                   *)
RowOf(a)  == IF a \in Approvals THEN held[a] ELSE a
Source(a) == IF a \in Sweeps THEN wallet[a] ELSE pay[RowOf(a)].from
Dest(a)   == IF a \in Sweeps THEN Treasury ELSE pay[RowOf(a)].to
Amount(a) == IF a \in Sweeps THEN snap[a][wallet[a]] ELSE pay[RowOf(a)].amount

(* The coroutine holds a claim or may still move money. *)
Settling == {"screen", "settle", "send", "confirm"}
Live     == Settling \cup {"risk", "riskLarge", "next"}

(* idempotency_key is UNIQUE over all rows. *)
KeyTaken(r) == /\ pay[r].key # NoKey
               /\ \E q \in Requests : status[q] # "none" /\ pay[q].key = pay[r].key

CompletedBy(u) == {q \in Requests : status[q] = "completed" /\ pay[q].from = u}

(* The caps count completed rows only; a behaviour fits in one hour. *)
WithinLimits(r) ==
  LET sent == CompletedBy(pay[r].from)
  IN  /\ pay[r].amount <= MaxPerTx
      /\ SumFunctionOnSet([q \in Requests |-> pay[q].amount], sent) + pay[r].amount <= MaxPerDay
      /\ Cardinality(sent) < MaxSends

FirstTimeRecipient(r) ==
  ~ \E q \in CompletedBy(pay[r].from) : pay[q].to = pay[r].to

Init ==
  /\ balance = Opening
  /\ pendingFee = [u \in Users |-> 0]
  /\ pay \in [Requests -> Payments]
  /\ status = [r \in Requests |-> "none"]
  /\ by = [r \in Requests |-> None]
  /\ pc = [a \in Actors |-> "idle"]
  /\ seen = [a \in Actors |-> 0]
  /\ held = [a \in Approvals |-> None]
  /\ wallet = [s \in Sweeps |-> None]
  /\ snap = [s \in Sweeps |-> [u \in Users |-> 0]]
  /\ run = [s \in Sweeps |-> 0]
  /\ audited = [u \in Users |-> 0]
  /\ collected = 0
  /\ chain = [a \in Actors |-> None]
  /\ tx = [a \in Actors |-> [u \in Users |-> NoTx]]
  /\ onchain = [x \in Addresses |->
                  IF x \in Users THEN OpeningOnchain[x] ELSE [c \in Chains |-> 0]]
  /\ crashes = 0

Goto(a, stage) == pc' = [pc EXCEPT ![a] = stage]

----------------------------------------------------------------------------
(* send_usdc up to its first await *)

(* A known key replays the row it names; otherwise the send is refused for *)
(* lack of funds or because it pays the sender.  Nothing is written.       *)
Refuse(r) ==
  /\ pc[r] = "idle"
  /\ \/ KeyTaken(r)
     \/ balance[pay[r].from] < Total(r)
     \/ ToLedger(r) /\ pay[r].to = pay[r].from
  /\ Goto(r, "done")
  /\ UNCHANGED <<ledger, table, pay, seen, held, wallet, snap, run, chain, fees, network, crashes>>

(* Mutant: the balance is checked against the amount, without the fee. *)
AcceptedOnAmount(r) == /\ pc[r] = "idle"
                       /\ ~ KeyTaken(r)
                       /\ balance[pay[r].from] >= pay[r].amount

Accepted(r) == /\ pc[r] = "idle"
               /\ ~ KeyTaken(r)
               /\ balance[pay[r].from] >= Total(r)

(* FAWN to FAWN: both balances, the fee and the row in one commit. *)
SettleInternal(r) ==
  /\ Accepted(r)
  /\ ToLedger(r)
  /\ pay[r].to # pay[r].from
  /\ balance' = [balance EXCEPT ![pay[r].from] = @ - Total(r),
                                ![pay[r].to]   = @ + pay[r].amount]
  /\ pendingFee' = [pendingFee EXCEPT ![pay[r].from] = @ + Fee(r)]
  /\ status' = [status EXCEPT ![r] = "completed"]
  /\ by' = [by EXCEPT ![r] = r]
  /\ Goto(r, "done")
  /\ UNCHANGED <<pay, seen, held, wallet, snap, run, chain, fees, network, crashes>>

(* Any other send asks the address-risk service.  Whether it is a large    *)
(* first send to its recipient is decided before the answer arrives.       *)
StartExternal(r) ==
  /\ Accepted(r)
  /\ ~ ToLedger(r)
  /\ seen' = [seen EXCEPT ![r] = balance[pay[r].from]]
  /\ Goto(r, IF pay[r].amount >= ReviewThreshold /\ FirstTimeRecipient(r)
             THEN "riskLarge" ELSE "risk")
  /\ UNCHANGED <<ledger, table, pay, held, wallet, snap, run, chain, fees, network, crashes>>

----------------------------------------------------------------------------
(* send_usdc once the risk service has answered *)

(* A large or flagged send within the per-transaction cap becomes a row in *)
(* the review queue, unless its key has been taken meanwhile: then the     *)
(* insert violates the unique index.                                       *)
Hold(r) ==
  /\ pc[r] \in {"risk", "riskLarge"}
  /\ pay[r].amount <= MaxPerTx
  /\ ~ KeyTaken(r)
  /\ status' = [status EXCEPT ![r] = "pending_review"]
  /\ Goto(r, "done")
  /\ UNCHANGED <<ledger, by, pay, seen, held, wallet, snap, run, chain, fees, network, crashes>>

(* The send is refused: over a limit, or a held row that cannot be added. *)
Decline(r) ==
  /\ pc[r] \in {"risk", "riskLarge"}
  /\ \/ pay[r].amount > MaxPerTx
     \/ KeyTaken(r)
     \/ pc[r] = "risk" /\ ~ WithinLimits(r)
  /\ Goto(r, "done")
  /\ UNCHANGED <<ledger, table, pay, seen, held, wallet, snap, run, chain, fees, network, crashes>>

(* Not held: send_onchain_usdc checks the limits, then screens. *)
Proceed(r) ==
  /\ pc[r] = "risk"
  /\ WithinLimits(r)
  /\ Goto(r, "screen")
  /\ UNCHANGED <<ledger, table, pay, seen, held, wallet, snap, run, chain, fees, network, crashes>>

----------------------------------------------------------------------------
(* the review queue *)

(* approve_transfer up to its first await: the conditional UPDATE claims   *)
(* the row, the sender is loaded, its balance and the limits are checked.  *)
(* A failing check releases the claim before anyone can see it.            *)
Approve(a, r) ==
  /\ pc[a] = "idle"
  /\ status[r] = "pending_review"
  /\ balance[pay[r].from] >= Total(r)
  /\ WithinLimits(r)
  /\ status' = [status EXCEPT ![r] = "approving"]
  /\ held' = [held EXCEPT ![a] = r]
  /\ seen' = [seen EXCEPT ![a] = balance[pay[r].from]]
  /\ Goto(a, "screen")
  /\ UNCHANGED <<ledger, by, pay, wallet, snap, run, chain, fees, network, crashes>>

(* reject_transfer *)
Reject(r) ==
  /\ status[r] = "pending_review"
  /\ status' = [status EXCEPT ![r] = "rejected"]
  /\ UNCHANGED <<ledger, by, pay, coroutine, fees, network, crashes>>

----------------------------------------------------------------------------
(* collect_fees *)

(* The wallets that owe a fee are read once, at the start of the run. *)
StartSweep(s) ==
  /\ pc[s] = "idle"
  /\ snap' = [snap EXCEPT ![s] = pendingFee]
  /\ Goto(s, "next")
  /\ UNCHANGED <<ledger, table, pay, seen, held, wallet, run, chain, fees, network, crashes>>

(* Mutant: a fee that changed since it was read is tried again. *)
ClaimFeeAgain(s, u) ==
  /\ pc[s] = "next"
  /\ snap[s][u] > 0
  /\ pendingFee[u] = snap[s][u]
  /\ pendingFee' = [pendingFee EXCEPT ![u] = 0]
  /\ wallet' = [wallet EXCEPT ![s] = u]
  /\ Goto(s, "settle")
  /\ UNCHANGED <<balance, table, pay, seen, held, snap, run, chain, fees, network, crashes>>

(* One wallet's fee is zeroed if it still is what the run read; otherwise  *)
(* the wallet is skipped.                                                  *)
ClaimFee(s, u) ==
  /\ pc[s] = "next"
  /\ snap[s][u] > 0
  /\ IF pendingFee[u] = snap[s][u]
     THEN /\ pendingFee' = [pendingFee EXCEPT ![u] = 0]
          /\ wallet' = [wallet EXCEPT ![s] = u]
          /\ Goto(s, "settle")
          /\ UNCHANGED snap
     ELSE /\ snap' = [snap EXCEPT ![s][u] = 0]
          /\ UNCHANGED <<pendingFee, wallet, pc>>
  /\ UNCHANGED <<balance, table, pay, seen, held, run, chain, fees, network, crashes>>

(* The run ends with one FeeCollection row for what it swept. *)
EndSweep(s) ==
  /\ pc[s] = "next"
  /\ \A u \in Users : snap[s][u] = 0
  /\ collected' = collected + run[s]
  /\ Goto(s, "done")
  /\ UNCHANGED <<ledger, table, pay, seen, held, wallet, snap, run, chain, audited, network, crashes>>

----------------------------------------------------------------------------
(* settlement *)

(* An approval gives its row back to the queue.  Mutant: it forgets to. *)
KeepRow(a) == UNCHANGED status

ReleaseRow(a) ==
  status' = [status EXCEPT ![held[a]] = IF @ = "approving" THEN "pending_review" ELSE @]

(* A sweep adds the fee back to whatever has accrued since.  Mutant: it    *)
(* writes back the value it read.                                          *)
RestoreFeeRead(s) ==
  /\ pendingFee' = [pendingFee EXCEPT ![wallet[s]] = Amount(s)]
  /\ snap' = [snap EXCEPT ![s][wallet[s]] = 0]

RestoreFee(s) ==
  /\ pendingFee' = [pendingFee EXCEPT ![wallet[s]] = @ + Amount(s)]
  /\ snap' = [snap EXCEPT ![s][wallet[s]] = 0]

(* What a caller of the settlement does when it raises *)
GiveUp(a) ==
  /\ IF a \in Approvals THEN ReleaseRow(a) ELSE UNCHANGED status
  /\ IF a \in Sweeps THEN RestoreFee(a) ELSE UNCHANGED <<pendingFee, snap>>
  /\ Goto(a, IF a \in Sweeps THEN "next" ELSE "done")
  /\ UNCHANGED <<balance, by, pay, seen, held, wallet, run, chain, fees, crashes>>

(* Neither sanctions list has the recipient and the key decrypts. *)
Screened(a) ==
  /\ pc[a] = "screen"
  /\ Goto(a, "settle")
  /\ UNCHANGED <<ledger, table, pay, seen, held, wallet, snap, run, chain, fees, network, crashes>>

(* Some chain alone covers the amount and has gas; an earlier chain may    *)
(* have failed to answer.                                                  *)
ChooseChain(a, c) ==
  /\ pc[a] = "settle"
  /\ onchain[Source(a)][c] >= Amount(a)
  /\ chain' = [chain EXCEPT ![a] = c]
  /\ Goto(a, "send")
  /\ UNCHANGED <<ledger, table, pay, seen, held, wallet, snap, run, fees, network, crashes>>

(* A sanctioned recipient, an unusable key, no covering chain, no gas, no  *)
(* nonce, or a transaction the node refused: nothing was broadcast.        *)
FailBeforeBroadcast(a) ==
  /\ pc[a] \in {"screen", "settle", "send"}
  /\ GiveUp(a)
  /\ UNCHANGED network

Submitted(a) ==
  tx' = [tx EXCEPT ![a][Source(a)] =
           [status |-> "pending", chain |-> chain[a], to |-> Dest(a), amount |-> Amount(a)]]

(* The node takes the signed transfer and returns its hash. *)
Broadcast(a) ==
  /\ pc[a] = "send"
  /\ Submitted(a)
  /\ Goto(a, "confirm")
  /\ UNCHANGED <<ledger, table, pay, seen, held, wallet, snap, run, chain, fees, onchain, crashes>>

(* The node takes it and the answer is lost: to the caller it failed. *)
AnswerLost(a) ==
  /\ pc[a] = "send"
  /\ Submitted(a)
  /\ GiveUp(a)
  /\ UNCHANGED onchain

(* 30 polls without a receipt, whatever became of the transaction. *)
TimedOut(a) ==
  /\ pc[a] = "confirm"
  /\ GiveUp(a)
  /\ UNCHANGED network

Reverted(a) ==
  /\ pc[a] = "confirm"
  /\ tx[a][Source(a)].status = "reverted"
  /\ GiveUp(a)
  /\ UNCHANGED network

(* Mutant: any receipt is taken for success. *)
AnyReceipt(a) == pc[a] = "confirm" /\ tx[a][Source(a)].status \in {"mined", "reverted"}

(* A receipt with status 0x1 *)
Confirmed(a) == /\ pc[a] = "confirm"
                /\ tx[a][Source(a)].status = "mined"

(* The debit after settlement: the balance loaded before it, less the      *)
(* total.  The fee is added by the database, to its own current value.     *)
Complete(a, r) ==
  /\ balance' = [balance EXCEPT ![pay[r].from] = seen[a] - Total(r)]
  /\ pendingFee' = [pendingFee EXCEPT ![pay[r].from] = @ + Fee(r)]
  /\ status' = [status EXCEPT ![r] = "completed"]
  /\ by' = [by EXCEPT ![r] = a]

(* send_usdc records its settlement; a key taken meanwhile fails the whole *)
(* commit.                                                                 *)
FinishSend(r) ==
  /\ Confirmed(r)
  /\ IF KeyTaken(r) THEN UNCHANGED <<ledger, table>> ELSE Complete(r, r)
  /\ Goto(r, "done")
  /\ UNCHANGED <<pay, seen, held, wallet, snap, run, chain, fees, network, crashes>>

FinishApproval(a) ==
  /\ Confirmed(a)
  /\ Complete(a, held[a])
  /\ Goto(a, "done")
  /\ UNCHANGED <<pay, seen, held, wallet, snap, run, chain, fees, network, crashes>>

FinishSweep(s) ==
  /\ Confirmed(s)
  /\ run' = [run EXCEPT ![s] = @ + Amount(s)]
  /\ audited' = [audited EXCEPT ![wallet[s]] = @ + Amount(s)]
  /\ snap' = [snap EXCEPT ![s][wallet[s]] = 0]
  /\ Goto(s, "next")
  /\ UNCHANGED <<ledger, table, pay, seen, held, wallet, chain, collected, network, crashes>>

(* A cancelled sweep restores its claim and ends without its FeeCollection *)
(* row.                                                                    *)
CancelSweep(s) ==
  /\ pc[s] \in Settling
  /\ RestoreFee(s)
  /\ Goto(s, "dead")
  /\ UNCHANGED <<balance, table, pay, seen, held, wallet, run, chain, fees, network, crashes>>

----------------------------------------------------------------------------
(* the chains and the process *)

(* A pending transfer is executed, and reverts if the wallet cannot cover  *)
(* it any more, or is dropped (evicted, or its nonce used by another).     *)
Mine(a, u) ==
  LET t == tx[a][u]
      covered == onchain[u][t.chain] >= t.amount
      debited == [onchain EXCEPT ![u][t.chain] = @ - t.amount]
  IN  /\ t.status = "pending"
      /\ tx' = [tx EXCEPT ![a][u].status = IF covered THEN "mined" ELSE "reverted"]
      /\ onchain' = IF covered
                    THEN [debited EXCEPT ![t.to][t.chain] = @ + t.amount]
                    ELSE onchain
      /\ UNCHANGED <<ledger, table, pay, coroutine, fees, crashes>>

Drop(a, u) ==
  /\ tx[a][u].status = "pending"
  /\ tx' = [tx EXCEPT ![a][u].status = "dropped"]
  /\ UNCHANGED <<ledger, table, pay, coroutine, fees, onchain, crashes>>

(* The process is restarted: every coroutine is gone, the rows stay. *)
Crash ==
  /\ crashes < MaxCrashes
  /\ crashes' = crashes + 1
  /\ pc' = [a \in Actors |-> IF pc[a] \in Live THEN "dead" ELSE pc[a]]
  /\ UNCHANGED <<ledger, table, pay, seen, held, wallet, snap, run, chain, fees, network>>

----------------------------------------------------------------------------

SendStep(r) == \/ Refuse(r) \/ SettleInternal(r) \/ StartExternal(r)
               \/ Hold(r) \/ Decline(r) \/ Proceed(r) \/ FinishSend(r)

SweepStep(s) == \/ EndSweep(s) \/ FinishSweep(s)
                \/ \E u \in Users : ClaimFee(s, u)

SettleStep(a) == \/ Screened(a) \/ FailBeforeBroadcast(a) \/ Broadcast(a)
                 \/ AnswerLost(a) \/ TimedOut(a) \/ Reverted(a)
                 \/ \E c \in Chains : ChooseChain(a, c)

Environment == \/ \E a \in Actors, u \in Users : Mine(a, u) \/ Drop(a, u)
               \/ Crash

Next == \/ \E r \in Requests : SendStep(r) \/ Reject(r)
        \/ \E a \in Approvals : FinishApproval(a) \/ \E r \in Requests : Approve(a, r)
        \/ \E s \in Sweeps : StartSweep(s) \/ SweepStep(s) \/ CancelSweep(s)
        \/ \E a \in Actors : SettleStep(a)
        \/ Environment

Spec == Init /\ [][Next]_vars

(* The event loop resumes every coroutine whose await has an answer, and   *)
(* every await has a timeout.  Nothing is assumed of clients, of admins    *)
(* starting a call, or of the chains.                                      *)
Fairness == /\ \A r \in Requests  : WF_vars(pc[r] # "idle" /\ (SendStep(r) \/ SettleStep(r)))
            /\ \A a \in Approvals : WF_vars(FinishApproval(a) \/ SettleStep(a))
            /\ \A s \in Sweeps    : WF_vars(SweepStep(s) \/ SettleStep(s))

FairSpec == Spec /\ Fairness

----------------------------------------------------------------------------
(* Properties that hold *)

(* Every variable holds what its column or local variable may hold. *)
TypeOK ==
  /\ balance \in [Users -> Int] /\ pendingFee \in [Users -> Int]
  /\ pay \in [Requests -> Payments]
  /\ status \in [Requests -> {"none", "pending_review", "approving", "completed", "rejected"}]
  /\ by \in [Requests -> Actors \cup {None}]
  /\ pc \in [Actors -> Live \cup {"idle", "done", "dead"}]
  /\ seen \in [Actors -> Int]
  /\ held \in [Approvals -> Requests \cup {None}]
  /\ wallet \in [Sweeps -> Users \cup {None}]
  /\ snap \in [Sweeps -> [Users -> Int]]
  /\ run \in [Sweeps -> Int] /\ audited \in [Users -> Int] /\ collected \in Int
  /\ chain \in [Actors -> Chains \cup {None}]
  /\ tx \in [Actors -> [Users -> Transactions]]
  /\ onchain \in [Addresses -> [Chains -> Int]]
  /\ crashes \in 0 .. MaxCrashes

(* However sends, approvals and restarts interleave, no debit, not even    *)
(* one computed from a stale balance, takes a ledger balance below zero.   *)
BalanceNeverNegative == \A u \in Users : balance[u] >= 0

(* A row is completed only for money that really moved: either in the      *)
(* ledger, or by a mined transfer of exactly this row's amount, from its   *)
(* sender to its recipient, broadcast by the coroutine that completed it   *)
(* ("treats this function returning normally as proof money moved").       *)
CompletedMeansMined ==
  \A r \in Requests : status[r] = "completed" /\ ~ ToLedger(r) =>
    LET t == tx[by[r]][pay[r].from]
    IN  t.status = "mined" /\ t.to = pay[r].to /\ t.amount = pay[r].amount

Claims == {c \in Approvals \X Requests : pc[c[1]] \in Live /\ held[c[1]] = c[2]}

(* approve_transfer's claim is exclusive: a row being settled by an admin  *)
(* request is "approving", and no second request is settling it.           *)
ClaimsAreExclusive ==
  /\ \A c \in Claims : status[c[2]] = "approving"
  /\ \A c, d \in Claims : c[2] = d[2] => c = d

(* The sweeps that claimed the fee of u and settle it, or were killed *)
Claimants(u) ==
  {s \in Sweeps : wallet[s] = u /\ pc[s] \in Settling \cup {"dead"} /\ snap[s][u] > 0}

(* Every cent of fee a completed row charged is owed (pending_fee_cents),  *)
(* in the hands of one sweep, recorded as swept, or was claimed by a sweep *)
(* that a restart killed: concurrent sends, sweeps and failures neither    *)
(* lose a fee nor count one twice.  The FeeCollection rows account for     *)
(* every recorded sweep except those of runs that have not ended.          *)
FeesAddUp ==
  /\ \A u \in Users :
       pendingFee[u] + audited[u]
         + SumFunctionOnSet([s \in Sweeps |-> snap[s][u]], Claimants(u))
         = SumFunctionOnSet([r \in Requests |-> Fee(r)], CompletedBy(u))
  /\ collected + SumFunctionOnSet(run, {s \in Sweeps : pc[s] # "done"})
       = SumFunctionOnSet(audited, Users)

(* Statuses only move along the edges of the review queue; "completed" and *)
(* "rejected" are final, and a claimed row cannot be rejected under the    *)
(* admin who is settling it.                                               *)
Edges == {<<"none", "pending_review">>, <<"none", "completed">>,
          <<"pending_review", "approving">>, <<"pending_review", "rejected">>,
          <<"approving", "pending_review">>, <<"approving", "completed">>}
StatusFollowsEdges ==
  [][\A r \in Requests : status'[r] # status[r] => <<status[r], status'[r]>> \in Edges]_vars

(* The rows and the claims on them implement the review queue. *)
Queue == INSTANCE ReviewQueue WITH Rows <- Requests, Admins <- Approvals, claims <- Claims
ImplementsQueue == Queue!Spec

(* Unless the process restarts, a claimed row never stays claimed: it is   *)
(* settled or goes back to the queue.                                      *)
ClaimsResolve ==
  \A r \in Requests : status[r] = "approving" ~> status[r] # "approving" \/ crashes > 0

(* Every coroutine that starts comes to its end. *)
CoroutinesEnd == \A a \in Actors : pc[a] \in Live ~> pc[a] \notin Live

----------------------------------------------------------------------------
(* A property the code's comments state and its behaviour refutes *)

(* "Nothing has moved yet for any of these" (waiting in the queue); "no    *)
(* funds ever moved" (rejected).                                           *)
NothingMovedBeforeSettlement ==
  \A r \in Requests : status[r] \in {"pending_review", "rejected"} =>
    \A a \in Approvals : held[a] = r => tx[a][pay[r].from].status # "mined"
=============================================================================
