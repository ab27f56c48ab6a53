--------------------------- MODULE DepositMonitor ---------------------------
(***************************************************************************)
(* Detection of incoming USDC (services/blockchain_monitor.py): the        *)
(* monitor's loop and POST /wallet/sync-now scan the blocks after a        *)
(* checkpoint for transfers to a wallet and credit the ledger.             *)
(*                                                                         *)
(* One wallet on one chain.  Both kinds of scan are coroutines of one      *)
(* event loop, each with its own database session, so an action runs from  *)
(* one await to the next.  Every block holds at most one event of          *)
(* interest, and an RPC endpoint that answers answers for the same chain.  *)
(***************************************************************************)
EXTENDS Integers, FiniteSets, FiniteSetsExt

CONSTANTS
  Deposits,   \* transfers to the wallet
  Contracts,  \* the USDC contracts of the chain
  Contract, Amount, \* of each deposit, in whole cents
  monitor,    \* the background loop
  Syncs,      \* calls of sync_wallet_now
  Lookback,   \* BACKFILL_BLOCK_LOOKBACK
  Opening,    \* usdc_balance_cents at the start
  Sends,      \* what a custodial send may take out of the wallet
  Baselines, Corrections, \* what an admin may enter
  None,
  MaxEdits, MaxCrashes \* bounds on admin calls and restarts

Scanners == {monitor} \cup Syncs

ASSUME DepositsAssumption == /\ Contract \in [Deposits -> Contracts]
                             /\ Amount \in [Deposits -> Nat \ {0}]
ASSUME ScannersAssumption == monitor \notin Syncs
ASSUME NumbersAssumption  == /\ {Lookback, Opening, MaxEdits, MaxCrashes} \subseteq Nat
                             /\ Sends \cup Baselines \subseteq Nat
                             /\ Corrections \subseteq Nat \ {0}
                             /\ None \notin Nat

VARIABLES
  head,       \* the chain's latest block
  mined,      \* the block of each deposit, None before
  spent,      \* what custodial sends have taken out of the wallet
  balance,    \* User.usdc_balance_cents
  recorded,   \* CryptoDeposit.amount_cents of each deposit's row, 0 without one
  credited,   \* the deposits whose row has credited_to_ledger
  fallback,   \* sum of the rows the balance check has written
  checkpoint, \* ChainScanCheckpoint.last_scanned_block, None before the first scan
  baseline,   \* ChainScanCheckpoint.pre_ledger_baseline_cents
  pc, scan,   \* each scan's next step, and its locals
  times,      \* history: how often each deposit has been recorded
  vouched,    \* history: blocks a backfill or a balance check was taken for
  edits, crashes

chain   == <<head, mined, spent>>
rows    == <<recorded, credited, fallback, times>>
cursor  == <<checkpoint, baseline, vouched>>
bounds  == <<edits, crashes>>
vars    == <<chain, balance, rows, cursor, pc, scan, bounds>>

(* The user's balance and the chain's baseline as loaded, the range of     *)
(* blocks, the contracts whose logs are still to come, and what the logs   *)
(* of the others have shown                                                *)
Scans == [seen : Int, base : Nat, from : Nat, upto : Nat, backfill : BOOLEAN,
          todo : SUBSET Contracts, found : SUBSET Deposits, reliable : BOOLEAN]

NoScan == [seen |-> 0, base |-> 0, from |-> 0, upto |-> 0, backfill |-> FALSE,
           todo |-> {}, found |-> {}, reliable |-> TRUE]

IsMined(d) == mined[d] # None

OnChain == MapThenSumSet(LAMBDA d : Amount[d], {d \in Deposits : IsMined(d)}) - spent

(* What the rows say this chain has contributed to the ledger *)
RowsCredited == fallback + MapThenSumSet(LAMBDA d : recorded[d], credited)

(* How much more the wallet holds, as _get_combined_balance tells *)
Gap(s) == LET known == scan[s].base + RowsCredited
          IN  IF OnChain > known THEN OnChain - known ELSE 0

Init ==
  /\ head = 0
  /\ mined = [d \in Deposits |-> None]
  /\ spent = 0
  /\ balance = Opening
  /\ recorded = [d \in Deposits |-> 0]
  /\ credited = {}
  /\ fallback = 0
  /\ checkpoint = None
  /\ baseline = 0
  /\ pc = [s \in Scanners |-> "idle"]
  /\ scan = [s \in Scanners |-> NoScan]
  /\ times = [d \in Deposits |-> 0]
  /\ vouched = {}
  /\ edits = 0 /\ crashes = 0

Goto(s, stage) == pc' = [pc EXCEPT ![s] = stage]

(* The loop comes round again; a request has been answered. *)
End(s) == /\ Goto(s, IF s = monitor THEN "idle" ELSE "done")
          /\ scan' = [scan EXCEPT ![s] = NoScan]

----------------------------------------------------------------------------
(* The chain, and the rest of the program *)

Deposit(d) ==
  /\ ~ IsMined(d)
  /\ head' = head + 1
  /\ mined' = [mined EXCEPT ![d] = head']
  /\ UNCHANGED <<spent, balance, rows, cursor, pc, scan, bounds>>

(* A custodial send leaves the wallet and the ledger. *)
Send(n) ==
  /\ n <= OnChain /\ n <= balance
  /\ head' = head + 1
  /\ spent' = spent + n
  /\ balance' = balance - n
  /\ UNCHANGED <<mined, rows, cursor, pc, scan, bounds>>

----------------------------------------------------------------------------
(* _scan_wallet_chain *)

(* The session loads the user, some time before the scan. *)
Start(s) ==
  /\ pc[s] = "idle"
  /\ scan' = [scan EXCEPT ![s] = [NoScan EXCEPT !.seen = balance]]
  /\ Goto(s, "head")
  /\ UNCHANGED <<chain, balance, rows, cursor, bounds>>

(* No endpoint tells the latest block, or there is nothing new. *)
NothingNew(s) ==
  /\ pc[s] = "head"
  /\ End(s)
  /\ UNCHANGED <<chain, balance, rows, cursor, bounds>>

FirstBlock ==
  IF checkpoint # None THEN checkpoint + 1
  ELSE IF head > Lookback THEN head - Lookback ELSE 0

(* The latest block is known; the checkpoint is read. *)
ReadHead(s) ==
  /\ pc[s] = "head"
  /\ FirstBlock <= head
  /\ scan' = [scan EXCEPT ![s] =
       [seen |-> scan[s].seen, base |-> baseline, from |-> FirstBlock, upto |-> head,
        backfill |-> checkpoint = None,
        todo |-> Contracts, found |-> {}, reliable |-> TRUE]]
  /\ Goto(s, "logs")
  /\ UNCHANGED <<chain, balance, rows, cursor, bounds>>

(* Mutant: the last block of the range is left for the next scan. *)
LogsBefore(s, c) ==
  {d \in Deposits : /\ Contract[d] = c
                    /\ IsMined(d) /\ mined[d] \in scan[s].from .. scan[s].upto - 1
                    /\ recorded[d] = 0}

(* The transfers eth_getLogs returns for a contract that have no row yet *)
NewLogs(s, c) ==
  {d \in Deposits : /\ Contract[d] = c
                    /\ IsMined(d) /\ mined[d] \in scan[s].from .. scan[s].upto
                    /\ recorded[d] = 0}

(* What one contract's answers add: all of its transfers, or, when some    *)
(* block window was not answered, some of them.                            *)
Answered(s, c, D, ok) ==
  /\ D \subseteq NewLogs(s, c)
  /\ ok => D = NewLogs(s, c)

(* Mutant: no unique index on the transfer. *)
NoConflict(s, D) == FALSE

(* The unique indexes on the transfer and on the wallet's checkpoint *)
Conflict(s, D) ==
  \/ \E d \in D : recorded[d] # 0
  \/ scan[s].backfill /\ checkpoint # None

(* Mutant: the checkpoint moves whatever was read. *)
AlwaysAdvance(s, ok, checked) == TRUE

(* Only a range that can be trusted is marked as scanned. *)
Advance(s, ok, checked) == scan[s].backfill \/ ok \/ checked

(* The commit, with the transfers D, the gap a balance check has found and *)
(* the checkpoint: all of it, or on a conflict none.                       *)
Settle(s, D, gap, ok, checked) ==
  /\ IF Conflict(s, D)
     THEN UNCHANGED <<balance, rows, cursor>>
     ELSE /\ recorded' = [d \in Deposits |-> IF d \in D THEN Amount[d] ELSE recorded[d]]
          /\ times' = [d \in Deposits |-> times[d] + (IF d \in D THEN 1 ELSE 0)]
          /\ credited' = IF scan[s].backfill THEN credited ELSE credited \cup D
          /\ fallback' = fallback + gap
          /\ balance' = IF scan[s].backfill \/ (D = {} /\ gap = 0) THEN balance
                        ELSE scan[s].seen + gap + MapThenSumSet(LAMBDA d : Amount[d], D)
          /\ checkpoint' = IF Advance(s, ok, checked) THEN scan[s].upto ELSE checkpoint
          /\ vouched' = IF scan[s].backfill THEN vouched \cup 0 .. scan[s].upto
                        ELSE IF checked THEN vouched \cup scan[s].from .. scan[s].upto ELSE vouched
          /\ UNCHANGED baseline
  /\ End(s)

(* The answers for one contract: found and todo move together. *)
Note(s, c, D, ok) ==
  scan' = [scan EXCEPT ![s].todo = @ \ {c}, ![s].found = @ \cup D, ![s].reliable = @ /\ ok]

(* The logs of one contract, with others still to come *)
ReadLogs(s, c, D, ok) ==
  /\ pc[s] = "logs"
  /\ c \in scan[s].todo /\ scan[s].todo # {c}
  /\ Answered(s, c, D, ok)
  /\ Note(s, c, D, ok)
  /\ UNCHANGED <<chain, balance, rows, cursor, pc, bounds>>

(* The last logs, all reliable or of a backfill: the scan commits. *)
FinishLogs(s, c, D, ok) ==
  /\ pc[s] = "logs"
  /\ scan[s].todo = {c}
  /\ Answered(s, c, D, ok)
  /\ scan[s].backfill \/ (scan[s].reliable /\ ok)
  /\ Settle(s, scan[s].found \cup D, 0, scan[s].reliable /\ ok, FALSE)
  /\ UNCHANGED <<chain, bounds>>

(* The last logs, and some were not answered: the balance is asked for. *)
AskBalance(s, c, D, ok) ==
  /\ pc[s] = "logs"
  /\ scan[s].todo = {c}
  /\ Answered(s, c, D, ok)
  /\ ~ scan[s].backfill /\ ~ (scan[s].reliable /\ ok)
  /\ Note(s, c, D, ok)
  /\ Goto(s, "balance")
  /\ UNCHANGED <<chain, balance, rows, cursor, bounds>>

(* The gap is credited.  The session does not flush before its queries, so *)
(* the sum does not see the transfers this scan has just added.            *)
CheckBalance(s) ==
  /\ pc[s] = "balance"
  /\ Settle(s, scan[s].found, Gap(s), FALSE, TRUE)
  /\ UNCHANGED <<chain, bounds>>

(* The balance cannot be read either: what was found is kept. *)
BalanceUnknown(s) ==
  /\ pc[s] = "balance"
  /\ Settle(s, scan[s].found, 0, FALSE, FALSE)
  /\ UNCHANGED <<chain, bounds>>

----------------------------------------------------------------------------
(* Admin endpoints (routers/admin_credit.py), and restarts *)

RewindCheckpoint(n) ==
  /\ edits < MaxEdits /\ edits' = edits + 1
  /\ checkpoint # None
  /\ n \in 0 .. checkpoint /\ checkpoint' = n
  /\ UNCHANGED <<chain, balance, rows, baseline, vouched, pc, scan, crashes>>

SetChainBaseline(n) ==
  /\ edits < MaxEdits /\ edits' = edits + 1
  /\ checkpoint # None
  /\ baseline' = n
  /\ UNCHANGED <<chain, balance, rows, checkpoint, vouched, pc, scan, crashes>>

FixDepositAmount(d, n) ==
  /\ edits < MaxEdits /\ edits' = edits + 1
  /\ recorded[d] # 0
  /\ recorded' = [recorded EXCEPT ![d] = n]
  /\ balance' = IF d \in credited THEN balance + n - recorded[d] ELSE balance
  /\ UNCHANGED <<chain, credited, fallback, times, cursor, pc, scan, crashes>>

(* The same for the row of a balance check *)
FixFallbackAmount(n) ==
  /\ edits < MaxEdits /\ edits' = edits + 1
  /\ fallback # 0
  /\ fallback' = n
  /\ balance' = balance + n - fallback
  /\ UNCHANGED <<chain, recorded, credited, times, cursor, pc, scan, crashes>>

(* Nothing of a scan survives. *)
Crash ==
  /\ crashes < MaxCrashes /\ crashes' = crashes + 1
  /\ pc' = [s \in Scanners |-> IF s = monitor THEN "idle"
                               ELSE IF pc[s] = "idle" THEN "idle" ELSE "done"]
  /\ scan' = [s \in Scanners |-> NoScan]
  /\ UNCHANGED <<chain, balance, rows, cursor, edits>>

----------------------------------------------------------------------------

ScanStep(s) ==
  \/ Start(s) \/ NothingNew(s) \/ ReadHead(s) \/ CheckBalance(s) \/ BalanceUnknown(s)
  \/ \E c \in Contracts, D \in SUBSET Deposits, ok \in BOOLEAN :
       ReadLogs(s, c, D, ok) \/ FinishLogs(s, c, D, ok) \/ AskBalance(s, c, D, ok)

AdminStep ==
  \/ checkpoint # None /\ \E n \in 0 .. checkpoint : RewindCheckpoint(n)
  \/ \E n \in Baselines : SetChainBaseline(n)
  \/ \E n \in Corrections : FixFallbackAmount(n) \/ \E d \in Deposits : FixDepositAmount(d, n)

Next ==
  \/ \E s \in Scanners : ScanStep(s)
  \/ \E d \in Deposits : Deposit(d)
  \/ \E n \in Sends : Send(n)
  \/ AdminStep
  \/ Crash

Spec == Init /\ [][Next]_vars

(* The monitor's loop never ends and every await of it returns (each RPC   *)
(* call times out); endpoints that are asked again and again at the same   *)
(* point of a scan are not all down every time.                            *)
Fairness ==
  /\ WF_vars(ScanStep(monitor))
  /\ SF_vars(ReadHead(monitor))
  /\ \A S \in (SUBSET Contracts) \ {{}} :
       SF_vars(/\ scan[monitor].todo = S /\ scan[monitor].reliable
               /\ \E c \in Contracts, D \in SUBSET Deposits :
                    ReadLogs(monitor, c, D, TRUE) \/ FinishLogs(monitor, c, D, TRUE))

FairSpec == Spec /\ Fairness

----------------------------------------------------------------------------
(* Properties that hold *)

(* Every variable holds what its column or local variable may hold. *)
TypeOK ==
  /\ head \in Nat /\ spent \in Nat
  /\ mined \in [Deposits -> Nat \cup {None}]
  /\ balance \in Int
  /\ recorded \in [Deposits -> Nat] /\ times \in [Deposits -> Nat]
  /\ credited \subseteq Deposits
  /\ fallback \in Nat
  /\ checkpoint \in Nat \cup {None} /\ baseline \in Nat
  /\ pc \in [Scanners -> {"idle", "head", "logs", "balance", "done"}]
  /\ scan \in [Scanners -> Scans]
  /\ vouched \subseteq Nat
  /\ edits \in Nat /\ crashes \in Nat

(* "A given on-chain transfer should never be recorded twice": whichever   *)
(* scans overlap, rewind or are repeated after a failure.                  *)
RecordedOnce == \A d \in Deposits : times[d] <= 1

(* Advancing the checkpoint never "silently marks an unscanned range as    *)
(* done, permanently hiding any deposit inside it": a deposit behind the   *)
(* checkpoint has its row, unless the range was only backfilled or taken   *)
(* from a balance check.                                                   *)
Hidden(d) == IsMined(d) /\ recorded[d] = 0 /\ mined[d] \notin vouched
NothingHidden ==
  checkpoint # None => \A d \in Deposits : Hidden(d) => mined[d] > checkpoint

(* "Steady-state is fully incremental and never misses anything": while    *)
(* endpoints answer now and then, every deposit ends up recorded, or in a  *)
(* range that was backfilled or reconciled by balance.                     *)
(* A scan that a rewind, a failure or a competing scan has set back does   *)
(* not get stuck there: the checkpoint passes every block of the chain.    *)
(* Every state on the way is of the right type.                            *)
DepositsAreFound ==
  /\ []TypeOK
  /\ \A d \in Deposits : IsMined(d) ~> recorded[d] # 0 \/ mined[d] \in vouched
  /\ \A n \in 1 .. Cardinality(Deposits) : head >= n ~> checkpoint # None /\ checkpoint >= n

----------------------------------------------------------------------------
(* A property the code's comments state and its behaviour refutes *)

(* Scans credit, and do not "double-credit": the rows add up to no more    *)
(* than the wallet ever received.                                          *)
CreditedAtMostReceived ==
  RowsCredited <= OnChain + spent
=============================================================================
