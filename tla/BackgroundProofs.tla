-------------------------- MODULE BackgroundProofs --------------------------
(***************************************************************************)
(* What DepositMonitor and Automation guarantee for every value of their   *)
(* constants: the loops that run beside the requests.                      *)
(*                                                                         *)
(* Deposits.  No transfer is recorded twice, and the checkpoint hides no   *)
(* deposit.  Whatever a scan has read of its range, a deposit in it that   *)
(* still has no row is among those it has found, as long as everything was *)
(* answered.  The amounts are sums over sets and take no part in it.       *)
(*                                                                         *)
(* Automation.  An alert that will trigger before the price moves again    *)
(* counts with those that have triggered (CrossingsOK), and so does a post *)
(* that is still to be counted with those that have been (SubsOK).         *)
(***************************************************************************)
EXTENDS DepositMonitor, Automation, FiniteSetTheorems, WellFoundedInduction, TLAPS

(* The locals of a scan, but for the amounts among them *)
IsScan(k) ==
  /\ DOMAIN k = {"seen", "base", "from", "upto", "backfill", "todo", "found", "reliable"}
  /\ k.from \in Nat /\ k.upto \in Nat
  /\ k.backfill \in BOOLEAN /\ k.reliable \in BOOLEAN
  /\ k.found \subseteq Deposits

(* The types the argument needs: those of TypeOK but for the amounts *)
ScanTypes ==
  /\ head \in Nat
  /\ mined \in [Deposits -> Nat \cup {None}]
  /\ recorded \in [Deposits -> Nat] /\ times \in [Deposits -> Nat]
  /\ checkpoint \in Nat \cup {None}
  /\ pc \in [Scanners -> {"idle", "head", "logs", "balance", "done"}]
  /\ scan = [s \in Scanners |-> scan[s]]
  /\ \A s \in Scanners : IsScan(scan[s])

(* Nothing is scanned before it is mined. *)
BehindHead ==
  /\ \A d \in Deposits : IsMined(d) => mined[d] <= head
  /\ checkpoint # None => checkpoint <= head
  /\ \A s \in Scanners : pc[s] \in {"logs", "balance"} =>
       scan[s].from <= scan[s].upto /\ scan[s].upto <= head

(* A row is written once and never deleted. *)
RowsOK == \A d \in Deposits : times[d] = IF recorded[d] = 0 THEN 0 ELSE 1

(* What a scan knows: before its range nothing is hidden, and in its range *)
(* what is hidden was found, once the logs of its contract are in.         *)
Knows(k) ==
  \A d \in Deposits : Hidden(d) =>
    /\ ~ k.backfill => mined[d] >= k.from
    /\ k.reliable /\ mined[d] \in k.from .. k.upto /\ Contract[d] \notin k.todo
       => d \in k.found

ScansOK == \A s \in Scanners : pc[s] \in {"logs", "balance"} => Knows(scan[s])

Inv == ScanTypes /\ BehindHead /\ RowsOK /\ ScansOK /\ NothingHidden

----------------------------------------------------------------------------

LEMMA NoneIsNoBlock == None \notin Nat /\ Lookback \in Nat
BY NumbersAssumption

LEMMA AmountsArePositive == \A d \in Deposits : Amount[d] \in Nat /\ Amount[d] # 0
BY DepositsAssumption

LEMMA NoScanIsScan == IsScan(NoScan)
BY DEF IsScan, NoScan

LEMMA InitInv == Init => Inv
<1> SUFFICES ASSUME Init PROVE Inv
  OBVIOUS
<1>1. ScanTypes
  BY NoScanIsScan DEF Init, ScanTypes
<1> QED
  BY <1>1, NoneIsNoBlock
  DEF Init, Inv, BehindHead, RowsOK, ScansOK, NothingHidden, Hidden, IsMined

(* A step that moves one scan on and writes nothing keeps the invariant if *)
(* the scan's new locals have the right form and it knows what it must.    *)
LEMMA ScanMoves ==
  ASSUME Inv, NEW s \in Scanners, NEW st \in {"idle", "head", "logs", "balance", "done"}, NEW k,
         pc' = [pc EXCEPT ![s] = st], scan' = [scan EXCEPT ![s] = k],
         UNCHANGED <<head, mined, recorded, times, checkpoint, vouched>>,
         IsScan(k),
         st \in {"logs", "balance"} => k.from <= k.upto /\ k.upto <= head /\ Knows(k)
  PROVE  Inv'
<1>1. /\ \A t \in Scanners : t # s => scan'[t] = scan[t] /\ pc'[t] = pc[t]
      /\ scan'[s] = k /\ pc'[s] = st
      /\ scan' = [t \in Scanners |-> scan'[t]]
  BY DEF Inv, ScanTypes
<1>2. \A d \in Deposits : Hidden(d)' <=> Hidden(d)
  BY DEF Hidden, IsMined
<1>3. ScanTypes'
  <2>1. \A t \in Scanners : IsScan(scan'[t])
    BY <1>1 DEF Inv, ScanTypes
  <2>2. \A t \in Scanners : IsScan(scan[t])'
    BY <2>1 DEF IsScan
  <2> QED
    BY <1>1, <2>2 DEF Inv, ScanTypes
<1>4. BehindHead'
  BY <1>1 DEF Inv, BehindHead, IsMined
<1>5. RowsOK'
  BY DEF Inv, RowsOK
<1>6. ScansOK'
  <2> SUFFICES ASSUME NEW t \in Scanners, pc'[t] \in {"logs", "balance"}
      PROVE  Knows(scan[t])'
    BY DEF ScansOK
  <2>1. Knows(scan'[t])
    BY <1>1 DEF Inv, ScansOK
  <2> QED
    BY <1>2, <2>1 DEF Knows
<1>7. NothingHidden'
  BY <1>2 DEF Inv, NothingHidden
<1> QED
  BY <1>3, <1>4, <1>5, <1>6, <1>7 DEF Inv

(* The scan ends or starts anew: nothing is known or needed. *)
LEMMA StartInv == ASSUME Inv, NEW s \in Scanners, Start(s) PROVE Inv'
<1> DEFINE k == [NoScan EXCEPT !.seen = balance]
<1>1. IsScan(k)
  BY DEF NoScan, IsScan
<1>2. pc' = [pc EXCEPT ![s] = "head"] /\ scan' = [scan EXCEPT ![s] = k]
      /\ UNCHANGED <<head, mined, recorded, times, checkpoint, vouched>>
  BY DEF Start, Goto, chain, rows, cursor
<1> HIDE DEF k
<1> QED
  BY <1>1, <1>2, ScanMoves

LEMMA NothingNewInv == ASSUME Inv, NEW s \in Scanners, NothingNew(s) PROVE Inv'
<1>1. PICK st \in {"idle", "done"} : pc' = [pc EXCEPT ![s] = st]
  BY DEF NothingNew, End, Goto
<1>2. scan' = [scan EXCEPT ![s] = NoScan]
      /\ UNCHANGED <<head, mined, recorded, times, checkpoint, vouched>>
  BY DEF NothingNew, End, chain, rows, cursor
<1> QED
  BY <1>1, <1>2, NoScanIsScan, ScanMoves

(* At the start of a range, nothing is hidden before it. *)
LEMMA ReadHeadInv == ASSUME Inv, NEW s \in Scanners, ReadHead(s) PROVE Inv'
<1> DEFINE k == [seen |-> scan[s].seen, base |-> baseline, from |-> FirstBlock, upto |-> head,
                 backfill |-> checkpoint = None,
                 todo |-> Contracts, found |-> {}, reliable |-> TRUE]
<1>1. pc' = [pc EXCEPT ![s] = "logs"] /\ scan' = [scan EXCEPT ![s] = k]
      /\ UNCHANGED <<head, mined, recorded, times, checkpoint, vouched>>
  BY DEF ReadHead, Goto, chain, rows, cursor
<1>2. FirstBlock \in Nat /\ FirstBlock <= head /\ head \in Nat
  BY NoneIsNoBlock DEF Inv, ScanTypes, FirstBlock, ReadHead
<1>3. IsScan(k)
  BY <1>2 DEF IsScan
<1>4. \A d \in Deposits : Hidden(d) =>
        /\ checkpoint # None => mined[d] >= FirstBlock
        /\ Contract[d] \in Contracts
  BY DepositsAssumption, NoneIsNoBlock
  DEF Inv, ScanTypes, NothingHidden, FirstBlock, Hidden, IsMined
<1>5. Knows(k)
  BY <1>4 DEF Knows
<1>6. k.from <= k.upto /\ k.upto <= head
  BY <1>2
<1> HIDE DEF k
<1> QED
  BY <1>1, <1>3, <1>5, <1>6, ScanMoves

(* A contract's answer: what it adds is what is hidden of this contract. *)
LEMMA NoteInv ==
  ASSUME Inv, NEW s \in Scanners, NEW c \in Contracts, NEW D \in SUBSET Deposits,
         NEW ok \in BOOLEAN, NEW st \in {"logs", "balance"},
         pc[s] = "logs", Answered(s, c, D, ok), Note(s, c, D, ok),
         pc' = [pc EXCEPT ![s] = st],
         UNCHANGED <<head, mined, recorded, times, checkpoint, vouched>>
  PROVE  Inv'
<1> DEFINE k == [scan[s] EXCEPT !.todo = scan[s].todo \ {c}, !.found = scan[s].found \cup D,
                                !.reliable = scan[s].reliable /\ ok]
<1>1. IsScan(scan[s]) /\ scan = [t \in Scanners |-> scan[t]]
  BY DEF Inv, ScanTypes
<1>2. scan' = [scan EXCEPT ![s] = k]
  BY <1>1 DEF Note
<1>3. /\ k.from = scan[s].from /\ k.upto = scan[s].upto /\ k.backfill = scan[s].backfill
      /\ k.todo = scan[s].todo \ {c} /\ k.found = scan[s].found \cup D
      /\ k.reliable = (scan[s].reliable /\ ok)
      /\ DOMAIN k = DOMAIN scan[s]
  BY <1>1 DEF IsScan
<1> HIDE DEF k
<1>4. IsScan(k) /\ k.from <= k.upto /\ k.upto <= head
  BY <1>1, <1>3 DEF Inv, BehindHead, IsScan
<1>5. Knows(k)
  <2>1. Knows(scan[s])
    BY DEF Inv, ScansOK
  <2> SUFFICES ASSUME NEW d \in Deposits, Hidden(d)
      PROVE  /\ ~ scan[s].backfill => mined[d] >= scan[s].from
             /\ /\ scan[s].reliable /\ ok
                /\ mined[d] \in scan[s].from .. scan[s].upto
                /\ Contract[d] \notin scan[s].todo \ {c}
                => d \in scan[s].found \cup D
    BY <1>1, <1>3 DEF Knows, IsScan
  <2>2. CASE Contract[d] = c
    BY <2>1, <2>2 DEF Answered, NewLogs, Hidden, Knows
  <2>3. CASE Contract[d] # c
    BY <2>1, <2>3 DEF Knows
  <2> QED
    BY <2>2, <2>3
<1> QED
  BY <1>2, <1>4, <1>5, ScanMoves

----------------------------------------------------------------------------
(* The commit *)

(* What is hidden after a commit was hidden before, is not among what was  *)
(* committed, and lies in no range the commit vouches for.                 *)
LEMMA SettleHides ==
  ASSUME Inv, NEW s \in Scanners, NEW D \in SUBSET Deposits, NEW gap, NEW ok, NEW checked,
         Settle(s, D, gap, ok, checked), ~ Conflict(s, D), UNCHANGED chain
  PROVE  /\ \A d \in Deposits : Hidden(d)' => Hidden(d) /\ d \notin D /\ mined[d] \notin vouched'
         /\ \A d \in Deposits : recorded'[d] = IF d \in D THEN Amount[d] ELSE recorded[d]
         /\ recorded' \in [Deposits -> Nat]
<1>1. /\ recorded' = [d \in Deposits |-> IF d \in D THEN Amount[d] ELSE recorded[d]]
      /\ vouched \subseteq vouched'
  BY DEF Settle
<1>2. recorded' \in [Deposits -> Nat]
  BY <1>1, AmountsArePositive DEF Inv, ScanTypes
<1> QED
  BY <1>1, <1>2, AmountsArePositive DEF Hidden, IsMined, chain, Inv, ScanTypes

(* A commit keeps the invariant if the checkpoint it moves hides nothing:  *)
(* if all was answered, whatever is still hidden in the range is in D.     *)
LEMMA SettleInv ==
  ASSUME Inv, NEW s \in Scanners, NEW D \in SUBSET Deposits, NEW gap,
         NEW ok \in BOOLEAN, NEW checked \in BOOLEAN,
         Settle(s, D, gap, ok, checked), UNCHANGED chain,
         pc[s] \in {"logs", "balance"},
         ok => \A d \in Deposits : Hidden(d) /\ mined[d] \in scan[s].from .. scan[s].upto => d \in D
  PROVE  Inv'
<1>1. PICK st \in {"idle", "done"} : pc' = [pc EXCEPT ![s] = st]
  BY DEF Settle, End, Goto
<1>2. scan' = [scan EXCEPT ![s] = NoScan]
  BY DEF Settle, End
<1>3. CASE Conflict(s, D)
  <2>1. UNCHANGED <<head, mined, recorded, times, checkpoint, vouched>>
    BY <1>3 DEF Settle, chain, rows, cursor
  <2> QED
    BY <1>1, <1>2, <2>1, NoScanIsScan, ScanMoves
<1>4. CASE ~ Conflict(s, D)
  <2>1. /\ \A d \in Deposits : Hidden(d)' => Hidden(d) /\ d \notin D /\ mined[d] \notin vouched'
        /\ \A d \in Deposits : recorded'[d] = IF d \in D THEN Amount[d] ELSE recorded[d]
        /\ recorded' \in [Deposits -> Nat]
    BY <1>4, SettleHides
  <2>2. UNCHANGED <<head, mined>>
    BY DEF chain
  <2>3. \A t \in Scanners : t # s => scan'[t] = scan[t] /\ pc'[t] = pc[t]
    BY <1>1, <1>2 DEF Inv, ScanTypes
  <2>4. pc'[s] = st /\ scan'[s] = NoScan /\ scan' = [t \in Scanners |-> scan'[t]]
    BY <1>1, <1>2 DEF Inv, ScanTypes
  <2>5. checkpoint' = IF Advance(s, ok, checked) THEN scan[s].upto ELSE checkpoint
    BY <1>4 DEF Settle
  <2>6. times' = [d \in Deposits |-> times[d] + (IF d \in D THEN 1 ELSE 0)]
    BY <1>4 DEF Settle
  <2>7. ScanTypes'
    <3>1. \A t \in Scanners : IsScan(scan[t])'
      <4>1. \A t \in Scanners : IsScan(scan'[t])
        BY <2>3, <2>4, NoScanIsScan DEF Inv, ScanTypes
      <4> QED
        BY <4>1 DEF IsScan
    <3>2. times' \in [Deposits -> Nat]
      BY <2>6 DEF Inv, ScanTypes
    <3>3. checkpoint' \in Nat \cup {None}
      BY <2>5 DEF Inv, ScanTypes, IsScan
    <3>4. pc' \in [Scanners -> {"idle", "head", "logs", "balance", "done"}]
      BY <1>1 DEF Inv, ScanTypes
    <3> QED
      BY <2>1, <2>2, <2>4, <3>1, <3>2, <3>3, <3>4 DEF Inv, ScanTypes
  <2>8. BehindHead'
    <3>1. scan[s].upto \in Nat /\ scan[s].upto <= head
      BY DEF Inv, ScanTypes, IsScan, BehindHead
    <3> QED
      BY <2>2, <2>3, <2>4, <2>5, <3>1, NoneIsNoBlock DEF Inv, BehindHead, IsMined
  <2>9. RowsOK'
    <3> SUFFICES ASSUME NEW d \in Deposits
        PROVE  times'[d] = IF recorded'[d] = 0 THEN 0 ELSE 1
      BY DEF RowsOK
    <3>1. d \in D => recorded[d] = 0
      BY <1>4 DEF Conflict
    <3>2. times[d] = IF recorded[d] = 0 THEN 0 ELSE 1
      BY DEF Inv, RowsOK
    <3>3. times'[d] = times[d] + (IF d \in D THEN 1 ELSE 0)
      BY <2>6
    <3> QED
      BY <2>1, <3>1, <3>2, <3>3, AmountsArePositive
  <2>10. ScansOK'
    <3> SUFFICES ASSUME NEW t \in Scanners, pc'[t] \in {"logs", "balance"}
        PROVE  Knows(scan[t])'
      BY DEF ScansOK
    <3>1. scan'[t] = scan[t] /\ Knows(scan[t])
      BY <2>3, <2>4 DEF Inv, ScansOK
    <3> QED
      BY <2>1, <2>2, <3>1 DEF Knows
  <2>11. NothingHidden'
    <3> SUFFICES ASSUME NEW d \in Deposits, Hidden(d)', checkpoint' # None
        PROVE  mined[d] > checkpoint'
      BY <2>2 DEF NothingHidden
    <3>1. Hidden(d) /\ d \notin D /\ mined[d] \notin vouched' /\ mined[d] \in Nat
      BY <2>1, NoneIsNoBlock DEF Hidden, IsMined, Inv, ScanTypes
    <3>2. scan[s].from \in Nat /\ scan[s].upto \in Nat /\ scan[s].backfill \in BOOLEAN
      BY DEF Inv, ScanTypes, IsScan
    <3>3. CASE ~ Advance(s, ok, checked)
      BY <2>5, <3>1, <3>3 DEF Inv, NothingHidden
    <3>4. CASE scan[s].backfill
      <4>1. vouched' = vouched \cup 0 .. scan[s].upto
        BY <1>4, <3>4 DEF Settle
      <4>2. checkpoint' = scan[s].upto
        BY <2>5, <3>4 DEF Advance
      <4> QED
        BY <3>1, <3>2, <4>1, <4>2
    <3>5. CASE ~ scan[s].backfill /\ Advance(s, ok, checked)
      <4>1. checkpoint' = scan[s].upto
        BY <2>5, <3>5
      <4>2. mined[d] >= scan[s].from
        BY <3>1, <3>5 DEF Inv, ScansOK, Knows
      <4>3. mined[d] \notin scan[s].from .. scan[s].upto
        <5>1. CASE ok
          BY <3>1, <5>1
        <5>2. CASE checked
          <6>1. vouched' = vouched \cup scan[s].from .. scan[s].upto
            BY <1>4, <3>5, <5>2 DEF Settle
          <6> QED
            BY <3>1, <6>1
        <5> QED
          BY <3>5, <5>1, <5>2 DEF Advance
      <4> QED
        BY <3>1, <3>2, <4>1, <4>2, <4>3
    <3> QED
      BY <3>2, <3>3, <3>4, <3>5
  <2> QED
    BY <2>7, <2>8, <2>9, <2>10, <2>11 DEF Inv
<1> QED
  BY <1>3, <1>4

(* The last answer completes the range. *)
LEMMA FinishLogsInv ==
  ASSUME Inv, NEW s \in Scanners, NEW c \in Contracts, NEW D \in SUBSET Deposits,
         NEW ok \in BOOLEAN, FinishLogs(s, c, D, ok)
  PROVE  Inv'
<1> DEFINE E == scan[s].found \cup D
           o == scan[s].reliable /\ ok
<1>1. E \in SUBSET Deposits /\ o \in BOOLEAN
  BY DEF Inv, ScanTypes, IsScan
<1>2. Settle(s, E, 0, o, FALSE) /\ UNCHANGED chain /\ pc[s] = "logs"
  BY DEF FinishLogs
<1>3. o => \A d \in Deposits : Hidden(d) /\ mined[d] \in scan[s].from .. scan[s].upto => d \in E
  <2> SUFFICES ASSUME o, NEW d \in Deposits, Hidden(d),
                      mined[d] \in scan[s].from .. scan[s].upto
      PROVE  d \in E
    OBVIOUS
  <2>1. CASE Contract[d] = c
    BY <2>1 DEF FinishLogs, Answered, NewLogs, Hidden
  <2>2. CASE Contract[d] # c
    <3>1. Contract[d] \notin scan[s].todo
      BY <2>2 DEF FinishLogs
    <3> QED
      BY <1>2, <3>1 DEF Inv, ScansOK, Knows
  <2> QED
    BY <2>1, <2>2
<1> HIDE DEF E, o
<1> QED
  BY <1>1, <1>2, <1>3, SettleInv

(* A balance check vouches for the range; without one it is not marked. *)
LEMMA BalanceInv ==
  ASSUME Inv, NEW s \in Scanners, CheckBalance(s) \/ BalanceUnknown(s)
  PROVE  Inv'
<1>1. scan[s].found \in SUBSET Deposits
  BY DEF Inv, ScanTypes, IsScan
<1>2. CASE CheckBalance(s)
  BY <1>1, <1>2, SettleInv DEF CheckBalance
<1>3. CASE BalanceUnknown(s)
  BY <1>1, <1>3, SettleInv DEF BalanceUnknown
<1> QED
  BY <1>2, <1>3

----------------------------------------------------------------------------
(* Everything else *)

(* A new block is behind no checkpoint and in no range under way. *)
LEMMA DepositInv == ASSUME Inv, NEW d \in Deposits, Deposit(d) PROVE Inv'
<1>1. /\ head' = head + 1 /\ mined' = [mined EXCEPT ![d] = head + 1]
      /\ UNCHANGED <<recorded, times, checkpoint, vouched, pc, scan>>
  BY DEF Deposit, rows, cursor
<1>2. head \in Nat
  BY DEF Inv, ScanTypes
<1>3. mined'[d] = head + 1 /\ \A e \in Deposits : e # d => mined'[e] = mined[e]
  BY <1>1 DEF Inv, ScanTypes
<1>4. \A e \in Deposits : Hidden(e)' => e = d \/ Hidden(e)
  BY <1>1, <1>3 DEF Hidden, IsMined
<1>5. ScanTypes'
  <2>1. \A s \in Scanners : IsScan(scan[s])'
    BY <1>1 DEF IsScan, Inv, ScanTypes
  <2> QED
    BY <1>1, <1>2, <2>1 DEF Inv, ScanTypes
<1>6. BehindHead'
  <2>1. \A e \in Deposits : IsMined(e)' => mined'[e] <= head'
    BY <1>1, <1>2, <1>3 DEF Inv, ScanTypes, BehindHead, IsMined
  <2>2. checkpoint' # None => checkpoint' <= head'
    BY <1>1, <1>2 DEF Inv, ScanTypes, BehindHead
  <2>3. \A s \in Scanners : scan[s].upto \in Nat
    BY DEF Inv, ScanTypes, IsScan
  <2> QED
    BY <1>1, <1>2, <2>1, <2>2, <2>3 DEF Inv, BehindHead
<1>7. RowsOK'
  BY <1>1 DEF Inv, RowsOK
<1>8. ScansOK'
  <2> SUFFICES ASSUME NEW t \in Scanners, pc[t] \in {"logs", "balance"}
      PROVE  Knows(scan[t])'
    BY <1>1 DEF ScansOK
  <2>1. /\ scan[t].from \in Nat /\ scan[t].upto \in Nat
        /\ scan[t].from <= scan[t].upto /\ scan[t].upto <= head
        /\ Knows(scan[t])
    BY DEF Inv, ScanTypes, IsScan, BehindHead, ScansOK
  <2> SUFFICES ASSUME NEW e \in Deposits, Hidden(e)'
      PROVE  /\ ~ scan[t].backfill => mined'[e] >= scan[t].from
             /\ /\ scan[t].reliable
                /\ mined'[e] \in scan[t].from .. scan[t].upto
                /\ Contract[e] \notin scan[t].todo
                => e \in scan[t].found
    BY <1>1 DEF Knows
  <2>2. CASE e = d
    BY <1>2, <1>3, <2>1, <2>2
  <2>3. CASE e # d
    BY <1>3, <1>4, <2>1, <2>3 DEF Knows
  <2> QED
    BY <2>2, <2>3
<1>9. NothingHidden'
  <2> SUFFICES ASSUME checkpoint # None, NEW e \in Deposits, Hidden(e)'
      PROVE  mined'[e] > checkpoint
    BY <1>1 DEF NothingHidden
  <2>1. CASE e = d
    BY <1>2, <1>3, <2>1 DEF Inv, ScanTypes, BehindHead
  <2>2. CASE e # d
    BY <1>3, <1>4, <2>2 DEF Inv, NothingHidden
  <2> QED
    BY <2>1, <2>2
<1> QED
  BY <1>5, <1>6, <1>7, <1>8, <1>9 DEF Inv

(* What writes no new row, ends no scan and at most rewinds the checkpoint *)
LEMMA Harmless ==
  ASSUME Inv, UNCHANGED <<mined, times, vouched, pc, scan>>,
         head' \in Nat, head' >= head, recorded' \in [Deposits -> Nat],
         \A d \in Deposits : recorded'[d] = 0 <=> recorded[d] = 0,
         \/ checkpoint' = checkpoint
         \/ checkpoint \in Nat /\ checkpoint' \in Nat /\ checkpoint' <= checkpoint
  PROVE  Inv'
<1>1. \A d \in Deposits : (Hidden(d)' <=> Hidden(d)) /\ (Hidden(d) => mined[d] \in Nat)
  BY DEF Hidden, IsMined, Inv, ScanTypes
<1>2. ScanTypes'
  <2>1. \A s \in Scanners : IsScan(scan[s])'
    BY DEF IsScan, Inv, ScanTypes
  <2> QED
    BY <2>1 DEF Inv, ScanTypes
<1>3. BehindHead'
  <2>1. \A d \in Deposits : IsMined(d) => mined[d] \in Nat /\ mined[d] <= head
    BY DEF Inv, ScanTypes, BehindHead, IsMined
  <2>2. \A s \in Scanners : pc[s] \in {"logs", "balance"} =>
          /\ scan[s].from <= scan[s].upto /\ scan[s].upto <= head
          /\ scan[s].upto \in Nat /\ scan[s].from \in Nat
    BY DEF Inv, ScanTypes, BehindHead, IsScan
  <2>3. checkpoint' # None => checkpoint' <= head'
    BY NoneIsNoBlock DEF Inv, ScanTypes, BehindHead
  <2>4. head \in Nat
    BY DEF Inv, ScanTypes
  <2> QED
    BY <2>1, <2>2, <2>3, <2>4 DEF BehindHead, IsMined
<1>4. RowsOK'
  BY DEF Inv, RowsOK
<1>5. ScansOK'
  <2>1. \A s \in Scanners : pc[s] \in {"logs", "balance"} => Knows(scan[s])
    BY DEF Inv, ScansOK
  <2>2. \A s \in Scanners : Knows(scan[s]) => Knows(scan[s])'
    BY <1>1 DEF Knows
  <2> QED
    BY <2>1, <2>2 DEF ScansOK
<1>6. NothingHidden'
  <2>1. CASE checkpoint' = checkpoint
    BY <1>1, <2>1 DEF Inv, NothingHidden
  <2>2. CASE checkpoint \in Nat /\ checkpoint' \in Nat /\ checkpoint' <= checkpoint
    BY <1>1, <2>2, NoneIsNoBlock DEF Inv, NothingHidden
  <2> QED
    BY <2>1, <2>2
<1> QED
  BY <1>2, <1>3, <1>4, <1>5, <1>6 DEF Inv

LEMMA SendInv == ASSUME Inv, NEW n \in Sends, Send(n) PROVE Inv'
<1>1. head' = head + 1 /\ UNCHANGED <<mined, recorded, times, checkpoint, vouched, pc, scan>>
  BY DEF Send, rows, cursor
<1>2. head \in Nat /\ recorded \in [Deposits -> Nat]
  BY DEF Inv, ScanTypes
<1> QED
  BY <1>1, <1>2, Harmless

(* An admin only moves a checkpoint back, and empties no row. *)
LEMMA AdminInv == ASSUME Inv, AdminStep PROVE Inv'
<1>1. head \in Nat /\ recorded \in [Deposits -> Nat] /\ checkpoint \in Nat \cup {None}
  BY DEF Inv, ScanTypes
<1>2. ASSUME NEW n \in 0 .. checkpoint, checkpoint # None, RewindCheckpoint(n) PROVE Inv'
  <2>1. checkpoint' = n /\ UNCHANGED <<head, mined, recorded, times, vouched, pc, scan>>
    BY <1>2 DEF RewindCheckpoint, chain, rows
  <2>2. checkpoint \in Nat /\ n \in Nat /\ n <= checkpoint
    BY <1>1, <1>2
  <2> QED
    BY <1>1, <2>1, <2>2, Harmless
<1>3. ASSUME NEW n, SetChainBaseline(n) \/ FixFallbackAmount(n) PROVE Inv'
  <2>1. UNCHANGED <<head, mined, recorded, times, checkpoint, vouched, pc, scan>>
    BY <1>3 DEF SetChainBaseline, FixFallbackAmount, chain, rows, cursor
  <2> QED
    BY <1>1, <2>1, Harmless
<1>4. ASSUME NEW n \in Corrections, NEW d \in Deposits, FixDepositAmount(d, n) PROVE Inv'
  <2>1. /\ recorded' = [recorded EXCEPT ![d] = n] /\ recorded[d] # 0
        /\ UNCHANGED <<head, mined, times, checkpoint, vouched, pc, scan>>
    BY <1>4 DEF FixDepositAmount, chain, cursor
  <2>2. n \in Nat /\ n # 0
    BY NumbersAssumption
  <2>3. recorded' \in [Deposits -> Nat] /\ \A e \in Deposits : recorded'[e] = 0 <=> recorded[e] = 0
    BY <1>1, <2>1, <2>2
  <2> QED
    BY <1>1, <2>1, <2>3, Harmless
<1> QED
  BY <1>2, <1>3, <1>4 DEF AdminStep

LEMMA CrashInv == ASSUME Inv, Crash PROVE Inv'
<1>1. /\ \A s \in Scanners : pc'[s] \in {"idle", "done"} /\ scan'[s] = NoScan
      /\ pc' \in [Scanners -> {"idle", "head", "logs", "balance", "done"}]
      /\ scan' = [s \in Scanners |-> scan'[s]]
      /\ UNCHANGED <<head, mined, recorded, times, checkpoint, vouched>>
  BY DEF Crash, chain, rows, cursor
<1>2. \A d \in Deposits : Hidden(d)' <=> Hidden(d)
  BY <1>1 DEF Hidden, IsMined
<1>3. ScanTypes'
  <2>1. \A s \in Scanners : IsScan(scan[s])'
    BY <1>1, NoScanIsScan DEF IsScan
  <2> QED
    BY <1>1, <2>1 DEF Inv, ScanTypes
<1>4. BehindHead'
  BY <1>1 DEF Inv, BehindHead, IsMined
<1>5. RowsOK' /\ ScansOK'
  BY <1>1 DEF Inv, RowsOK, ScansOK
<1>6. NothingHidden'
  BY <1>1, <1>2 DEF Inv, NothingHidden
<1> QED
  BY <1>3, <1>4, <1>5, <1>6 DEF Inv

LEMMA NextInv == ASSUME Inv, [Next]_vars PROVE Inv'
<1>1. CASE UNCHANGED vars
  <2>1. UNCHANGED <<head, mined, recorded, times, checkpoint, vouched, pc, scan>>
    BY <1>1 DEF vars, chain, rows, cursor
  <2>2. head \in Nat /\ recorded \in [Deposits -> Nat]
    BY DEF Inv, ScanTypes
  <2> QED
    BY <2>1, <2>2, Harmless
<1>2. ASSUME NEW s \in Scanners, NEW c \in Contracts, NEW D \in SUBSET Deposits,
             NEW ok \in BOOLEAN, ReadLogs(s, c, D, ok)
      PROVE  Inv'
  <2>1. pc' = [pc EXCEPT ![s] = "logs"]
    BY <1>2 DEF ReadLogs, Inv, ScanTypes
  <2>2. /\ pc[s] = "logs" /\ Answered(s, c, D, ok) /\ Note(s, c, D, ok)
        /\ UNCHANGED <<head, mined, recorded, times, checkpoint, vouched>>
    BY <1>2 DEF ReadLogs, chain, rows, cursor
  <2> QED
    BY <2>1, <2>2, NoteInv
<1>3. ASSUME NEW s \in Scanners, NEW c \in Contracts, NEW D \in SUBSET Deposits,
             NEW ok \in BOOLEAN, AskBalance(s, c, D, ok)
      PROVE  Inv'
  <2>1. /\ pc[s] = "logs" /\ Answered(s, c, D, ok) /\ Note(s, c, D, ok)
        /\ pc' = [pc EXCEPT ![s] = "balance"]
        /\ UNCHANGED <<head, mined, recorded, times, checkpoint, vouched>>
    BY <1>3 DEF AskBalance, Goto, chain, rows, cursor
  <2> QED
    BY <2>1, NoteInv
<1>4. ASSUME NEW s \in Scanners, ScanStep(s) PROVE Inv'
  BY <1>2, <1>3, <1>4, StartInv, NothingNewInv, ReadHeadInv, BalanceInv, FinishLogsInv
  DEF ScanStep
<1> QED
  BY <1>1, <1>4, DepositInv, SendInv, AdminInv, CrashInv DEF Next

THEOREM Invariance == Spec => []Inv
<1>1. Inv /\ [Next]_vars => Inv'
  BY NextInv
<1> QED
  BY <1>1, InitInv, PTL DEF Spec

----------------------------------------------------------------------------
(* Theorems about the specification *)

(* No transfer is recorded twice, whichever scans overlap. *)
THEOREM TransfersAreRecordedOnce == Spec => []RecordedOnce
<1>1. Inv => RecordedOnce
  BY DEF Inv, RowsOK, RecordedOnce
<1> QED
  BY <1>1, Invariance, PTL

(* The checkpoint never passes a deposit without a row, unless its block   *)
(* was backfilled or reconciled by a balance check.                        *)
THEOREM CheckpointHidesNothing == Spec => []NothingHidden
<1>1. Inv => NothingHidden
  BY DEF Inv
<1> QED
  BY <1>1, Invariance, PTL

----------------------------------------------------------------------------

RowType     == [there : BOOLEAN, active : BOOLEAN, ok : Nat, failed : Nat]
States      == {"none", "no", "met"}
SessionType ==
  [subs : [Subs -> RowType], event : Events \cup {"none"}, todo : SUBSET Subs,
   at : Subs \cup {0}, alerts : [Alerts -> States], prices : SUBSET Alerts, cur : Nat]

RuleTypes == AutomationTypeOK /\ session \in [Senders -> SessionType]

(* A copy of the subscriptions that counts no more deliveries than were    *)
(* begun, those posted and not yet counted among them, and none of whose   *)
(* quiet ones is active                                                    *)
CopyOK(subs, posted) ==
  \A s \in Subs :
    /\ subs[s].there => sub[s].there
    /\ subs[s].active => subs[s].there
    /\ s \in quiet => ~ subs[s].active
    /\ subs[s].ok + subs[s].failed + (IF s \in posted THEN 1 ELSE 0) <= posts[s]

Posting(p) == IF step[p] = "post" THEN {session[p].at} ELSE {}

(* The table and the copies the sessions have of it, where what is posted  *)
(* and not yet answered is still to be counted                             *)
SubsOK ==
  /\ CopyOK(sub, {})
  /\ \A s \in quiet : sub[s].there
  /\ \A p \in Senders : /\ CopyOK(session[p].subs, Posting(p))
                        /\ step[p] = "post" => session[p].subs[session[p].at].active

(* What a pass has loaded is in the table, and still so before prices.     *)
(* What it is triggering has crossed its threshold; requests trigger none. *)
PassOK ==
  /\ \A p \in Senders \ {loop} : session[p].cur = 0
  /\ \A a \in Alerts : session[loop].alerts[a] # "none" =>
       alert[a] # "none" /\ (step[loop] = "prices" => session[loop].alerts[a] = alert[a])
  /\ step[loop] = "prices" => session[loop].cur = 0
  /\ step[loop] = "post" =>
         /\ session[loop].cur \in Alerts \cap session[loop].prices
         /\ session[loop].alerts[session[loop].cur] = "no"

(* The alert triggers before the price moves again: in the pass x, or in a *)
(* later one, which will find it as x leaves it.                           *)
WillBe(x, a)   == IF x.alerts[a] # "none" THEN Checked(x, a) ELSE alert[a]
WillFire(x, a) == \/ a > x.cur /\ x.alerts[a] = "no" /\ a \in x.prices
                  \/ WillBe(x, a) = "no" /\ a \in beyond
Owing(a) ==
  IF step[loop] \in {"walk", "post"}
  THEN WillFire(session[loop], a) \/ (step[loop] = "post" /\ a = session[loop].cur)
  ELSE alert[a] = "no" /\ a \in beyond

CrossingsOK ==
  \A a \in Alerts : fired[a] + (IF Owing(a) THEN 1 ELSE 0) <= rises[a] + restarts

RulesInv == RuleTypes /\ SubsOK /\ PassOK /\ CrossingsOK

----------------------------------------------------------------------------

NatOrder == {xy \in Nat \X Nat : xy[1] < xy[2]}

LEMMA LowestIs ==
  ASSUME NEW S \in SUBSET Nat, S # {}
  PROVE  Min(S) \in S /\ \A y \in S : Min(S) <= y
<1>1. IsWellFoundedOn(NatOrder, Nat)
  BY NatLessThanWellFounded DEF OpToRel, NatOrder
<1>2. PICK x \in S : \A y \in S : ~ (<<y, x>> \in NatOrder)
  BY <1>1, WFMin
<1>3. \A y \in S : x <= y
  <2> SUFFICES ASSUME NEW y \in S PROVE ~ (y < x)
    OBVIOUS
  <2>1. y < x => <<y, x>> \in NatOrder
    BY DEF NatOrder
  <2> QED BY <1>2, <2>1
<1> QED BY <1>3 DEF Min

LEMMA RuleFields ==
  ASSUME RulesInv
  PROVE  /\ \A x \in SessionType : /\ x.subs \in [Subs -> RowType] /\ x.event \in Events \cup {"none"}
                                   /\ x.todo \subseteq Subs /\ x.alerts \in [Alerts -> States]
                                   /\ x.prices \subseteq Alerts /\ x.cur \in Nat
         /\ sub \in [Subs -> RowType] /\ session \in [Senders -> SessionType]
         /\ alert \in [Alerts -> States] /\ fired \in [Alerts -> Nat] /\ rises \in [Alerts -> Nat]
         /\ posts \in [Subs -> Nat] /\ restarts \in Nat /\ moves \in Nat
         /\ step \in [Senders -> {"idle", "prices", "walk", "post", "done"}]
         /\ beyond \subseteq Alerts /\ quiet \subseteq Subs
         /\ NoSub \in RowType /\ NoSession \in SessionType
         /\ loop \in Senders
<1>1. \A x \in SessionType : /\ x.subs \in [Subs -> RowType] /\ x.event \in Events \cup {"none"}
                             /\ x.todo \subseteq Subs /\ x.alerts \in [Alerts -> States]
                             /\ x.prices \subseteq Alerts /\ x.cur \in Nat
  BY DEF SessionType
<1>2. /\ sub \in [Subs -> RowType] /\ session \in [Senders -> SessionType]
      /\ alert \in [Alerts -> States] /\ fired \in [Alerts -> Nat] /\ rises \in [Alerts -> Nat]
      /\ posts \in [Subs -> Nat] /\ restarts \in Nat /\ moves \in Nat
      /\ step \in [Senders -> {"idle", "prices", "walk", "post", "done"}]
      /\ beyond \subseteq Alerts /\ quiet \subseteq Subs
  BY DEF RulesInv, RuleTypes, AutomationTypeOK, RowType, States
<1>3. NoSub \in RowType
  BY DEF NoSub, RowType
<1>4. NoSession \in SessionType
  BY <1>3 DEF NoSession, SessionType, States
<1> QED BY <1>1, <1>2, <1>3, <1>4 DEF Senders

(* A dispatch posts to one more subscription, or commits. *)
PostsTo(p, x, s) ==
  /\ x.subs[s].active
  /\ step' = [step EXCEPT ![p] = "post"]
  /\ session' = [session EXCEPT ![p] = [x EXCEPT !.at = s, !.todo = {r \in x.todo : r > s}]]
  /\ posts' = [posts EXCEPT ![s] = @ + 1]
  /\ UNCHANGED <<sub, alert, fired>>

EndsWith(p, x) ==
  /\ Flush(x)
  /\ step' = [step EXCEPT ![p] = IF p = loop THEN "walk" ELSE "done"]
  /\ session' = [session EXCEPT ![p] =
       IF p = loop THEN [NoSession EXCEPT !.alerts = x.alerts, !.prices = x.prices, !.cur = x.cur]
                   ELSE NoSession]
  /\ posts' = posts

LEMMA DispatchIs ==
  ASSUME NEW p, NEW x, x.todo \subseteq Subs, Proceed(p, x)
  PROVE  EndsWith(p, x) \/ \E s \in x.todo : PostsTo(p, x, s)
<1> DEFINE open == {s \in x.todo : Posted(x, s)}
           n == Min(open)
<1>1. CASE open = {}
  BY <1>1 DEF Proceed, EndsWith
<1>2. CASE open # {}
  <2>1. open \in SUBSET Nat
    BY OrderAssumption
  <2>2. n \in x.todo /\ x.subs[n].active
    BY <1>2, <2>1, LowestIs DEF Posted
  <2> HIDE DEF n
  <2>3. /\ step' = [step EXCEPT ![p] = "post"]
        /\ session' = [session EXCEPT ![p] = [x EXCEPT !.at = n, !.todo = {s \in x.todo : s > n}]]
        /\ posts' = [posts EXCEPT ![n] = @ + 1]
        /\ UNCHANGED <<sub, alert, fired>>
    BY <1>2 DEF Proceed, tables, n
  <2> QED BY <2>2, <2>3 DEF PostsTo
<1> QED BY <1>1, <1>2

(* x is a session that may go on: with what it has loaded, the quiet stay  *)
(* quiet and no more is counted than was begun; if it is the pass's, what  *)
(* it triggers next has crossed its threshold.                             *)
Ready(p, x) ==
  /\ x \in SessionType /\ CopyOK(x.subs, {})
  /\ p # loop => x.cur = 0
  /\ p = loop =>
       /\ x.cur \in Alerts /\ x.cur \in x.prices /\ x.alerts[x.cur] = "no"
       /\ \A a \in Alerts : x.alerts[a] # "none" => alert[a] # "none"
       /\ \A a \in Alerts :
            fired[a] + (IF WillFire(x, a) \/ a = x.cur THEN 1 ELSE 0) <= rises[a] + restarts

LEMMA PostHolds ==
  ASSUME RulesInv, NEW p \in Senders, NEW x, Ready(p, x), NEW s \in x.todo, PostsTo(p, x, s),
         UNCHANGED <<beyond, rises, quiet, moves, restarts>>
  PROVE  RulesInv'
<1>1. PICK z : z = [x EXCEPT !.at = s, !.todo = {r \in x.todo : r > s}]
  OBVIOUS
<1>2. /\ x \in SessionType /\ s \in Subs /\ x.subs[s].active
      /\ step' = [step EXCEPT ![p] = "post"] /\ session' = [session EXCEPT ![p] = z]
      /\ posts' = [posts EXCEPT ![s] = @ + 1]
      /\ UNCHANGED <<sub, alert, fired, beyond, rises, quiet, moves, restarts>>
  BY <1>1, RuleFields DEF Ready, PostsTo
<1>3. /\ z.subs = x.subs /\ z.event = x.event /\ z.at = s /\ z.alerts = x.alerts /\ z.prices = x.prices
      /\ z.cur = x.cur /\ z \in SessionType
  BY <1>1, <1>2 DEF SessionType
<1>4. /\ \A q \in Senders : /\ step'[q] = (IF q = p THEN "post" ELSE step[q])
                            /\ session'[q] = (IF q = p THEN z ELSE session[q])
      /\ \A r \in Subs : posts'[r] = (IF r = s THEN posts[r] + 1 ELSE posts[r]) /\ posts[r] \in Nat
      /\ session' \in [Senders -> SessionType]
      /\ step' \in [Senders -> {"idle", "prices", "walk", "post", "done"}]
      /\ posts' \in [Subs -> Nat]
  BY <1>2, <1>3, RuleFields
<1>5. RuleTypes'
  <2>1. \A q \in Senders : /\ session'[q].subs \in [Subs -> RowType]
                           /\ session'[q].alerts \in [Alerts -> States]
                           /\ session'[q].event \in Events \cup {"none"}
    BY <1>4, RuleFields
  <2>2. \A q \in Senders : step'[q] = "post" => session'[q].at \in Subs
    BY <1>2, <1>3, <1>4 DEF RulesInv, RuleTypes, AutomationTypeOK
  <2> QED BY <1>2, <1>4, <2>1, <2>2 DEF RulesInv, RuleTypes, AutomationTypeOK, RowType, States
<1>6. SubsOK'
  <2>1. ASSUME NEW q \in Senders
        PROVE  CopyOK(session[q].subs, Posting(q))' /\ (step'[q] = "post" => session'[q].subs[session'[q].at].active)
    <3>1. CASE q = p
      <4>1. session'[q].subs = x.subs /\ Posting(q)' = {s} /\ session'[q].at = s
        BY <1>3, <1>4, <3>1 DEF Posting
      <4>2. \A r \in Subs : /\ x.subs[r].there => sub[r].there
                            /\ x.subs[r].active => x.subs[r].there
                            /\ r \in quiet => ~ x.subs[r].active
                            /\ x.subs[r].ok + x.subs[r].failed <= posts[r]
                            /\ x.subs[r].ok \in Nat /\ x.subs[r].failed \in Nat
        <5>1. \A r \in Subs : x.subs[r] \in RowType
          BY <1>2, RuleFields
        <5>2. CopyOK(x.subs, {})
          BY DEF Ready
        <5> QED BY <5>1, <5>2 DEF CopyOK, RowType
      <4> QED BY <1>2, <1>4, <4>1, <4>2 DEF CopyOK
    <3>2. CASE q # p
      <4>1. session'[q] = session[q] /\ Posting(q)' = Posting(q) /\ step'[q] = step[q]
        BY <1>4, <3>2 DEF Posting
      <4>2. CopyOK(session[q].subs, Posting(q)) /\ (step[q] = "post" => session[q].subs[session[q].at].active)
        BY DEF RulesInv, SubsOK
      <4>3. \A r \in Subs : session[q].subs[r].ok \in Nat /\ session[q].subs[r].failed \in Nat
        BY RuleFields DEF RowType
      <4> QED BY <1>2, <1>4, <4>1, <4>2, <4>3 DEF CopyOK
    <3> QED BY <3>1, <3>2
  <2>2. CopyOK(sub, {})'
    <3>1. CopyOK(sub, {})
      BY DEF RulesInv, SubsOK
    <3>2. \A r \in Subs : sub[r].ok \in Nat /\ sub[r].failed \in Nat
      BY RuleFields DEF RowType
    <3> QED BY <1>2, <1>4, <3>1, <3>2 DEF CopyOK
  <2> QED BY <1>2, <2>1, <2>2 DEF RulesInv, SubsOK
<1>7. PassOK'
  BY <1>2, <1>3, <1>4, RuleFields DEF RulesInv, PassOK, Ready
<1>8. CrossingsOK'
  <2>1. CASE p = loop
    <3>1. \A a \in Alerts : Owing(a)' => WillFire(x, a) \/ a = x.cur
      BY <1>2, <1>3, <1>4, <2>1 DEF Owing, WillFire, WillBe, Checked
    <3>2. \A a \in Alerts : fired[a] + (IF WillFire(x, a) \/ a = x.cur THEN 1 ELSE 0) <= rises[a] + restarts
      BY <2>1 DEF Ready
    <3>3. \A a \in Alerts : fired[a] \in Nat /\ rises[a] \in Nat /\ restarts \in Nat
      BY RuleFields
    <3> QED BY <1>2, <3>1, <3>2, <3>3 DEF CrossingsOK
  <2>2. CASE p # loop
    <3>1. session'[loop] = session[loop] /\ step'[loop] = step[loop]
      BY <1>4, <2>2, RuleFields
    <3>2. \A a \in Alerts : Owing(a)' = Owing(a)
      BY <1>2, <3>1 DEF Owing, WillFire, WillBe, Checked
    <3> QED BY <1>2, <3>2 DEF RulesInv, CrossingsOK
  <2> QED BY <2>1, <2>2
<1> QED BY <1>5, <1>6, <1>7, <1>8 DEF RulesInv

LEMMA EndHolds ==
  ASSUME RulesInv, NEW p \in Senders, NEW x, Ready(p, x), EndsWith(p, x),
         UNCHANGED <<beyond, rises, quiet, moves, restarts>>
  PROVE  RulesInv'
<1>1. PICK z : z = IF p = loop THEN [NoSession EXCEPT !.alerts = x.alerts, !.prices = x.prices, !.cur = x.cur]
                              ELSE NoSession
  OBVIOUS
<1>2. PICK stage : stage = IF p = loop THEN "walk" ELSE "done"
  OBVIOUS
<1>3. /\ x \in SessionType /\ step' = [step EXCEPT ![p] = stage] /\ session' = [session EXCEPT ![p] = z]
      /\ sub' = [s \in Subs |-> IF Posted(x, s) THEN x.subs[s] ELSE sub[s]]
      /\ alert' = [a \in Alerts |-> IF a < x.cur /\ x.alerts[a] # "none" THEN x.alerts[a] ELSE alert[a]]
      /\ fired' = [a \in Alerts |-> fired[a] + (IF a = x.cur THEN 1 ELSE 0)]
      /\ UNCHANGED <<posts, beyond, rises, quiet, moves, restarts>>
  BY <1>1, <1>2 DEF Ready, EndsWith, Flush
<1>4. /\ z \in SessionType /\ z.subs = NoSession.subs
      /\ p = loop => z.alerts = x.alerts /\ z.prices = x.prices /\ z.cur = x.cur
      /\ p # loop => z.cur = 0
  <2>1. /\ x.alerts \in [Alerts -> States] /\ x.prices \subseteq Alerts /\ x.cur \in Nat
    BY <1>3, RuleFields
  <2>2. NoSession \in SessionType
    BY RuleFields
  <2>3. NoSession.cur = 0
    BY DEF NoSession
  <2> QED BY <1>1, <2>1, <2>2, <2>3 DEF SessionType
<1>5. /\ \A q \in Senders : /\ step'[q] = (IF q = p THEN stage ELSE step[q])
                            /\ session'[q] = (IF q = p THEN z ELSE session[q])
      /\ session' \in [Senders -> SessionType]
      /\ step' \in [Senders -> {"idle", "prices", "walk", "post", "done"}]
  BY <1>2, <1>3, <1>4, RuleFields
<1>6. /\ sub' \in [Subs -> RowType] /\ alert' \in [Alerts -> States] /\ fired' \in [Alerts -> Nat]
  BY <1>3, RuleFields
<1>7. Alerts \subseteq Nat \ {0}
  BY OrderAssumption
<1>8. \A s \in Subs : /\ sub[s].there => sub'[s].there
                      /\ sub'[s].active => sub'[s].there
                      /\ s \in quiet => ~ sub'[s].active
                      /\ sub'[s].ok + sub'[s].failed <= posts[s]
  <2> SUFFICES ASSUME NEW s \in Subs
               PROVE  /\ sub[s].there => sub'[s].there
                      /\ sub'[s].active => sub'[s].there
                      /\ s \in quiet => ~ sub'[s].active
                      /\ sub'[s].ok + sub'[s].failed <= posts[s]
    OBVIOUS
  <2>1. /\ x.subs[s].active => x.subs[s].there
        /\ s \in quiet => ~ x.subs[s].active
        /\ x.subs[s].ok + x.subs[s].failed <= posts[s]
    <3>1. CopyOK(x.subs, {}) /\ x.subs[s] \in RowType
      BY <1>3, RuleFields DEF Ready
    <3> QED BY <3>1 DEF CopyOK, RowType
  <2>2. /\ sub[s].active => sub[s].there
        /\ s \in quiet => ~ sub[s].active
        /\ sub[s].ok + sub[s].failed <= posts[s]
    <3>1. CopyOK(sub, {}) /\ sub[s] \in RowType
      BY RuleFields DEF RulesInv, SubsOK
    <3> QED BY <3>1 DEF CopyOK, RowType
  <2>3. CASE Posted(x, s)
    BY <1>3, <2>1, <2>3 DEF Posted
  <2>4. CASE ~ Posted(x, s)
    BY <1>3, <2>2, <2>4
  <2> QED BY <2>3, <2>4
<1>9. RuleTypes'
  <2>1. \A q \in Senders : /\ session'[q].subs \in [Subs -> RowType]
                           /\ session'[q].alerts \in [Alerts -> States]
                           /\ session'[q].event \in Events \cup {"none"}
    BY <1>5, RuleFields
  <2>2. \A q \in Senders : step'[q] = "post" => session'[q].at \in Subs
    BY <1>2, <1>3, <1>5 DEF RulesInv, RuleTypes, AutomationTypeOK
  <2> QED BY <1>3, <1>5, <1>6, <1>8, <2>1, <2>2 DEF RulesInv, RuleTypes, AutomationTypeOK, RowType, States
<1>10. SubsOK'
  <2>1. ASSUME NEW q \in Senders
        PROVE  CopyOK(session[q].subs, Posting(q))' /\ (step'[q] = "post" => session'[q].subs[session'[q].at].active)
    <3>1. CASE q = p
      <4>1. session'[q].subs = [s \in Subs |-> NoSub] /\ Posting(q)' = {} /\ step'[q] # "post"
        BY <1>2, <1>4, <1>5, <3>1 DEF Posting, NoSession
      <4>2. NoSub.there = FALSE /\ NoSub.active = FALSE /\ NoSub.ok = 0 /\ NoSub.failed = 0
        BY DEF NoSub
      <4>3. \A s \in Subs : posts'[s] \in Nat
        BY <1>3, RuleFields
      <4> QED BY <4>1, <4>2, <4>3 DEF CopyOK
    <3>2. CASE q # p
      <4>1. session'[q] = session[q] /\ Posting(q)' = Posting(q) /\ step'[q] = step[q]
        BY <1>5, <3>2 DEF Posting
      <4>2. CopyOK(session[q].subs, Posting(q)) /\ (step[q] = "post" => session[q].subs[session[q].at].active)
        BY DEF RulesInv, SubsOK
      <4> QED BY <1>3, <1>8, <4>1, <4>2 DEF CopyOK
    <3> QED BY <3>1, <3>2
  <2>2. CopyOK(sub, {})'
    <3>1. \A s \in Subs : sub'[s].ok \in Nat /\ sub'[s].failed \in Nat
      BY <1>6 DEF RowType
    <3> QED BY <1>3, <1>8, <3>1 DEF CopyOK
  <2>3. \A s \in quiet : sub'[s].there
    BY <1>8, RuleFields DEF RulesInv, SubsOK
  <2> QED BY <1>3, <2>1, <2>2, <2>3 DEF SubsOK
<1>11. \A a \in Alerts : /\ alert[a] # "none" => alert'[a] # "none"
                         /\ p # loop => alert'[a] = alert[a] /\ fired'[a] = fired[a]
                         /\ p = loop /\ x.alerts[a] = "none" => alert'[a] = alert[a]
  <2>1. p # loop => x.cur = 0
    BY DEF Ready
  <2> QED BY <1>3, <1>7, <2>1, RuleFields
<1>12. PassOK'
  <2>1. \A q \in Senders \ {loop} : session'[q].cur = 0
    BY <1>4, <1>5 DEF RulesInv, PassOK
  <2>2. CASE p = loop
    <3>1. session'[loop].alerts = x.alerts /\ step'[loop] = "walk"
      BY <1>2, <1>4, <1>5, <2>2
    <3>2. \A a \in Alerts : x.alerts[a] # "none" => alert'[a] # "none"
      BY <1>11, <2>2 DEF Ready
    <3> QED BY <2>1, <3>1, <3>2 DEF PassOK
  <2>3. CASE p # loop
    <3>1. session'[loop] = session[loop] /\ step'[loop] = step[loop]
      BY <1>5, <2>3, RuleFields
    <3> QED BY <1>11, <2>1, <2>3, <3>1 DEF RulesInv, PassOK
  <2> QED BY <2>2, <2>3
<1>13. CrossingsOK'
  <2> SUFFICES ASSUME NEW a \in Alerts
               PROVE  fired'[a] + (IF Owing(a)' THEN 1 ELSE 0) <= rises[a] + restarts
    BY <1>3 DEF CrossingsOK
  <2>1. fired[a] \in Nat /\ rises[a] \in Nat /\ restarts \in Nat
    BY RuleFields
  <2>2. CASE p = loop
    <3>1. /\ session'[loop].alerts = x.alerts /\ session'[loop].prices = x.prices /\ session'[loop].cur = x.cur
          /\ step'[loop] = "walk"
      BY <1>2, <1>4, <1>5, <2>2
    <3>2. Owing(a)' => WillFire(x, a) /\ a # x.cur
      <4>1. x.cur \in x.prices /\ x.alerts[x.cur] = "no" /\ x.cur \in Nat
        BY <1>3, <2>2, RuleFields DEF Ready
      <4> QED BY <1>3, <1>11, <2>2, <3>1, <4>1 DEF Owing, WillFire, WillBe, Checked
    <3>3. fired[a] + (IF WillFire(x, a) \/ a = x.cur THEN 1 ELSE 0) <= rises[a] + restarts
      BY <2>2 DEF Ready
    <3>4. fired'[a] = fired[a] + (IF a = x.cur THEN 1 ELSE 0)
      BY <1>3
    <3> QED BY <2>1, <3>2, <3>3, <3>4
  <2>3. CASE p # loop
    <3>1. session'[loop] = session[loop] /\ step'[loop] = step[loop]
      BY <1>5, <2>3, RuleFields
    <3>2. Owing(a)' = Owing(a)
      BY <1>3, <1>11, <2>3, <3>1 DEF Owing, WillFire, WillBe, Checked
    <3> QED BY <1>11, <2>3, <3>2 DEF RulesInv, CrossingsOK
  <2> QED BY <2>2, <2>3
<1> QED BY <1>9, <1>10, <1>12, <1>13 DEF RulesInv

LEMMA ProceedHolds ==
  ASSUME RulesInv, NEW p \in Senders, NEW x, Ready(p, x), Proceed(p, x),
         UNCHANGED <<beyond, rises, quiet, moves, restarts>>
  PROVE  RulesInv'
<1>1. x.todo \subseteq Subs
  BY RuleFields DEF Ready
<1>2. EndsWith(p, x) \/ \E s \in x.todo : PostsTo(p, x, s)
  BY <1>1, DispatchIs
<1> QED BY <1>2, PostHolds, EndHolds

LEMMA LoopUnmoved ==
  ASSUME RulesInv, UNCHANGED <<alert, session, step, beyond, fired, rises, restarts>>
  PROVE  PassOK' /\ CrossingsOK'
<1>1. PassOK'
  BY DEF RulesInv, PassOK
<1>2. \A a \in Alerts : Owing(a)' = Owing(a)
  BY DEF Owing, WillFire, WillBe, Checked
<1> QED BY <1>1, <1>2 DEF RulesInv, CrossingsOK

LEMMA FreshCopy ==
  ASSUME RulesInv
  PROVE  CopyOK(NoSession.subs, {})
<1>1. \A s \in Subs : /\ NoSession.subs[s] = NoSub /\ posts[s] \in Nat
                      /\ NoSub.there = FALSE /\ NoSub.active = FALSE /\ NoSub.ok = 0 /\ NoSub.failed = 0
  BY RuleFields DEF NoSession, NoSub
<1> QED BY <1>1 DEF CopyOK

LEMMA SubscribeHolds ==
  ASSUME RulesInv, NEW s \in Subs, NEW active \in BOOLEAN, Subscribe(s, active)
  PROVE  RulesInv'
<1>1. PICK x : x = [NoSub EXCEPT !.there = TRUE, !.active = active]
  OBVIOUS
<1>2. /\ ~ sub[s].there /\ sub' = [sub EXCEPT ![s] = x]
      /\ quiet' = (IF active THEN quiet ELSE quiet \cup {s})
      /\ UNCHANGED <<alert, fired, beyond, step, session, posts, rises, moves, restarts>>
  BY <1>1 DEF Subscribe, senders
<1>3. x.there /\ (x.active <=> active) /\ x.ok = 0 /\ x.failed = 0 /\ x \in RowType
  BY <1>1 DEF NoSub, RowType
<1>4. /\ sub' \in [Subs -> RowType] /\ quiet' \subseteq Subs
      /\ \A r \in Subs : sub'[r] = (IF r = s THEN x ELSE sub[r])
  BY <1>2, <1>3, RuleFields
<1>5. \A r \in Subs : sub[r].active => sub[r].there
  BY DEF RulesInv, SubsOK, CopyOK
<1>6. RuleTypes'
  BY <1>2, <1>3, <1>4, <1>5 DEF RulesInv, RuleTypes, AutomationTypeOK, RowType
<1>7. s \notin quiet
  BY <1>2, RuleFields DEF RulesInv, SubsOK
<1>8. SubsOK'
  <2>1. CopyOK(sub, {})'
    <3>1. CopyOK(sub, {}) /\ posts[s] \in Nat
      BY RuleFields DEF RulesInv, SubsOK
    <3> QED BY <1>2, <1>3, <1>4, <1>7, <3>1 DEF CopyOK
  <2>2. \A r \in quiet' : sub'[r].there
    BY <1>2, <1>3, <1>4, RuleFields DEF RulesInv, SubsOK
  <2>3. ASSUME NEW q \in Senders
        PROVE  CopyOK(session[q].subs, Posting(q))' /\ (step'[q] = "post" => session'[q].subs[session'[q].at].active)
    <3>1. CopyOK(session[q].subs, Posting(q)) /\ (step[q] = "post" => session[q].subs[session[q].at].active)
      BY DEF RulesInv, SubsOK
    <3>2. ~ session[q].subs[s].active
      BY <1>2, <3>1 DEF CopyOK
    <3>3. Posting(q)' = Posting(q)
      BY <1>2 DEF Posting
    <3> QED BY <1>2, <1>3, <1>4, <3>1, <3>2, <3>3 DEF CopyOK
  <2> QED BY <2>1, <2>2, <2>3 DEF SubsOK
<1> QED BY <1>2, <1>6, <1>8, LoopUnmoved DEF RulesInv

LEMMA EndSubscription ==
  ASSUME RulesInv, NEW s \in Subs, Unsubscribe(s)
  PROVE  RulesInv'
<1>1. PICK x : x = [sub[s] EXCEPT !.active = FALSE]
  OBVIOUS
<1>2. /\ sub[s].active /\ sub' = [sub EXCEPT ![s] = x]
      /\ quiet' = (IF Loaded(s) THEN quiet ELSE quiet \cup {s})
      /\ UNCHANGED <<alert, fired, beyond, step, session, posts, rises, moves, restarts>>
  BY <1>1, RuleFields DEF Unsubscribe, senders
<1>3. /\ x.there = sub[s].there /\ x.active = FALSE /\ x.ok = sub[s].ok /\ x.failed = sub[s].failed
      /\ x \in RowType
  BY <1>1, RuleFields DEF RowType
<1>4. /\ sub' \in [Subs -> RowType] /\ quiet' \subseteq Subs
      /\ \A r \in Subs : sub'[r] = (IF r = s THEN x ELSE sub[r])
  BY <1>2, <1>3, RuleFields
<1>5. \A r \in Subs : sub[r].active => sub[r].there
  BY DEF RulesInv, SubsOK, CopyOK
<1>6. RuleTypes'
  BY <1>2, <1>3, <1>4, <1>5 DEF RulesInv, RuleTypes, AutomationTypeOK, RowType
<1>7. SubsOK'
  <2>1. CopyOK(sub, {})'
    <3>1. CopyOK(sub, {})
      BY DEF RulesInv, SubsOK
    <3> QED BY <1>2, <1>3, <1>4, <3>1 DEF CopyOK
  <2>2. \A r \in quiet' : sub'[r].there
    BY <1>2, <1>3, <1>4, <1>5, RuleFields DEF RulesInv, SubsOK
  <2>3. ASSUME NEW q \in Senders
        PROVE  CopyOK(session[q].subs, Posting(q))' /\ (step'[q] = "post" => session'[q].subs[session'[q].at].active)
    <3>1. CopyOK(session[q].subs, Posting(q)) /\ (step[q] = "post" => session[q].subs[session[q].at].active)
      BY DEF RulesInv, SubsOK
    <3>2. s \in quiet' => ~ session[q].subs[s].active
      BY <1>2, <3>1 DEF CopyOK, Loaded
    <3>3. Posting(q)' = Posting(q)
      BY <1>2 DEF Posting
    <3> QED BY <1>2, <1>3, <1>4, <3>1, <3>2, <3>3 DEF CopyOK
  <2> QED BY <2>1, <2>2, <2>3 DEF SubsOK
<1> QED BY <1>2, <1>6, <1>7, LoopUnmoved DEF RulesInv

LEMMA SubsUnmoved ==
  ASSUME RulesInv, UNCHANGED <<sub, session, step, posts, quiet>>
  PROVE  SubsOK'
BY DEF RulesInv, SubsOK, CopyOK, Posting

LEMMA CreateAlertHolds ==
  ASSUME RulesInv, NEW a \in Alerts, CreateAlert(a)
  PROVE  RulesInv'
<1>1. /\ alert[a] = "none" /\ alert' = [alert EXCEPT ![a] = "no"]
      /\ rises' = [rises EXCEPT ![a] = @ + (IF a \in beyond THEN 1 ELSE 0)]
      /\ UNCHANGED <<sub, fired, beyond, step, session, posts, quiet, moves, restarts>>
  BY DEF CreateAlert, senders
<1>2. /\ alert' \in [Alerts -> States] /\ rises' \in [Alerts -> Nat]
      /\ \A b \in Alerts : /\ alert'[b] = (IF b = a THEN "no" ELSE alert[b])
                           /\ rises'[b] = (IF b = a /\ a \in beyond THEN rises[b] + 1 ELSE rises[b])
  BY <1>1, RuleFields DEF States
<1>3. RuleTypes'
  BY <1>1, <1>2 DEF RulesInv, RuleTypes, AutomationTypeOK, States
<1>4. session[loop].alerts[a] = "none"
  BY <1>1 DEF RulesInv, PassOK
<1>5. PassOK'
  BY <1>1, <1>2, <1>4 DEF RulesInv, PassOK
<1>6. CrossingsOK'
  <2> SUFFICES ASSUME NEW b \in Alerts
               PROVE  fired[b] + (IF Owing(b)' THEN 1 ELSE 0) <= rises'[b] + restarts
    BY <1>1 DEF CrossingsOK
  <2>1. fired[b] \in Nat /\ rises[b] \in Nat /\ restarts \in Nat
    BY RuleFields
  <2>2. fired[b] + (IF Owing(b) THEN 1 ELSE 0) <= rises[b] + restarts
    BY DEF RulesInv, CrossingsOK
  <2>3. CASE b = a
    <3>1. step[loop] = "post" => session[loop].cur # a
      BY <1>4 DEF RulesInv, PassOK
    <3>2. Owing(a)' => a \in beyond
      BY <1>1, <1>4, <3>1 DEF Owing, WillFire, WillBe
    <3> QED BY <1>2, <2>1, <2>2, <2>3, <3>2
  <2>4. CASE b # a
    <3>1. Owing(b)' = Owing(b)
      BY <1>1, <1>2, <2>4 DEF Owing, WillFire, WillBe, Checked
    <3> QED BY <1>2, <2>2, <2>4, <3>1
  <2> QED BY <2>3, <2>4
<1> QED BY <1>1, <1>3, <1>5, <1>6, SubsUnmoved DEF RulesInv

LEMMA PriceMovesHolds ==
  ASSUME RulesInv, NEW a \in Alerts, PriceMoves(a)
  PROVE  RulesInv'
<1>1. /\ beyond' = (IF a \in beyond THEN beyond \ {a} ELSE beyond \cup {a})
      /\ rises' = [rises EXCEPT ![a] = @ + (IF a \in beyond THEN 0 ELSE 1)] /\ moves' = moves + 1
      /\ UNCHANGED <<sub, alert, fired, step, session, posts, quiet, restarts>>
  BY DEF PriceMoves, senders, tables
<1>2. /\ beyond' \subseteq Alerts /\ rises' \in [Alerts -> Nat] /\ moves' \in Nat
      /\ \A b \in Alerts : rises'[b] = (IF b = a /\ a \notin beyond THEN rises[b] + 1 ELSE rises[b])
  BY <1>1, RuleFields
<1>3. RuleTypes'
  BY <1>1, <1>2 DEF RulesInv, RuleTypes, AutomationTypeOK
<1>4. PassOK'
  BY <1>1 DEF RulesInv, PassOK
<1>5. CrossingsOK'
  <2> SUFFICES ASSUME NEW b \in Alerts
               PROVE  fired[b] + (IF Owing(b)' THEN 1 ELSE 0) <= rises'[b] + restarts
    BY <1>1 DEF CrossingsOK
  <2>1. fired[b] \in Nat /\ rises[b] \in Nat /\ restarts \in Nat
    BY RuleFields
  <2>2. fired[b] + (IF Owing(b) THEN 1 ELSE 0) <= rises[b] + restarts
    BY DEF RulesInv, CrossingsOK
  <2>3. Owing(b)' => Owing(b) \/ (b = a /\ a \notin beyond)
    BY <1>1 DEF Owing, WillFire, WillBe, Checked
  <2> QED BY <1>2, <2>1, <2>2, <2>3
<1> QED BY <1>1, <1>3, <1>4, <1>5, SubsUnmoved DEF RulesInv

(* A dispatch loads the subscriptions as they are. *)
LEMMA LoadedIsReady ==
  ASSUME RulesInv, NEW y \in SessionType, NEW event \in Events,
         NEW x, x = [y EXCEPT !.subs = sub, !.event = event, !.todo = Subs]
  PROVE  /\ x \in SessionType /\ CopyOK(x.subs, {})
         /\ x.alerts = y.alerts /\ x.prices = y.prices /\ x.cur = y.cur
<1>1. x \in SessionType /\ x.subs = sub /\ x.alerts = y.alerts /\ x.prices = y.prices /\ x.cur = y.cur
  BY RuleFields DEF SessionType
<1> QED BY <1>1 DEF RulesInv, SubsOK

LEMMA RequestHolds ==
  ASSUME RulesInv, NEW q \in Requests, Test(q) \/ Batch(q)
  PROVE  RulesInv'
<1>1. PICK event \in Events :
        /\ Dispatch(q, NoSession, event)
        /\ UNCHANGED <<beyond, rises, quiet, moves, restarts>>
  BY DEF Test, Batch, Events
<1>2. PICK x : x = [NoSession EXCEPT !.subs = sub, !.event = event, !.todo = Subs]
  OBVIOUS
<1>3. Proceed(q, x)
  BY <1>1, <1>2 DEF Dispatch
<1>4. q \in Senders /\ q # loop
  BY LoopAssumption DEF Senders
<1>5. Ready(q, x)
  <2>1. NoSession \in SessionType /\ NoSession.cur = 0
    BY RuleFields DEF NoSession
  <2> QED BY <1>2, <1>4, <2>1, LoadedIsReady DEF Ready
<1> QED BY <1>1, <1>3, <1>4, <1>5, ProceedHolds

(* What was posted is counted. *)
LEMMA AnswerCounts ==
  ASSUME RulesInv, NEW p \in Senders, NEW ok \in BOOLEAN, Answer(p, ok)
  PROVE  RulesInv'
<1>1. PICK y, s : y = session[p] /\ s = y.at
  OBVIOUS
<1>2. step[p] = "post" /\ s \in Subs /\ y \in SessionType
  BY <1>1, RuleFields DEF Answer, RulesInv, RuleTypes, AutomationTypeOK
<1>3. PICK row \in RowType :
        /\ row = IF ok THEN [y.subs[s] EXCEPT !.ok = @ + 1] ELSE [y.subs[s] EXCEPT !.failed = @ + 1]
        /\ row.there = y.subs[s].there /\ row.active = y.subs[s].active
        /\ row.ok + row.failed = y.subs[s].ok + y.subs[s].failed + 1
  <2>1. y.subs[s] \in RowType
    BY <1>2, RuleFields
  <2>2. CASE ok
    <3>1. PICK row : row = [y.subs[s] EXCEPT !.ok = @ + 1]
      OBVIOUS
    <3>2. /\ row \in RowType /\ row.there = y.subs[s].there /\ row.active = y.subs[s].active
          /\ row.ok = y.subs[s].ok + 1 /\ row.failed = y.subs[s].failed
      BY <2>1, <3>1 DEF RowType
    <3> QED BY <2>1, <2>2, <3>1, <3>2 DEF RowType
  <2>3. CASE ~ ok
    <3>1. PICK row : row = [y.subs[s] EXCEPT !.failed = @ + 1]
      OBVIOUS
    <3>2. /\ row \in RowType /\ row.there = y.subs[s].there /\ row.active = y.subs[s].active
          /\ row.failed = y.subs[s].failed + 1 /\ row.ok = y.subs[s].ok
      BY <2>1, <3>1 DEF RowType
    <3> QED BY <2>1, <2>3, <3>1, <3>2 DEF RowType
  <2> QED BY <2>2, <2>3
<1>4. PICK x : x = [y EXCEPT !.subs = [y.subs EXCEPT ![s] = row]]
  OBVIOUS
<1>5. Counted(y, ok) = x
  <2>1. y.subs \in [Subs -> RowType] /\ y.subs[s] \in RowType
    BY <1>2, RuleFields
  <2>2. CASE ok
    <3>1. Counted(y, ok) = [y EXCEPT !.subs = [y.subs EXCEPT ![s] = [y.subs[s] EXCEPT !.ok = @ + 1]]]
      BY <1>1, <1>2, <2>1, <2>2 DEF Counted, SessionType
    <3> QED BY <1>3, <1>4, <2>2, <3>1
  <2>3. CASE ~ ok
    <3>1. Counted(y, ok) = [y EXCEPT !.subs = [y.subs EXCEPT ![s] = [y.subs[s] EXCEPT !.failed = @ + 1]]]
      BY <1>1, <1>2, <2>1, <2>3 DEF Counted, SessionType
    <3> QED BY <1>3, <1>4, <2>3, <3>1
  <2> QED BY <2>2, <2>3
<1>6. Proceed(p, x) /\ UNCHANGED <<beyond, rises, quiet, moves, restarts>>
  BY <1>1, <1>5 DEF Answer
<1>7. /\ x \in SessionType /\ x.alerts = y.alerts /\ x.prices = y.prices /\ x.cur = y.cur
      /\ \A r \in Subs : x.subs[r] = IF r = s THEN row ELSE y.subs[r]
  <2>1. y.subs \in [Subs -> RowType]
    BY <1>2, RuleFields
  <2>2. [y.subs EXCEPT ![s] = row] \in [Subs -> RowType]
    BY <2>1
  <2> QED BY <1>2, <1>4, <2>1, <2>2 DEF SessionType
<1>8. CopyOK(x.subs, {})
  <2>1. CopyOK(y.subs, {s})
    BY <1>1, <1>2 DEF RulesInv, SubsOK, Posting
  <2> SUFFICES ASSUME NEW r \in Subs
               PROVE  /\ x.subs[r].there => sub[r].there
                      /\ x.subs[r].active => x.subs[r].there
                      /\ r \in quiet => ~ x.subs[r].active
                      /\ x.subs[r].ok + x.subs[r].failed <= posts[r]
    <3>1. \A r \in Subs : x.subs[r].ok + x.subs[r].failed \in Nat
      <4>1. \A r \in Subs : x.subs[r] \in RowType
        BY <1>7, RuleFields
      <4> QED BY <4>1 DEF RowType
    <3>2. \A r \in Subs : x.subs[r].ok + x.subs[r].failed + 0 = x.subs[r].ok + x.subs[r].failed
      BY <3>1
    <3> QED BY <3>2 DEF CopyOK
  <2>2. /\ y.subs[r].there => sub[r].there
        /\ y.subs[r].active => y.subs[r].there
        /\ r \in quiet => ~ y.subs[r].active
        /\ y.subs[r].ok + y.subs[r].failed + (IF r = s THEN 1 ELSE 0) <= posts[r]
    BY <2>1 DEF CopyOK
  <2>3. y.subs[r].ok \in Nat /\ y.subs[r].failed \in Nat /\ posts[r] \in Nat
    BY <1>2, RuleFields DEF RowType
  <2>4. CASE r = s
    <3>1. x.subs[r] = row
      BY <1>7, <2>4
    <3>2. row.ok + row.failed <= posts[r]
      BY <1>3, <2>2, <2>3, <2>4
    <3> QED BY <1>3, <2>2, <2>4, <3>1, <3>2
  <2>5. CASE r # s
    <3>1. x.subs[r] = y.subs[r]
      BY <1>7, <2>5
    <3> QED BY <2>2, <2>3, <2>5, <3>1
  <2> QED BY <2>4, <2>5
<1>9. Ready(p, x)
  <2>1. p # loop => x.cur = 0
    BY <1>1, <1>7 DEF RulesInv, PassOK
  <2>2. ASSUME p = loop
        PROVE  /\ x.cur \in Alerts /\ x.cur \in x.prices /\ x.alerts[x.cur] = "no"
               /\ \A a \in Alerts : x.alerts[a] # "none" => alert[a] # "none"
               /\ \A a \in Alerts :
                    fired[a] + (IF WillFire(x, a) \/ a = x.cur THEN 1 ELSE 0) <= rises[a] + restarts
    <3>1. /\ x.cur \in Alerts /\ x.cur \in x.prices /\ x.alerts[x.cur] = "no"
          /\ \A a \in Alerts : x.alerts[a] # "none" => alert[a] # "none"
      BY <1>1, <1>2, <1>7, <2>2 DEF RulesInv, PassOK
    <3>2. \A a \in Alerts : Owing(a) <=> WillFire(x, a) \/ a = x.cur
      BY <1>1, <1>2, <1>7, <2>2 DEF Owing, WillFire, WillBe, Checked
    <3> QED BY <3>1, <3>2 DEF RulesInv, CrossingsOK
  <2> QED BY <1>7, <1>8, <2>1, <2>2 DEF Ready
<1> QED BY <1>6, <1>9, ProceedHolds

(* The loop goes on without a post: sessions but its own stay as they are. *)
LEMMA LoopMoves ==
  ASSUME RulesInv, NEW z \in SessionType, NEW stage \in {"idle", "prices", "walk"},
         step' = [step EXCEPT ![loop] = stage], session' = [session EXCEPT ![loop] = z],
         CopyOK(z.subs, {}), UNCHANGED <<sub, fired, beyond, posts, rises, quiet, moves, restarts>>,
         alert' \in [Alerts -> States]
  PROVE  /\ RuleTypes' /\ SubsOK' /\ step'[loop] = stage /\ session'[loop] = z
         /\ \A p \in Senders \ {loop} : session'[p] = session[p]
<1>1. /\ \A q \in Senders : /\ step'[q] = (IF q = loop THEN stage ELSE step[q])
                            /\ session'[q] = (IF q = loop THEN z ELSE session[q])
      /\ session' \in [Senders -> SessionType]
      /\ step' \in [Senders -> {"idle", "prices", "walk", "post", "done"}]
  BY RuleFields
<1>2. RuleTypes'
  <2>1. \A q \in Senders : /\ session'[q].subs \in [Subs -> RowType]
                           /\ session'[q].alerts \in [Alerts -> States]
                           /\ session'[q].event \in Events \cup {"none"}
    BY <1>1, RuleFields
  <2>2. \A q \in Senders : step'[q] = "post" => session'[q].at \in Subs
    BY <1>1 DEF RulesInv, RuleTypes, AutomationTypeOK
  <2> QED BY <1>1, <2>1, <2>2 DEF RulesInv, RuleTypes, AutomationTypeOK, RowType, States
<1>3. SubsOK'
  <2>1. ASSUME NEW q \in Senders
        PROVE  CopyOK(session[q].subs, Posting(q))' /\ (step'[q] = "post" => session'[q].subs[session'[q].at].active)
    <3>1. CASE q = loop
      <4>1. session'[q] = z /\ Posting(q)' = {} /\ step'[q] # "post"
        BY <1>1, <3>1 DEF Posting
      <4> QED BY <4>1 DEF CopyOK
    <3>2. CASE q # loop
      <4>1. session'[q] = session[q] /\ Posting(q)' = Posting(q) /\ step'[q] = step[q]
        BY <1>1, <3>2 DEF Posting
      <4>2. CopyOK(session[q].subs, Posting(q)) /\ (step[q] = "post" => session[q].subs[session[q].at].active)
        BY DEF RulesInv, SubsOK
      <4> QED BY <4>1, <4>2 DEF CopyOK
    <3> QED BY <3>1, <3>2
  <2> QED BY <2>1 DEF RulesInv, SubsOK, CopyOK
<1> QED BY <1>1, <1>2, <1>3, RuleFields

LEMMA LoadAlertsHolds == ASSUME RulesInv, LoadAlerts PROVE RulesInv'
<1>1. PICK z : z = [NoSession EXCEPT !.alerts = alert]
  OBVIOUS
<1>2. /\ step[loop] = "idle" /\ step' = [step EXCEPT ![loop] = "prices"] /\ session' = [session EXCEPT ![loop] = z]
      /\ UNCHANGED <<sub, alert, fired, beyond, posts, rises, quiet, moves, restarts>>
  BY <1>1 DEF LoadAlerts, tables, history
<1>3. z \in SessionType /\ z.subs = NoSession.subs /\ z.alerts = alert /\ z.cur = 0
  <2>1. NoSession \in SessionType /\ NoSession.cur = 0
    BY RuleFields DEF NoSession
  <2> QED BY <1>1, <2>1, RuleFields DEF SessionType
<1>4. alert' \in [Alerts -> States]
  BY <1>2, RuleFields
<1>5. /\ RuleTypes' /\ SubsOK' /\ step'[loop] = "prices" /\ session'[loop] = z
      /\ \A p \in Senders \ {loop} : session'[p] = session[p]
  BY <1>2, <1>3, <1>4, FreshCopy, LoopMoves
<1>6. PassOK'
  BY <1>2, <1>3, <1>5 DEF RulesInv, PassOK
<1>7. \A a \in Alerts : Owing(a)' <=> Owing(a)
  BY <1>2, <1>5 DEF Owing
<1>8. CrossingsOK'
  BY <1>2, <1>7 DEF RulesInv, CrossingsOK
<1> QED BY <1>5, <1>6, <1>8 DEF RulesInv

(* The loop rests, and the alerts are as the pass leaves them.             *)
LEMMA RestHolds ==
  ASSUME RulesInv, Rest, alert' \in [Alerts -> States],
         UNCHANGED <<sub, fired, beyond, posts, rises, quiet, moves, restarts>>,
         \A a \in Alerts : alert'[a] = "no" /\ a \in beyond => Owing(a)
  PROVE  RulesInv'
<1>1. PICK z : z = NoSession
  OBVIOUS
<1>2. step' = [step EXCEPT ![loop] = "idle"] /\ session' = [session EXCEPT ![loop] = z]
  BY <1>1 DEF Rest
<1>3. /\ z \in SessionType /\ CopyOK(z.subs, {})
      /\ \A a \in Alerts : z.alerts[a] = "none"
  BY <1>1, RuleFields, FreshCopy DEF NoSession
<1>4. /\ RuleTypes' /\ SubsOK' /\ step'[loop] = "idle" /\ session'[loop] = z
      /\ \A p \in Senders \ {loop} : session'[p] = session[p]
  BY <1>2, <1>3, LoopMoves
<1>5. PassOK'
  BY <1>3, <1>4 DEF RulesInv, PassOK
<1>6. CrossingsOK'
  <2> SUFFICES ASSUME NEW a \in Alerts
               PROVE  fired[a] + (IF Owing(a)' THEN 1 ELSE 0) <= rises[a] + restarts
    BY DEF CrossingsOK
  <2>1. Owing(a)' => Owing(a)
    BY <1>4 DEF Owing
  <2>2. fired[a] \in Nat /\ rises[a] \in Nat /\ restarts \in Nat
    BY RuleFields
  <2> QED BY <2>1, <2>2 DEF RulesInv, CrossingsOK
<1> QED BY <1>4, <1>5, <1>6 DEF RulesInv

LEMMA NoPricesHolds == ASSUME RulesInv, PricesUnavailable PROVE RulesInv'
<1>1. /\ step[loop] = "prices" /\ Rest
      /\ UNCHANGED <<sub, alert, fired, beyond, posts, rises, quiet, moves, restarts>>
  BY DEF PricesUnavailable, tables, history
<1>2. \A a \in Alerts : alert'[a] = "no" /\ a \in beyond => Owing(a)
  BY <1>1 DEF Owing
<1> QED BY <1>1, <1>2, RestHolds, RuleFields

LEMMA PricesHolds == ASSUME RulesInv, Prices PROVE RulesInv'
<1>1. PICK y, z : y = session[loop] /\ z = [y EXCEPT !.prices = beyond]
  OBVIOUS
<1>2. /\ step[loop] = "prices" /\ step' = [step EXCEPT ![loop] = "walk"] /\ session' = [session EXCEPT ![loop] = z]
      /\ UNCHANGED <<sub, alert, fired, beyond, posts, rises, quiet, moves, restarts>>
  BY <1>1, RuleFields DEF Prices, Priced, tables, history
<1>3. /\ z \in SessionType /\ z.subs = y.subs /\ z.alerts = y.alerts /\ z.cur = y.cur /\ z.prices = beyond
  <2>1. y \in SessionType
    BY <1>1, RuleFields
  <2> QED BY <1>1, <2>1, RuleFields DEF SessionType
<1>4. CopyOK(y.subs, {})
  <2>1. CopyOK(y.subs, Posting(loop)) /\ Posting(loop) = {}
    BY <1>1, <1>2, RuleFields DEF RulesInv, SubsOK, Posting
  <2> QED BY <2>1
<1>5. alert' \in [Alerts -> States]
  BY <1>2, RuleFields
<1>6. /\ RuleTypes' /\ SubsOK' /\ step'[loop] = "walk" /\ session'[loop] = z
      /\ \A p \in Senders \ {loop} : session'[p] = session[p]
  BY <1>2, <1>3, <1>4, <1>5, LoopMoves
<1>7. y.cur = 0 /\ \A a \in Alerts : y.alerts[a] # "none" => alert[a] # "none" /\ y.alerts[a] = alert[a]
  BY <1>1, <1>2 DEF RulesInv, PassOK
<1>8. PassOK'
  BY <1>2, <1>3, <1>6, <1>7 DEF RulesInv, PassOK
<1>9. \A a \in Alerts : Owing(a)' => Owing(a)
  BY <1>2, <1>3, <1>6, <1>7 DEF Owing, WillFire, WillBe, Checked
<1>10. CrossingsOK'
  <2> SUFFICES ASSUME NEW a \in Alerts
               PROVE  fired[a] + (IF Owing(a)' THEN 1 ELSE 0) <= rises[a] + restarts
    BY <1>2 DEF CrossingsOK
  <2>1. fired[a] \in Nat /\ rises[a] \in Nat /\ restarts \in Nat
    BY RuleFields
  <2> QED BY <1>9, <2>1 DEF RulesInv, CrossingsOK
<1> QED BY <1>6, <1>8, <1>10 DEF RulesInv

(* The walk ends with the commit of every state it found, or comes to the  *)
(* first alert further on that crosses its threshold.                      *)
LEMMA WalkHolds == ASSUME RulesInv, Walk PROVE RulesInv'
<1>1. PICK x, next : x = session[loop] /\ next = {a \in Crossing(x) : a > x.cur}
  OBVIOUS
<1>2. PICK upto : upto = {a \in Alerts : next = {} \/ a < Min(next)}
  OBVIOUS
<1>3. PICK states : states = [a \in Alerts |-> IF x.alerts[a] # "none" /\ a \in upto
                                               THEN Checked(x, a) ELSE x.alerts[a]]
  OBVIOUS
<1>4. PICK y : y = [x EXCEPT !.alerts = states]
  OBVIOUS
<1>5. step[loop] = "walk" /\ UNCHANGED <<beyond, rises, quiet, moves, restarts>>
  BY DEF Walk
<1>6. /\ x \in SessionType /\ x.alerts \in [Alerts -> States] /\ x.cur \in Nat /\ x.prices \subseteq Alerts
  BY <1>1, RuleFields
<1>7. /\ states \in [Alerts -> States]
      /\ \A a \in Alerts : states[a] = "none" <=> x.alerts[a] = "none"
  BY <1>3, <1>6 DEF Checked, States
<1>8. /\ y \in SessionType /\ y.alerts = states /\ y.subs = x.subs /\ y.prices = x.prices /\ y.cur = x.cur
  BY <1>4, <1>6, <1>7 DEF SessionType
<1>9. \A a \in Alerts : x.alerts[a] # "none" => alert[a] # "none"
  BY <1>1 DEF RulesInv, PassOK
<1>10. \A a \in Alerts : Owing(a) <=> WillFire(x, a)
  BY <1>1, <1>5 DEF Owing
<1>11. CASE next = {}
  <2>1. /\ alert' = [a \in Alerts |-> IF y.alerts[a] # "none" THEN y.alerts[a] ELSE alert[a]]
        /\ Rest /\ UNCHANGED <<sub, fired, posts>>
    BY <1>1, <1>2, <1>3, <1>4, <1>11 DEF Walk
  <2>2. alert' \in [Alerts -> States]
    BY <1>7, <1>8, <2>1, RuleFields
  <2>3. \A a \in Alerts : alert'[a] = (IF x.alerts[a] # "none" THEN Checked(x, a) ELSE alert[a])
    BY <1>2, <1>3, <1>7, <1>8, <1>11, <2>1
  <2>4. \A a \in Alerts : alert'[a] = "no" /\ a \in beyond => Owing(a)
    BY <1>10, <2>3 DEF WillFire, WillBe
  <2> QED BY <1>5, <2>1, <2>2, <2>4, RestHolds
<1>12. CASE next # {}
  <2>1. PICK n \in next : n = Min(next) /\ \A a \in next : n <= a
    <3>1. next \in SUBSET Nat
      BY <1>1, OrderAssumption DEF Crossing
    <3> QED BY <1>12, <3>1, LowestIs
  <2>2. /\ n \in Alerts /\ n \in x.prices /\ x.alerts[n] = "no" /\ n > x.cur /\ n \in Nat
        /\ \A a \in Alerts : a > x.cur /\ x.alerts[a] = "no" /\ a \in x.prices => n <= a
    BY <1>1, <2>1, OrderAssumption DEF Crossing
  <2>3. PICK w : w = [y EXCEPT !.cur = n]
    OBVIOUS
  <2>4. Dispatch(loop, w, "alert")
    BY <1>1, <1>2, <1>3, <1>4, <1>12, <2>1, <2>3 DEF Walk
  <2>5. w \in SessionType /\ w.alerts = states /\ w.prices = x.prices /\ w.cur = n
    BY <1>8, <2>2, <2>3 DEF SessionType
  <2>6. PICK v : v = [w EXCEPT !.subs = sub, !.event = "alert", !.todo = Subs]
    OBVIOUS
  <2>7. Proceed(loop, v)
    BY <2>4, <2>6 DEF Dispatch
  <2>8. /\ v \in SessionType /\ CopyOK(v.subs, {})
        /\ v.alerts = states /\ v.prices = x.prices /\ v.cur = n
    BY <2>5, <2>6, LoadedIsReady DEF Events
  <2>9. states[n] = "no" /\ \A a \in Alerts : a >= n => states[a] = x.alerts[a]
    <3>1. Alerts \subseteq Nat
      BY OrderAssumption
    <3>2. \A a \in Alerts : a \in upto <=> a < n
      BY <1>2, <1>12, <2>1
    <3>3. \A a \in Alerts : a >= n => ~ (a < n)
      BY <2>2, <3>1
    <3> QED BY <1>3, <2>2, <3>2, <3>3
  <2>10. \A a \in Alerts : WillFire(v, a) \/ a = n => WillFire(x, a)
    <3> SUFFICES ASSUME NEW a \in Alerts, WillFire(v, a) \/ a = n PROVE WillFire(x, a)
      OBVIOUS
    <3>1. a \in Nat
      BY OrderAssumption
    <3>2. CASE a = n
      BY <2>2, <3>2 DEF WillFire
    <3>3. CASE a > n /\ states[a] = "no" /\ a \in x.prices
      <4>1. a > x.cur /\ x.alerts[a] = "no"
        BY <1>6, <2>2, <2>9, <3>1, <3>3
      <4> QED BY <3>3, <4>1 DEF WillFire
    <3>4. CASE WillBe(v, a) = "no" /\ a \in beyond
      <4>1. WillBe(x, a) = "no"
        BY <1>7, <2>8, <3>4 DEF WillBe, Checked
      <4> QED BY <3>4, <4>1 DEF WillFire
    <3> QED BY <2>8, <3>2, <3>3, <3>4 DEF WillFire
  <2>11. Ready(loop, v)
    <3>1. \A a \in Alerts : fired[a] + (IF WillFire(v, a) \/ a = n THEN 1 ELSE 0) <= rises[a] + restarts
      <4> SUFFICES ASSUME NEW a \in Alerts
                   PROVE  fired[a] + (IF WillFire(v, a) \/ a = n THEN 1 ELSE 0) <= rises[a] + restarts
        OBVIOUS
      <4>1. fired[a] + (IF WillFire(x, a) THEN 1 ELSE 0) <= rises[a] + restarts
        BY <1>10 DEF RulesInv, CrossingsOK
      <4>2. fired[a] \in Nat /\ rises[a] \in Nat /\ restarts \in Nat
        BY RuleFields
      <4> QED BY <2>10, <4>1, <4>2
    <3> QED BY <1>7, <1>9, <2>2, <2>8, <2>9, <3>1 DEF Ready
  <2> QED BY <1>5, <2>7, <2>11, ProceedHolds, RuleFields
<1> QED BY <1>11, <1>12

(* A restart loses the copies.  It pays for the alert that had triggered   *)
(* and was not marked as met.                                              *)
LEMMA RestartRules == ASSUME RulesInv, Restart PROVE RulesInv'
<1>1. PICK z : z = NoSession
  OBVIOUS
<1>2. /\ step' = [p \in Senders |-> IF p = loop \/ step[p] = "idle" THEN "idle" ELSE "done"]
      /\ session' = [p \in Senders |-> z] /\ restarts' = restarts + 1
      /\ UNCHANGED <<sub, alert, fired, beyond, posts, rises, quiet, moves>>
  BY <1>1 DEF Restart, tables, history
<1>3. /\ z \in SessionType /\ CopyOK(z.subs, {}) /\ z.cur = 0
      /\ \A a \in Alerts : z.alerts[a] = "none"
  BY <1>1, RuleFields, FreshCopy DEF NoSession
<1>4. /\ \A q \in Senders : session'[q] = z /\ step'[q] \in {"idle", "done"}
      /\ session' \in [Senders -> SessionType]
      /\ step' \in [Senders -> {"idle", "prices", "walk", "post", "done"}]
      /\ step'[loop] = "idle"
  BY <1>2, <1>3, RuleFields
<1>5. RuleTypes'
  <2>1. \A q \in Senders : /\ session'[q].subs \in [Subs -> RowType]
                           /\ session'[q].alerts \in [Alerts -> States]
                           /\ session'[q].event \in Events \cup {"none"}
    BY <1>3, <1>4, RuleFields
  <2>2. restarts' \in Nat
    BY <1>2, RuleFields
  <2> QED BY <1>2, <1>4, <2>1, <2>2 DEF RulesInv, RuleTypes, AutomationTypeOK, RowType, States
<1>6. SubsOK'
  <2>1. ASSUME NEW q \in Senders
        PROVE  CopyOK(session[q].subs, Posting(q))' /\ step'[q] # "post"
    <3>1. session'[q] = z /\ Posting(q)' = {} /\ step'[q] # "post"
      BY <1>4 DEF Posting
    <3> QED BY <1>2, <1>3, <3>1 DEF CopyOK
  <2> QED BY <1>2, <2>1 DEF RulesInv, SubsOK, CopyOK
<1>7. PassOK'
  BY <1>3, <1>4, RuleFields DEF PassOK
<1>8. CrossingsOK'
  <2> SUFFICES ASSUME NEW a \in Alerts
               PROVE  fired[a] + (IF Owing(a)' THEN 1 ELSE 0) <= rises[a] + (restarts + 1)
    BY <1>2 DEF CrossingsOK
  <2>1. fired[a] \in Nat /\ rises[a] \in Nat /\ restarts \in Nat
    BY RuleFields
  <2>2. fired[a] + (IF Owing(a) THEN 1 ELSE 0) <= rises[a] + restarts
    BY DEF RulesInv, CrossingsOK
  <2>3. fired[a] <= rises[a] + restarts
    BY <2>1, <2>2
  <2> QED BY <2>1, <2>3
<1> QED BY <1>5, <1>6, <1>7, <1>8 DEF RulesInv

LEMMA RulesInit == ASSUME AutomationInit PROVE RulesInv
<1>1. PICK z, row : z = NoSession /\ row = NoSub
  OBVIOUS
<1>2. row \in RowType /\ row.there = FALSE /\ row.active = FALSE /\ row.ok = 0 /\ row.failed = 0
  BY <1>1 DEF NoSub, RowType
<1>3. /\ z \in SessionType /\ z.cur = 0
      /\ \A s \in Subs : z.subs[s] = row
      /\ \A a \in Alerts : z.alerts[a] = "none"
  BY <1>1, <1>2 DEF NoSession, SessionType, States
<1>4. /\ sub = [s \in Subs |-> row] /\ alert = [a \in Alerts |-> "none"] /\ beyond = AtStart
      /\ fired = [a \in Alerts |-> 0] /\ step = [p \in Senders |-> "idle"]
      /\ session = [p \in Senders |-> z] /\ posts = [s \in Subs |-> 0]
      /\ rises = [a \in Alerts |-> 0] /\ quiet = {} /\ moves = 0 /\ restarts = 0
  BY <1>1 DEF AutomationInit
<1>5. RuleTypes
  <2>1. \A q \in Senders : /\ session[q].subs \in [Subs -> RowType]
                           /\ session[q].alerts \in [Alerts -> States]
                           /\ session[q].event \in Events \cup {"none"}
    BY <1>3, <1>4 DEF SessionType
  <2>2. AtStart \subseteq Alerts
    BY AlertsAssumption
  <2> QED BY <1>2, <1>3, <1>4, <2>1, <2>2 DEF RuleTypes, AutomationTypeOK, RowType, States
<1>6. loop \in Senders
  BY DEF Senders
<1>7. SubsOK
  <2>1. \A q \in Senders : Posting(q) = {} /\ session[q] = z /\ step[q] # "post"
    BY <1>4 DEF Posting
  <2>2. CopyOK(sub, {}) /\ CopyOK(z.subs, {})
    BY <1>2, <1>3, <1>4 DEF CopyOK
  <2> QED BY <1>4, <2>1, <2>2 DEF SubsOK
<1>8. PassOK
  BY <1>3, <1>4, <1>6 DEF PassOK
<1>9. CrossingsOK
  BY <1>4, <1>6 DEF CrossingsOK, Owing
<1> QED BY <1>5, <1>7, <1>8, <1>9 DEF RulesInv

LEMMA RulesNext == ASSUME RulesInv, [AutomationNext]_automationVars PROVE RulesInv'
<1>1. CASE UNCHANGED automationVars
  <2>1. UNCHANGED <<sub, alert, fired, beyond, step, session, posts, rises, quiet, moves, restarts>>
    BY <1>1 DEF automationVars, tables, senders, history
  <2>2. SubsOK' /\ PassOK' /\ CrossingsOK'
    BY <2>1, SubsUnmoved, LoopUnmoved
  <2>3. RuleTypes'
    BY <2>1 DEF RulesInv, RuleTypes, AutomationTypeOK
  <2> QED BY <2>2, <2>3 DEF RulesInv
<1>2. ASSUME NEW s \in Subs, Subscribe(s, TRUE) \/ Subscribe(s, FALSE) \/ Unsubscribe(s)
      PROVE  RulesInv'
  BY <1>2, SubscribeHolds, EndSubscription
<1>3. ASSUME NEW a \in Alerts, CreateAlert(a) \/ PriceMoves(a)
      PROVE  RulesInv'
  BY <1>3, CreateAlertHolds, PriceMovesHolds
<1>4. ASSUME NEW q \in Requests, Test(q) \/ Batch(q) \/ Answer(q, TRUE) \/ Answer(q, FALSE)
      PROVE  RulesInv'
  <2>1. q \in Senders
    BY DEF Senders
  <2> QED BY <1>4, <2>1, RequestHolds, AnswerCounts
<1>5. CASE LoopStep
  <2>1. loop \in Senders
    BY DEF Senders
  <2>2. CASE Answer(loop, TRUE) \/ Answer(loop, FALSE)
    BY <2>1, <2>2, AnswerCounts
  <2>3. CASE LoadAlerts \/ PricesUnavailable \/ Prices \/ Walk
    BY <2>3, LoadAlertsHolds, NoPricesHolds, PricesHolds, WalkHolds
  <2> QED BY <1>5, <2>2, <2>3 DEF LoopStep
<1>6. CASE Restart
  BY <1>6, RestartRules
<1> QED BY <1>1, <1>2, <1>3, <1>4, <1>5, <1>6 DEF AutomationNext

(* The invariant the others follow from                                    *)
THEOREM RulesInvariance == AutomationSpec => []RulesInv
<1>1. AutomationInit => RulesInv
  BY RulesInit
<1>2. RulesInv /\ [AutomationNext]_automationVars => RulesInv'
  BY RulesNext
<1> QED BY <1>1, <1>2, PTL DEF AutomationSpec

(* For any subscriptions, alerts, requests and restarts: a threshold that  *)
(* is crossed triggers once, restarts aside, although passes and requests  *)
(* write whole rows back, and no delivery is counted that was not begun    *)
(* (run_price_alert_checks, dispatch_user_event).                          *)
THEOREM CrossingsTriggerOnce == AutomationSpec => []OneTriggerPerCrossing
<1>1. RulesInv => OneTriggerPerCrossing
  <2> SUFFICES ASSUME RulesInv PROVE OneTriggerPerCrossing
    OBVIOUS
  <2>1. ASSUME NEW a \in Alerts PROVE fired[a] <= rises[a] + restarts
    <3>1. fired[a] \in Nat /\ rises[a] \in Nat /\ restarts \in Nat
      BY RuleFields
    <3>2. fired[a] + (IF Owing(a) THEN 1 ELSE 0) <= rises[a] + restarts
      BY DEF RulesInv, CrossingsOK
    <3> QED BY <3>1, <3>2
  <2>2. ASSUME NEW s \in Subs PROVE sub[s].ok + sub[s].failed <= posts[s]
    <3>1. sub[s] \in RowType /\ posts[s] \in Nat
      BY RuleFields
    <3>2. sub[s].ok + sub[s].failed + (IF s \in {} THEN 1 ELSE 0) <= posts[s]
      BY DEF RulesInv, SubsOK, CopyOK
    <3> QED BY <3>1, <3>2 DEF RowType
  <2> QED BY <2>1, <2>2 DEF RulesInv, RuleTypes, OneTriggerPerCrossing
<1> QED BY <1>1, RulesInvariance, PTL

(* ... and nothing is posted to a subscription that ended while no sender  *)
(* had it loaded: no row that is written back makes it active again.       *)
THEOREM QuietStayQuiet == AutomationSpec => []QuietStaysQuiet
<1>1. RulesInv => QuietStaysQuiet
  <2> SUFFICES ASSUME RulesInv, NEW s \in quiet
               PROVE  ~ sub[s].active /\ \A p \in Senders : step[p] = "post" => session[p].at # s
    BY DEF QuietStaysQuiet
  <2>1. s \in Subs
    BY RuleFields
  <2> QED BY <2>1 DEF RulesInv, SubsOK, CopyOK
<1> QED BY <1>1, RulesInvariance, PTL
=============================================================================
