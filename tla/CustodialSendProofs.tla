------------------------ MODULE CustodialSendProofs ------------------------
(***************************************************************************)
(* What is proved of CustodialSend for every number of users, requests,    *)
(* approvals and sweeps, every limit and every opening balance.  All of it *)
(* rests on the inductive invariant Inv: what each coroutine may rely on   *)
(* at the await it is suspended in.  FeeInv adds to it what a sweep has    *)
(* claimed, and that the fees add up.                                      *)
(***************************************************************************)
EXTENDS CustodialSend, SumTheorems

Senders == Requests \cup Approvals

(* The awaits each kind of coroutine can be suspended in *)
StagesOK ==
  /\ \A r \in Requests  : pc[r] \in Settling \cup {"risk", "riskLarge", "idle", "done", "dead"}
  /\ \A a \in Approvals : pc[a] \in Settling \cup {"idle", "done", "dead"}
  /\ \A s \in Sweeps    : pc[s] \in {"settle", "send", "confirm", "next", "idle", "done", "dead"}

(* A send that still runs has no row yet, and the balance it loaded covers *)
(* it.                                                                     *)
RequestsOK ==
  \A r \in Requests :
    /\ pc[r] \in Settling \cup {"idle", "risk", "riskLarge"} => status[r] = "none"
    /\ pc[r] \in Settling \cup {"risk", "riskLarge"} => seen[r] >= Total(r)

(* An approval that still runs owns its row, and so on. *)
ApprovalsOK ==
  \A a \in Approvals : pc[a] \in Settling =>
    /\ held[a] \in Requests
    /\ status[held[a]] = "approving"
    /\ seen[a] >= Total(held[a])
    /\ \A b \in Approvals : pc[b] \in Settling /\ held[b] = held[a] => b = a

SweepsOK == \A s \in Sweeps : pc[s] \in Settling => wallet[s] \in Users

(* A coroutine waiting for a receipt waits for the transfer it was asked   *)
(* to make.                                                                *)
TransfersOK ==
  /\ \A a \in Actors : pc[a] \in {"send", "confirm"} => chain[a] \in Chains
  /\ \A a \in Actors, u \in Users : tx[a][u].status = "pending" =>
        tx[a][u].chain \in Chains /\ tx[a][u].to \in Addresses
  /\ \A a \in Senders : pc[a] = "confirm" =>
        /\ tx[a][Source(a)].to = Dest(a)
        /\ tx[a][Source(a)].amount = Amount(a)

(* A completed row was completed by a coroutine that has ended, which for  *)
(* money outside the ledger left the mined transfer behind.                *)
CompletedOK ==
  \A r \in Requests : status[r] = "completed" =>
    /\ by[r] \in Senders
    /\ pc[by[r]] = "done"
    /\ ~ ToLedger(r) =>
         /\ tx[by[r]][pay[r].from].status = "mined"
         /\ tx[by[r]][pay[r].from].to = pay[r].to
         /\ tx[by[r]][pay[r].from].amount = pay[r].amount

Inv == /\ TypeOK /\ BalanceNeverNegative
       /\ StagesOK /\ RequestsOK /\ ApprovalsOK /\ SweepsOK
       /\ TransfersOK /\ CompletedOK

----------------------------------------------------------------------------
(* What the operators return, in any state of the right type *)

(* Every amount a send debits is a natural number, at least the amount.   *)
LEMMA TotalUnchanged == ASSUME pay' = pay PROVE \A r \in Requests : Total(r)' = Total(r)
BY DEF Total, Fee

(* A step that leaves the payments and the approvals under way alone, and  *)
(* the rows they have claimed, keeps what the approvals rely on.           *)
Undisturbed ==
  /\ pay' = pay
  /\ \A a \in Approvals : pc'[a] \in Settling =>
       /\ pc[a] \in Settling /\ held'[a] = held[a] /\ seen'[a] = seen[a]
       /\ status'[held[a]] = status[held[a]]

LEMMA AtWork ==
  ASSUME Inv
  PROVE  /\ DOMAIN pc = Actors /\ DOMAIN status = Requests
         /\ DOMAIN seen = Actors /\ DOMAIN held = Approvals
         /\ pc = [a \in Actors |-> pc[a]] /\ status = [r \in Requests |-> status[r]]
         /\ \A a \in Approvals : pc[a] \in Settling =>
              held[a] \in Requests /\ status[held[a]] = "approving"
         /\ \A r \in Requests : pc[r] \in Settling \cup {"idle", "risk", "riskLarge"} =>
              status[r] = "none"
BY DEF Inv, TypeOK, RequestsOK, ApprovalsOK

LEMMA ApprovalsKept == ASSUME ApprovalsOK, Undisturbed PROVE ApprovalsOK'
<1>1. \A r \in Requests : Total(r)' = Total(r)
  BY TotalUnchanged DEF Undisturbed
<1> QED
  BY <1>1 DEF ApprovalsOK, Undisturbed

(* A step that executes no transfer and completes no row: who waits for a  *)
(* receipt still waits for the same transfer, who has ended stays so.      *)
Steady ==
  /\ pay' = pay /\ tx' = tx
  /\ \A a \in Actors : pc'[a] \in {"send", "confirm"} =>
       \/ pc'[a] = pc[a] /\ chain'[a] = chain[a]
       \/ pc'[a] = "send" /\ chain'[a] \in Chains
  /\ \A a \in Senders : pc'[a] = "confirm" =>
       pc[a] = "confirm" /\ (a \in Approvals => held'[a] = held[a])
  /\ \A a \in Senders : pc[a] = "done" => pc'[a] = "done"
  /\ \A r \in Requests : status'[r] = "completed" => status[r] = "completed" /\ by'[r] = by[r]

LEMMA SteadyKeeps == ASSUME Inv, Steady PROVE TransfersOK' /\ CompletedOK'
<1>1. \A a \in Actors, u \in Users : tx'[a][u] = tx[a][u]
  BY DEF Steady
<1>2. ASSUME NEW a \in Senders, pc'[a] = "confirm"
      PROVE  Source(a)' = Source(a) /\ Dest(a)' = Dest(a) /\ Amount(a)' = Amount(a)
  BY <1>2, ActorsAssumption DEF Steady, Source, Dest, Amount, RowOf, Senders
<1>3. TransfersOK'
  <2>1. \A a \in Senders : pc'[a] = "confirm" =>
          tx'[a][Source(a)'].to = Dest(a)' /\ tx'[a][Source(a)'].amount = Amount(a)'
    BY <1>2 DEF Inv, TransfersOK, Steady
  <2>2. \A a \in Actors : pc'[a] \in {"send", "confirm"} => chain'[a] \in Chains
    BY DEF Inv, TransfersOK, Steady
  <2> QED
    BY <1>1, <2>1, <2>2 DEF Inv, TransfersOK
<1>4. CompletedOK'
  BY DEF Inv, CompletedOK, Steady, ToLedger
<1> QED
  BY <1>3, <1>4

LEMMA TotalIsNat ==
  ASSUME pay \in [Requests -> Payments], NEW r \in Requests
  PROVE  /\ Fee(r) \in Nat /\ Total(r) \in Nat /\ pay[r].amount \in Nat
         /\ pay[r].from \in Users /\ pay[r].to \in Users \cup Outside
BY FeesAssumption, PaymentsAssumption DEF Fee, Total

(* A coroutine in the settlement knows the wallet that pays, the address   *)
(* that is paid and how much.                                              *)
LEMMA SettlementIsTyped ==
  ASSUME Inv, NEW a \in Actors, pc[a] \in Settling
  PROVE  /\ Source(a) \in Users /\ Dest(a) \in Addresses /\ Amount(a) \in Int
         /\ a \in Requests => RowOf(a) = a
         /\ a \in Approvals => RowOf(a) = held[a] /\ held[a] \in Requests
         /\ a \in Sweeps => Source(a) = wallet[a] /\ wallet[a] \in Users
         /\ a \in Senders => Source(a) = pay[RowOf(a)].from
<1>1. CASE a \in Requests
  BY <1>1, TotalIsNat, ActorsAssumption
  DEF Inv, TypeOK, Source, Dest, Amount, RowOf, Addresses, Senders
<1>2. CASE a \in Approvals
  <2>1. held[a] \in Requests
    BY <1>2 DEF Inv, ApprovalsOK
  <2> QED
    BY <1>2, <2>1, TotalIsNat, ActorsAssumption
    DEF Inv, TypeOK, Source, Dest, Amount, RowOf, Addresses, Senders
<1>3. CASE a \in Sweeps
  <2>1. wallet[a] \in Users
    BY <1>3 DEF Inv, SweepsOK
  <2> QED
    BY <1>3, <2>1, ActorsAssumption
    DEF Inv, TypeOK, Source, Dest, Amount, RowOf, Addresses, Senders
<1> QED
  BY <1>1, <1>2, <1>3 DEF Actors

(* The coroutine whose money has moved completes its row and ends: nobody  *)
(* else relied on that row.                                                *)
LEMMA Completing ==
  ASSUME Inv, NEW a \in Senders, NEW r \in Requests,
         \/ a = r /\ ToLedger(r) /\ pc[r] = "idle"
         \/ pc[a] = "confirm" /\ RowOf(a) = r /\ tx[a][Source(a)].status = "mined",
         pc' = [pc EXCEPT ![a] = "done"], status' = [status EXCEPT ![r] = "completed"],
         by' = [by EXCEPT ![r] = a], UNCHANGED <<pay, seen, held, wallet, snap, chain, tx>>
  PROVE  RequestsOK' /\ ApprovalsOK' /\ TransfersOK' /\ CompletedOK'
<1>1. /\ \A b \in Actors : pc'[b] = IF b = a THEN "done" ELSE pc[b]
      /\ \A q \in Requests : status'[q] = IF q = r THEN "completed" ELSE status[q]
      /\ \A q \in Requests : by'[q] = IF q = r THEN a ELSE by[q]
  BY DEF Inv, TypeOK
<1>2. a \in Actors /\ Requests \subseteq Actors /\ Approvals \subseteq Actors
  BY DEF Senders, Actors
<1>3. /\ a \in Requests => a = r /\ status[r] = "none"
      /\ a \in Approvals => held[a] = r /\ pc[a] \in Settling /\ status[r] = "approving"
  <2>1. CASE a = r
    BY <2>1, AtWork, ActorsAssumption DEF Settling
  <2>2. CASE pc[a] = "confirm" /\ RowOf(a) = r
    BY <2>2, AtWork, ActorsAssumption DEF Settling, RowOf, Senders
  <2> QED
    BY <2>1, <2>2
<1>4. RequestsOK'
  <2> SUFFICES ASSUME NEW q \in Requests PROVE RequestsOK!(q)'
    BY DEF RequestsOK
  <2>1. CASE q = a
    BY <2>1, <1>1, <1>2 DEF Settling
  <2>2. CASE q # a
    <3>1. pc'[q] = pc[q] /\ seen'[q] = seen[q] /\ Total(q)' = Total(q)
      BY <2>2, <1>1, <1>2, TotalUnchanged
    <3>2. pc[q] \in Settling \cup {"idle", "risk", "riskLarge"} => q # r
      BY <2>2, <1>3, AtWork DEF Senders
    <3> QED
      BY <3>1, <3>2, <1>1 DEF Inv, RequestsOK
  <2> QED
    BY <2>1, <2>2
<1>5. ApprovalsOK'
  <2>1. ASSUME NEW b \in Approvals, pc'[b] \in Settling
        PROVE  pc[b] \in Settling /\ status'[held[b]] = status[held[b]]
    <3>1. b # a /\ pc[b] \in Settling
      BY <2>1, <1>1, <1>2 DEF Settling
    <3>2. held[b] \in Requests /\ status[held[b]] = "approving"
      BY <3>1, AtWork
    <3>3. held[b] # r
      BY <3>1, <3>2, <1>3 DEF Inv, ApprovalsOK, Senders
    <3> QED
      BY <3>1, <3>2, <3>3, <1>1
  <2> QED
    BY <2>1, ApprovalsKept DEF Undisturbed, Inv
<1>6. TransfersOK'
  <2>1. ASSUME NEW b \in Actors, pc'[b] \in {"send", "confirm"} PROVE pc[b] = pc'[b]
    BY <2>1, <1>1
  <2>2. \A b \in Senders : Source(b)' = Source(b) /\ Dest(b)' = Dest(b) /\ Amount(b)' = Amount(b)
    BY DEF Source, Dest, Amount, RowOf
  <2>3. \A b \in Senders : pc'[b] = "confirm" =>
          tx'[b][Source(b)'].to = Dest(b)' /\ tx'[b][Source(b)'].amount = Amount(b)'
    BY <2>1, <2>2, <1>2 DEF Inv, TransfersOK, Senders
  <2> QED
    BY <2>1, <2>3 DEF Inv, TransfersOK
<1>7. CompletedOK'
  <2> SUFFICES ASSUME NEW q \in Requests, status'[q] = "completed" PROVE CompletedOK!(q)'
    BY DEF CompletedOK
  <2>1. CASE q = r
    <3>1. by'[r] = a /\ pc'[a] = "done" /\ (ToLedger(r)' <=> ToLedger(r))
      BY <1>1, <1>2 DEF ToLedger
    <3>2. ASSUME ~ ToLedger(r)
          PROVE  /\ tx[a][pay[r].from].status = "mined"
                 /\ tx[a][pay[r].from].to = pay[r].to /\ tx[a][pay[r].from].amount = pay[r].amount
      <4>1. pc[a] = "confirm" /\ RowOf(a) = r /\ tx[a][Source(a)].status = "mined"
        BY <3>2
      <4>2. Source(a) = pay[r].from /\ Dest(a) = pay[r].to /\ Amount(a) = pay[r].amount
        BY <4>1, ActorsAssumption DEF Source, Dest, Amount, Senders
      <4> QED
        BY <4>1, <4>2 DEF Inv, TransfersOK
    <3> QED
      BY <2>1, <3>1, <3>2
  <2>2. CASE q # r
    <3>1. status[q] = "completed" /\ by'[q] = by[q]
      BY <2>2, <1>1
    <3>2. by[q] \in Senders /\ pc[by[q]] = "done"
      BY <3>1 DEF Inv, CompletedOK
    <3>3. pc'[by[q]] = "done"
      BY <3>2, <1>1 DEF Senders, Actors
    <3> QED
      BY <3>1, <3>2, <3>3 DEF Inv, CompletedOK, ToLedger
  <2> QED
    BY <2>1, <2>2
<1> QED
  BY <1>4, <1>5, <1>6, <1>7

----------------------------------------------------------------------------
(* The invariant holds at the start and in every step *)

LEMMA InitInv == Init => Inv
<1> SUFFICES ASSUME Init PROVE Inv
  OBVIOUS
<1>1. TypeOK
  <2>1. NoTx \in Transactions
    BY DEF NoTx, Transactions
  <2> QED
    BY <2>1, OpeningAssumption, LimitsAssumption DEF Init, TypeOK, Live,
       Settling, Addresses
<1>2. BalanceNeverNegative
  BY OpeningAssumption DEF Init, BalanceNeverNegative
<1>3. StagesOK /\ RequestsOK /\ ApprovalsOK /\ SweepsOK /\ TransfersOK /\ CompletedOK
  BY ActorsAssumption DEF Init, StagesOK, RequestsOK, ApprovalsOK, SweepsOK,
     TransfersOK, CompletedOK,
     Settling, NoTx, Actors, Senders
<1> QED
  BY <1>1, <1>2, <1>3 DEF Inv

(* What GiveUp leaves behind has the right type. *)
LEMMA GiveUpTypes ==
  ASSUME Inv, NEW a \in Actors, pc[a] \in Settling, GiveUp(a),
         tx' \in [Actors -> [Users -> Transactions]], onchain' = onchain
  PROVE  TypeOK'
<1>1. status' \in [Requests -> {"none", "pending_review", "approving", "completed", "rejected"}]
  <2>1. CASE a \in Approvals
    BY <2>1 DEF Inv, GiveUp, ReleaseRow, TypeOK
  <2>2. CASE a \notin Approvals
    BY <2>2 DEF Inv, GiveUp, TypeOK
  <2> QED BY <2>1, <2>2
<1>2. pendingFee' \in [Users -> Int] /\ snap' \in [Sweeps -> [Users -> Int]]
  <2>1. CASE a \in Sweeps
    <3>1. RestoreFee(a) /\ wallet[a] \in Users /\ Amount(a) \in Int
      BY <2>1, SettlementIsTyped DEF GiveUp
    <3>2. [snap[a] EXCEPT ![wallet[a]] = 0] \in [Users -> Int]
      BY <2>1, <3>1 DEF Inv, TypeOK
    <3> QED
      <4>1. pendingFee' \in [Users -> Int]
         BY <3>1 DEF Inv, RestoreFee, TypeOK
      <4>2. snap' = [snap EXCEPT ![a] = [snap[a] EXCEPT ![wallet[a]] = 0]]
         BY <3>1 DEF RestoreFee
      <4>3. snap' \in [Sweeps -> [Users -> Int]]
         BY <3>2, <4>2 DEF Inv, TypeOK
      <4> QED BY <4>1, <4>3
  <2>2. CASE a \notin Sweeps
    BY <2>2 DEF Inv, GiveUp, TypeOK
  <2> QED BY <2>1, <2>2
<1>3. pc' \in [Actors -> Live \cup {"idle", "done", "dead"}]
  BY DEF Inv, GiveUp, Goto, TypeOK, Live
<1> QED
  BY <1>1, <1>2, <1>3 DEF Inv, TypeOK, GiveUp, fees

(* A submitted transfer is the one the coroutine was asked to make; no     *)
(* other transfer changes.                                                 *)
LEMMA SubmittedIsPending ==
  ASSUME Inv, NEW a \in Actors, pc[a] = "send", Submitted(a)
  PROVE  /\ tx' \in [Actors -> [Users -> Transactions]]
         /\ tx'[a][Source(a)].to = Dest(a) /\ tx'[a][Source(a)].amount = Amount(a)
         /\ \A b \in Actors : b # a => tx'[b] = tx[b]
         /\ \A b \in Actors, u \in Users : tx'[b][u].status = "pending" =>
              tx'[b][u].chain \in Chains /\ tx'[b][u].to \in Addresses
<1> DEFINE t == [status |-> "pending", chain |-> chain[a], to |-> Dest(a), amount |-> Amount(a)]
<1>1. /\ t \in Transactions /\ t.chain \in Chains /\ t.to \in Addresses
      /\ t.to = Dest(a) /\ t.amount = Amount(a)
  BY SettlementIsTyped DEF Inv, TypeOK, Transactions, TransfersOK, Settling
<1>2. Source(a) \in Users
  BY SettlementIsTyped DEF Settling
<1>3. tx' = [tx EXCEPT ![a][Source(a)] = t]
  BY DEF Submitted
<1> HIDE DEF t
<1>4. tx' \in [Actors -> [Users -> Transactions]]
  BY <1>1, <1>2, <1>3 DEF Inv, TypeOK
<1>5. tx'[a][Source(a)] = t
  BY <1>2, <1>3 DEF Inv, TypeOK
<1>6. \A u \in Users : u # Source(a) => tx'[a][u] = tx[a][u]
  BY <1>3 DEF Inv, TypeOK
<1>7. \A b \in Actors : b # a => tx'[b] = tx[b]
  BY <1>3 DEF Inv, TypeOK
<1> QED
  BY <1>1, <1>4, <1>5, <1>6, <1>7 DEF Inv, TransfersOK

(* The outcome of a transfer changes nothing but its status. *)
LEMMA Recorded ==
  ASSUME Inv, NEW a \in Actors, NEW u \in Users, tx[a][u].status = "pending",
         NEW st \in {"mined", "reverted", "dropped"},
         tx' = [tx EXCEPT ![a][u].status = st],
         UNCHANGED <<pay, table, coroutine>>
  PROVE  tx' \in [Actors -> [Users -> Transactions]] /\ TransfersOK' /\ CompletedOK'
<1> DEFINE t == [tx[a][u] EXCEPT !.status = st]
<1>0. tx[a][u] \in Transactions
  BY DEF Inv, TypeOK
<1>1. /\ t \in Transactions /\ t.status = st
      /\ t.chain = tx[a][u].chain /\ t.to = tx[a][u].to /\ t.amount = tx[a][u].amount
  BY <1>0 DEF Transactions
<1>2. tx' = [tx EXCEPT ![a][u] = t]
  OBVIOUS
<1> HIDE DEF t
<1>3. tx' \in [Actors -> [Users -> Transactions]]
  <2>1. [tx[a] EXCEPT ![u] = t] \in [Users -> Transactions]
    BY <1>1 DEF Inv, TypeOK
  <2>2. tx' = [tx EXCEPT ![a] = [tx[a] EXCEPT ![u] = t]]
    BY <1>2
  <2> QED
    BY <2>1, <2>2 DEF Inv, TypeOK
<1>4. \A b \in Actors, v \in Users :
         /\ tx'[b][v] = IF b = a /\ v = u THEN t ELSE tx[b][v]
         /\ tx'[b][v].to = tx[b][v].to /\ tx'[b][v].amount = tx[b][v].amount
         /\ tx'[b][v].chain = tx[b][v].chain
  BY <1>1, <1>2 DEF Inv, TypeOK
<1>5. TransfersOK'
  <2>1. ASSUME NEW b \in Senders, pc'[b] = "confirm"
        PROVE  tx'[b][Source(b)'].to = Dest(b)' /\ tx'[b][Source(b)'].amount = Amount(b)'
    <3>1. Source(b)' = Source(b) /\ Dest(b)' = Dest(b) /\ Amount(b)' = Amount(b)
      BY DEF Source, Dest, Amount, RowOf, coroutine
    <3>2. Source(b) \in Users
      BY <2>1, SettlementIsTyped DEF Settling, coroutine, Senders, Actors
    <3> QED
      BY <2>1, <3>1, <3>2, <1>4 DEF Inv, TransfersOK, coroutine, Senders,
         Actors
  <2>2. \A b \in Actors, v \in Users : tx'[b][v].status = "pending" => tx[b][v].status = "pending"
    BY <1>1, <1>4
  <2> QED
    BY <2>1, <2>2, <1>4 DEF Inv, TransfersOK, coroutine
<1>6. CompletedOK'
  <2> SUFFICES ASSUME NEW r \in Requests, status'[r] = "completed" PROVE CompletedOK!(r)'
    BY DEF CompletedOK
  <2>1. pay[r].from \in Users
    BY TotalIsNat DEF Inv, TypeOK
  <2> QED
    BY <1>1, <1>4, <2>1 DEF Inv, TypeOK, CompletedOK, ToLedger, table,
       coroutine, Senders, Actors
<1> QED
  BY <1>3, <1>5, <1>6

(* A settlement that raises keeps the invariant, whoever called it. *)
LEMMA GiveUpInv ==
  ASSUME Inv, NEW a \in Actors, pc[a] \in Settling, GiveUp(a), UNCHANGED network
  PROVE  Inv'
<1>1. TypeOK'
  BY GiveUpTypes DEF Inv, TypeOK, network
<1>2. BalanceNeverNegative' /\ StagesOK' /\ SweepsOK'
  BY ActorsAssumption DEF Inv, TypeOK, BalanceNeverNegative, StagesOK,
     SweepsOK, GiveUp, Goto, Settling, Actors
<1>3. RequestsOK' /\ ApprovalsOK'
  <2>1. RequestsOK'
    BY ActorsAssumption, TotalUnchanged DEF Inv, TypeOK, RequestsOK, GiveUp,
       ReleaseRow, Goto, Settling, Actors
  <2>2. ApprovalsOK'
    BY ActorsAssumption, TotalUnchanged DEF Inv, TypeOK, ApprovalsOK, GiveUp,
       ReleaseRow, Goto, Settling, Actors
  <2> QED
    BY <2>1, <2>2
<1>4. TransfersOK' /\ CompletedOK'
  <2>1. /\ \A b \in Actors : b # a => pc'[b] = pc[b]
        /\ pc'[a] \in {"next", "done"} /\ pc[a] # "done"
        /\ UNCHANGED <<pay, tx, chain, held, by>>
    BY DEF Inv, TypeOK, GiveUp, Goto, network, Settling
  <2>2. \A r \in Requests : status'[r] = "completed" => status[r] = "completed"
    BY DEF Inv, TypeOK, GiveUp, ReleaseRow
  <2>3. \A b \in Senders : pc[b] = "done" => pc'[b] = "done"
    BY <2>1 DEF Senders, Actors
  <2>4. \A b \in Actors : pc'[b] \in {"send", "confirm"} => pc'[b] = pc[b]
    BY <2>1
  <2>5. Approvals \subseteq Actors /\ Senders \subseteq Actors
    BY DEF Senders, Actors
  <2>6. Steady
    BY <2>1, <2>2, <2>3, <2>4, <2>5 DEF Steady
  <2> QED
    BY <2>6, SteadyKeeps
<1> QED
  BY <1>1, <1>2, <1>3, <1>4 DEF Inv

(* Executing a transfer keeps the types. *)
LEMMA MineTypes == ASSUME Inv, NEW a \in Actors, NEW u \in Users, Mine(a, u) PROVE TypeOK'
<1> DEFINE t == tx[a][u]
<1>1. t \in Transactions /\ t.status = "pending" /\ t.chain \in Chains /\ t.to \in Addresses /\ t.amount \in Int
  BY DEF Inv, TypeOK, TransfersOK, Mine, Transactions
<1>2. PICK st \in {"mined", "reverted"} : tx' = [tx EXCEPT ![a][u].status = st]
  BY Zenon DEF Mine
<1>3. [t EXCEPT !.status = st] \in Transactions
  BY <1>1 DEF Transactions
<1>4. tx' \in [Actors -> [Users -> Transactions]]
  BY <1>2, <1>3 DEF Inv, TypeOK
<1>5. onchain' \in [Addresses -> [Chains -> Int]]
  <2> DEFINE spent == [onchain EXCEPT ![u][t.chain] = @ - t.amount]
             paid  == [spent EXCEPT ![t.to][t.chain] = @ + t.amount]
  <2>1. spent \in [Addresses -> [Chains -> Int]]
    <3>1. [onchain[u] EXCEPT ![t.chain] = onchain[u][t.chain] - t.amount] \in [Chains -> Int]
      BY <1>1 DEF Inv, TypeOK, Addresses
    <3> QED BY <3>1 DEF Inv, TypeOK, Addresses
  <2>2. paid \in [Addresses -> [Chains -> Int]]
    <3> HIDE DEF spent, t
    <3>1. [spent[t.to] EXCEPT ![t.chain] = spent[t.to][t.chain] + t.amount] \in [Chains -> Int]
      BY <1>1, <2>1
    <3> QED BY <1>1, <2>1, <3>1
  <2>3. onchain' = paid \/ onchain' = onchain
    BY Zenon DEF Mine
  <2> QED BY Zenon, <2>2, <2>3 DEF Inv, TypeOK
<1> QED
  BY Zenon, <1>4, <1>5 DEF Inv, TypeOK, Mine, ledger, table, coroutine, fees

LEMMA RefuseInv == ASSUME Inv, NEW r \in Requests, Refuse(r) PROVE Inv'
<1>1. TypeOK'
  BY DEF Inv, TypeOK, Refuse, Goto, ledger, table, fees, network, Settling,
     Actors
<1>2. BalanceNeverNegative' /\ StagesOK' /\ SweepsOK'
  BY DEF Inv, TypeOK, BalanceNeverNegative, RequestsOK, ApprovalsOK,
     StagesOK, SweepsOK, Refuse, Goto, ledger, table, fees, network, Settling,
     Actors
<1>3. RequestsOK' /\ ApprovalsOK'
  <2>1. RequestsOK'
    BY TotalUnchanged DEF Inv, TypeOK, RequestsOK, Refuse, Goto, ledger,
       table, fees, network, Settling, Actors
  <2>2. ApprovalsOK'
    <3>1. Undisturbed
      BY AtWork DEF Undisturbed, Refuse, Goto, ledger, table,
         Settling, Actors
    <3> QED
      BY <3>1, ApprovalsKept DEF Inv
  <2> QED
    BY <2>1, <2>2
<1>4. TransfersOK' /\ CompletedOK'
  <2>1. Steady
    BY AtWork DEF Steady, Refuse, Goto, table, network, Settling, Actors,
       Senders
  <2> QED
    BY <2>1, SteadyKeeps
<1> QED
  BY <1>1, <1>2, <1>3, <1>4 DEF Inv

LEMMA SettleInternalInv == ASSUME Inv, NEW r \in Requests, SettleInternal(r) PROVE Inv'
<1>1. TypeOK'
  BY TotalIsNat, ActorsAssumption, FeesAssumption DEF Inv, TypeOK,
     SettleInternal, Accepted, Goto, table, fees, network, Actors, ToLedger
<1>2. BalanceNeverNegative'
  <2>1. balance \in [Users -> Int] /\ pay \in [Requests -> Payments]
    BY DEF Inv, TypeOK
  <2>2. Total(r) \in Nat /\ pay[r].amount \in Nat
    BY <2>1, TotalIsNat
  <2>3. /\ balance' = [balance EXCEPT ![pay[r].from] = @ - Total(r), ![pay[r].to] = @ + pay[r].amount]
        /\ pay[r].to # pay[r].from /\ balance[pay[r].from] >= Total(r)
    BY DEF SettleInternal, Accepted
  <2>4. \A u \in Users : balance[u] >= 0
    BY DEF Inv, BalanceNeverNegative
  <2> QED
    BY <2>1, <2>2, <2>3, <2>4 DEF BalanceNeverNegative
<1>3. StagesOK' /\ SweepsOK'
  BY DEF Inv, TypeOK, StagesOK, SweepsOK, SettleInternal, Accepted, Goto,
     fees, network, Settling, Actors
<1>4. RequestsOK' /\ ApprovalsOK' /\ TransfersOK' /\ CompletedOK'
  <2>1. /\ ToLedger(r) /\ pc[r] = "idle" /\ pc' = [pc EXCEPT ![r] = "done"]
        /\ status' = [status EXCEPT ![r] = "completed"] /\ by' = [by EXCEPT ![r] = r]
        /\ UNCHANGED <<pay, seen, held, wallet, snap, chain, tx>>
    BY DEF SettleInternal, Accepted, Goto, network
  <2> QED
    BY <2>1, Completing DEF Senders
<1> QED
  BY <1>1, <1>2, <1>3, <1>4 DEF Inv

LEMMA StartExternalInv == ASSUME Inv, NEW r \in Requests, StartExternal(r) PROVE Inv'
<1>1. TypeOK'
  BY TotalIsNat DEF Inv, TypeOK, StartExternal, Accepted, Goto, ledger,
     table, fees, network, Settling, Actors, Live
<1>2. BalanceNeverNegative' /\ StagesOK' /\ SweepsOK'
  BY ActorsAssumption DEF Inv, TypeOK, BalanceNeverNegative, RequestsOK,
     ApprovalsOK, StagesOK, SweepsOK, StartExternal, Accepted, Goto, ledger,
     table, fees, network, Settling, Actors
<1>3. RequestsOK' /\ ApprovalsOK'
  <2>1. RequestsOK'
    BY TotalUnchanged DEF Inv, TypeOK, RequestsOK, StartExternal, Accepted,
       Goto, ledger, table, fees, network, Settling, Actors
  <2>2. ApprovalsOK'
    <3>1. Undisturbed
      BY AtWork DEF Undisturbed, StartExternal, Accepted, Goto,
         ledger, table, Settling, Actors
    <3> QED
      BY <3>1, ApprovalsKept DEF Inv
  <2> QED
    BY <2>1, <2>2
<1>4. TransfersOK' /\ CompletedOK'
  <2>1. Steady
    BY AtWork DEF Steady, StartExternal, Accepted, Goto, table, network,
       Settling, Actors, Senders
  <2> QED
    BY <2>1, SteadyKeeps
<1> QED
  BY <1>1, <1>2, <1>3, <1>4 DEF Inv

LEMMA HoldInv == ASSUME Inv, NEW r \in Requests, Hold(r) PROVE Inv'
<1>1. TypeOK'
  BY DEF Inv, TypeOK, Hold, Goto, ledger, fees, network, Settling, Actors
<1>2. BalanceNeverNegative' /\ StagesOK' /\ SweepsOK'
  BY DEF Inv, TypeOK, BalanceNeverNegative, RequestsOK, ApprovalsOK,
     StagesOK, SweepsOK, Hold, Goto, ledger, fees, network, Settling, Actors
<1>3. RequestsOK' /\ ApprovalsOK'
  <2>1. RequestsOK'
    BY TotalUnchanged DEF Inv, TypeOK, RequestsOK, Hold, Goto, ledger, fees,
       network, Settling, Actors
  <2>2. ApprovalsOK'
    <3>1. Undisturbed
      BY AtWork DEF Undisturbed, Hold, Goto, ledger, Settling, Actors
    <3> QED
      BY <3>1, ApprovalsKept DEF Inv
  <2> QED
    BY <2>1, <2>2
<1>4. TransfersOK' /\ CompletedOK'
  <2>1. Steady
    BY AtWork DEF Steady, Hold, Goto, network, Settling, Actors, Senders,
       table
  <2> QED
    BY <2>1, SteadyKeeps
<1> QED
  BY <1>1, <1>2, <1>3, <1>4 DEF Inv

LEMMA DeclineInv == ASSUME Inv, NEW r \in Requests, Decline(r) PROVE Inv'
<1>1. TypeOK'
  BY DEF Inv, TypeOK, Decline, Goto, ledger, table, fees, network, Settling,
     Actors
<1>2. BalanceNeverNegative' /\ StagesOK' /\ SweepsOK'
  BY DEF Inv, TypeOK, BalanceNeverNegative, RequestsOK, ApprovalsOK,
     StagesOK, SweepsOK, Decline, Goto, ledger, table, fees, network, Settling,
     Actors
<1>3. RequestsOK' /\ ApprovalsOK'
  <2>1. RequestsOK'
    BY TotalUnchanged DEF Inv, TypeOK, RequestsOK, Decline, Goto, ledger,
       table, fees, network, Settling, Actors
  <2>2. ApprovalsOK'
    <3>1. Undisturbed
      BY AtWork DEF Undisturbed, Decline, Goto, ledger, table,
         Settling, Actors
    <3> QED
      BY <3>1, ApprovalsKept DEF Inv
  <2> QED
    BY <2>1, <2>2
<1>4. TransfersOK' /\ CompletedOK'
  <2>1. Steady
    BY AtWork DEF Steady, Decline, Goto, table, network, Settling, Actors,
       Senders
  <2> QED
    BY <2>1, SteadyKeeps
<1> QED
  BY <1>1, <1>2, <1>3, <1>4 DEF Inv

LEMMA ProceedInv == ASSUME Inv, NEW r \in Requests, Proceed(r) PROVE Inv'
<1>1. TypeOK'
  BY DEF Inv, TypeOK, Proceed, Goto, ledger, table, fees, network, Settling,
     Actors, Live
<1>2. BalanceNeverNegative' /\ StagesOK' /\ SweepsOK'
  BY DEF Inv, TypeOK, BalanceNeverNegative, RequestsOK, ApprovalsOK,
     StagesOK, SweepsOK, Proceed, Goto, ledger, table, fees, network, Settling,
     Actors
<1>3. RequestsOK' /\ ApprovalsOK'
  <2>1. RequestsOK'
    BY ActorsAssumption, TotalUnchanged DEF Inv, TypeOK, RequestsOK, Proceed,
       Goto, ledger, table, fees, network, Settling, Actors
  <2>2. ApprovalsOK'
    <3>1. Undisturbed
      BY AtWork, ActorsAssumption DEF Undisturbed, Proceed, Goto,
         ledger, table, Settling, Actors
    <3> QED
      BY <3>1, ApprovalsKept DEF Inv
  <2> QED
    BY <2>1, <2>2
<1>4. TransfersOK' /\ CompletedOK'
  <2>1. Steady
    BY AtWork DEF Steady, Proceed, Goto, table, network, Settling, Actors,
       Senders
  <2> QED
    BY <2>1, SteadyKeeps
<1> QED
  BY <1>1, <1>2, <1>3, <1>4 DEF Inv

LEMMA FinishSendInv == ASSUME Inv, NEW r \in Requests, FinishSend(r) PROVE Inv'
<1>1. TypeOK'
  <2>1. CASE KeyTaken(r)
    BY <2>1 DEF Inv, FinishSend, TypeOK, Goto, ledger, table, fees, network, Actors
  <2>2. CASE ~ KeyTaken(r)
    <3>1. Complete(r, r) BY <2>2 DEF FinishSend
    <3>2. Total(r) \in Nat /\ Fee(r) \in Nat /\ pay[r].from \in Users BY TotalIsNat DEF Inv, TypeOK
    <3>3. balance' \in [Users -> Int] /\ pendingFee' \in [Users -> Int]
       BY <3>1, <3>2 DEF Inv, Complete, TypeOK, Actors
    <3>4. status' \in [Requests -> {"none", "pending_review", "approving", "completed", "rejected"}] /\ by' \in [Requests -> Actors \cup {None}]
       BY <3>1 DEF Inv, Complete, TypeOK, Actors
    <3> QED
    BY <3>3, <3>4 DEF Inv, FinishSend, TypeOK, Goto, fees, network, Actors
  <2> QED BY <2>1, <2>2
<1>2. BalanceNeverNegative'
  <2>1. CASE KeyTaken(r)
    BY <2>1 DEF Inv, FinishSend, BalanceNeverNegative, ledger
  <2>2. CASE ~ KeyTaken(r)
    <3>1. balance' = [balance EXCEPT ![pay[r].from] = seen[r] - Total(r)] BY <2>2 DEF FinishSend, Complete
    <3>2. seen[r] >= Total(r) /\ pc[r] = "confirm" BY DEF Inv, FinishSend, RequestsOK, Confirmed, Settling
    <3>3. Total(r) \in Nat /\ pay[r].from \in Users BY TotalIsNat DEF Inv, TypeOK
    <3> QED BY <3>1, <3>2, <3>3 DEF Inv, BalanceNeverNegative, TypeOK, Actors
  <2> QED BY <2>1, <2>2
<1>3. StagesOK' /\ SweepsOK'
  BY DEF Inv, TypeOK, StagesOK, SweepsOK, FinishSend, Confirmed, Complete,
     Goto, ledger, table, fees, network, Settling, Actors
<1>4. RequestsOK' /\ ApprovalsOK' /\ TransfersOK' /\ CompletedOK'
  <2>1. /\ pc[r] = "confirm" /\ tx[r][Source(r)].status = "mined" /\ RowOf(r) = r
        /\ pc' = [pc EXCEPT ![r] = "done"]
        /\ UNCHANGED <<pay, seen, held, wallet, snap, chain, tx>>
    BY ActorsAssumption DEF FinishSend, Confirmed, Goto, network, RowOf
  <2>2. CASE KeyTaken(r)
    <3>1. status' = status /\ by' = by
      BY <2>2 DEF FinishSend, table
    <3>2. /\ r \in Actors /\ Requests \subseteq Actors
          /\ \A b \in Actors : pc'[b] = IF b = r THEN "done" ELSE pc[b]
      BY <2>1 DEF Inv, TypeOK, Actors
    <3>3. RequestsOK'
      BY <2>1, <3>1, <3>2, TotalUnchanged DEF Inv, RequestsOK, Settling
    <3>4. Undisturbed
      BY <2>1, <3>1, <3>2 DEF Undisturbed, Settling, Actors
    <3>5. Steady
      BY <2>1, <3>1, <3>2 DEF Steady, Senders, Actors
    <3> QED
      BY <3>3, <3>4, <3>5, ApprovalsKept, SteadyKeeps DEF Inv
  <2>3. CASE ~ KeyTaken(r)
    <3>1. status' = [status EXCEPT ![r] = "completed"] /\ by' = [by EXCEPT ![r] = r]
      BY <2>3 DEF FinishSend, Complete
    <3> QED
      BY <2>1, <3>1, Completing DEF Senders
  <2> QED
    BY <2>2, <2>3
<1> QED
  BY <1>1, <1>2, <1>3, <1>4 DEF Inv

LEMMA ApproveInv == ASSUME Inv, NEW a \in Approvals, NEW r \in Requests, Approve(a, r) PROVE Inv'
<1>1. TypeOK'
  BY TotalIsNat DEF Inv, TypeOK, Approve, Goto, ledger, fees, network,
     Settling, Actors, Live
<1>2. BalanceNeverNegative' /\ StagesOK' /\ SweepsOK'
  BY ActorsAssumption DEF Inv, TypeOK, BalanceNeverNegative, RequestsOK,
     ApprovalsOK, StagesOK, SweepsOK, Approve, Goto, ledger, fees, network,
     Settling, Actors
<1>3. RequestsOK' /\ ApprovalsOK'
  <2>1. RequestsOK'
    BY ActorsAssumption, TotalUnchanged DEF Inv, TypeOK, RequestsOK, Approve,
       Goto, ledger, fees, network, Settling, Actors
  <2>2. ApprovalsOK'
    BY ActorsAssumption, TotalUnchanged DEF Inv, TypeOK, ApprovalsOK, Approve,
       Goto, ledger, fees, network, Settling, Actors
  <2> QED
    BY <2>1, <2>2
<1>4. TransfersOK' /\ CompletedOK'
  <2>1. Steady
    BY AtWork DEF Steady, Approve, Goto, network, Settling, Actors, Senders,
       table
  <2> QED
    BY <2>1, SteadyKeeps
<1> QED
  BY <1>1, <1>2, <1>3, <1>4 DEF Inv

LEMMA RejectInv == ASSUME Inv, NEW r \in Requests, Reject(r) PROVE Inv'
<1>1. TypeOK'
  BY DEF Inv, TypeOK, Reject, ledger, coroutine, fees, network, Settling,
     Actors
<1>2. BalanceNeverNegative' /\ StagesOK' /\ SweepsOK'
  BY DEF Inv, TypeOK, BalanceNeverNegative, RequestsOK, ApprovalsOK,
     StagesOK, SweepsOK, Reject, ledger, coroutine, fees, network, Settling,
     Actors
<1>3. RequestsOK' /\ ApprovalsOK'
  <2>1. RequestsOK'
    BY TotalUnchanged DEF Inv, TypeOK, RequestsOK, Reject, ledger, coroutine,
       fees, network, Settling, Actors
  <2>2. ApprovalsOK'
    <3>1. Undisturbed
      BY AtWork DEF Undisturbed, Reject, ledger, coroutine, Settling,
         Actors
    <3> QED
      BY <3>1, ApprovalsKept DEF Inv
  <2> QED
    BY <2>1, <2>2
<1>4. TransfersOK' /\ CompletedOK'
  <2>1. Steady
    BY AtWork DEF Steady, Reject, coroutine, network, Settling, Actors,
       Senders, table
  <2> QED
    BY <2>1, SteadyKeeps
<1> QED
  BY <1>1, <1>2, <1>3, <1>4 DEF Inv

LEMMA FinishApprovalInv == ASSUME Inv, NEW a \in Approvals, FinishApproval(a) PROVE Inv'
<1>1. TypeOK'
  BY SettlementIsTyped, TotalIsNat DEF Inv, TypeOK, FinishApproval,
     Confirmed, Complete, Goto, fees, network, Settling, Actors
<1>2. BalanceNeverNegative' /\ StagesOK' /\ SweepsOK'
  BY TotalIsNat DEF Inv, TypeOK, BalanceNeverNegative, RequestsOK,
     ApprovalsOK, StagesOK, SweepsOK, FinishApproval, Confirmed, Complete,
     Goto, fees, network, Settling, Actors
<1>3. RequestsOK' /\ ApprovalsOK' /\ TransfersOK' /\ CompletedOK'
  <2>1. /\ pc[a] = "confirm" /\ tx[a][Source(a)].status = "mined" /\ RowOf(a) = held[a]
        /\ pc' = [pc EXCEPT ![a] = "done"]
        /\ status' = [status EXCEPT ![held[a]] = "completed"] /\ by' = [by EXCEPT ![held[a]] = a]
        /\ UNCHANGED <<pay, seen, held, wallet, snap, chain, tx>>
    BY DEF FinishApproval, Confirmed, Complete, Goto, network, RowOf
  <2>2. held[a] \in Requests
    BY <2>1, AtWork DEF Settling
  <2> QED
    BY <2>1, <2>2, Completing DEF Senders
<1> QED
  BY <1>1, <1>2, <1>3 DEF Inv

LEMMA StartSweepInv == ASSUME Inv, NEW s \in Sweeps, StartSweep(s) PROVE Inv'
<1>1. TypeOK'
  BY DEF Inv, TypeOK, StartSweep, Goto, ledger, table, fees, network,
     Settling, Actors, Live
<1>2. BalanceNeverNegative' /\ StagesOK' /\ SweepsOK'
  BY ActorsAssumption DEF Inv, TypeOK, BalanceNeverNegative, RequestsOK,
     ApprovalsOK, StagesOK, SweepsOK, StartSweep, Goto, ledger, table, fees,
     network, Settling, Actors
<1>3. RequestsOK' /\ ApprovalsOK'
  <2>1. RequestsOK'
    BY TotalUnchanged DEF Inv, TypeOK, RequestsOK, StartSweep, Goto, ledger,
       table, fees, network, Settling, Actors
  <2>2. ApprovalsOK'
    <3>1. Undisturbed
      BY AtWork DEF Undisturbed, StartSweep, Goto, ledger, table,
         Settling, Actors
    <3> QED
      BY <3>1, ApprovalsKept DEF Inv
  <2> QED
    BY <2>1, <2>2
<1>4. TransfersOK' /\ CompletedOK'
  <2>1. Steady
    BY AtWork DEF Steady, StartSweep, Goto, table, network, Settling, Actors,
       Senders
  <2> QED
    BY <2>1, SteadyKeeps
<1> QED
  BY <1>1, <1>2, <1>3, <1>4 DEF Inv

LEMMA ClaimFeeInv == ASSUME Inv, NEW s \in Sweeps, NEW u \in Users, ClaimFee(s, u) PROVE Inv'
<1>1. CASE pendingFee[u] = snap[s][u]
  <2>1. /\ pc[s] = "next" /\ pc' = [pc EXCEPT ![s] = "settle"]
        /\ pendingFee' = [pendingFee EXCEPT ![u] = 0] /\ wallet' = [wallet EXCEPT ![s] = u]
        /\ UNCHANGED <<balance, status, by, pay, seen, held, snap, run, audited, collected,
                       chain, tx, onchain, crashes>>
    BY <1>1 DEF ClaimFee, Goto, table, fees, network
  <2>2. pc' \in [Actors -> Live \cup {"idle", "done", "dead"}]
    <3>1. pc \in [Actors -> Live \cup {"idle", "done", "dead"}]
      BY DEF Inv, TypeOK
    <3> QED
      BY <2>1, <3>1 DEF Live, Settling
  <2>3. TypeOK' /\ BalanceNeverNegative'
    BY <2>1, <2>2 DEF Inv, TypeOK, BalanceNeverNegative
  <2>4. StagesOK' /\ SweepsOK'
    BY <2>1, AtWork, ActorsAssumption DEF Inv, TypeOK, StagesOK, SweepsOK, Settling, Actors
  <2>5. RequestsOK'
    BY <2>1, AtWork, ActorsAssumption, TotalUnchanged DEF Inv, RequestsOK, Settling, Actors
  <2>6. ApprovalsOK'
    <3>1. Undisturbed
      BY <2>1, AtWork, ActorsAssumption DEF Undisturbed, Settling, Actors
    <3> QED
      BY <3>1, ApprovalsKept DEF Inv
  <2>7. TransfersOK' /\ CompletedOK'
    <3>1. Steady
      BY <2>1, AtWork, ActorsAssumption DEF Steady, Settling, Actors, Senders
    <3> QED
      BY <3>1, SteadyKeeps
  <2> QED
    BY <2>3, <2>4, <2>5, <2>6, <2>7 DEF Inv
<1>2. CASE pendingFee[u] # snap[s][u]
  <2>1. /\ snap' = [snap EXCEPT ![s][u] = 0]
        /\ UNCHANGED <<balance, pendingFee, status, by, pay, pc, seen, held, wallet, run, audited,
                       collected, chain, tx, onchain, crashes>>
    BY <1>2 DEF ClaimFee, table, fees, network
  <2>2. snap' \in [Sweeps -> [Users -> Int]]
    <3>1. snap \in [Sweeps -> [Users -> Int]]
      BY DEF Inv, TypeOK
    <3>2. [snap[s] EXCEPT ![u] = 0] \in [Users -> Int]
      BY <3>1
    <3> QED
      BY <2>1, <3>1, <3>2
  <2>3. TypeOK' /\ BalanceNeverNegative'
    BY <2>1, <2>2 DEF Inv, TypeOK, BalanceNeverNegative
  <2>4. StagesOK' /\ SweepsOK'
    BY <2>1 DEF Inv, StagesOK, SweepsOK
  <2>5. RequestsOK'
    BY <2>1, TotalUnchanged DEF Inv, RequestsOK
  <2>6. ApprovalsOK'
    <3>1. Undisturbed
      BY <2>1 DEF Undisturbed
    <3> QED
      BY <3>1, ApprovalsKept DEF Inv
  <2>7. TransfersOK' /\ CompletedOK'
    <3>1. Steady
      BY <2>1 DEF Steady
    <3> QED
      BY <3>1, SteadyKeeps
  <2> QED
    BY <2>3, <2>4, <2>5, <2>6, <2>7 DEF Inv
<1> QED
  BY <1>1, <1>2

LEMMA EndSweepInv == ASSUME Inv, NEW s \in Sweeps, EndSweep(s) PROVE Inv'
<1>1. TypeOK'
  BY DEF Inv, TypeOK, EndSweep, Goto, ledger, table, network, Settling, Actors
<1>2. BalanceNeverNegative' /\ StagesOK' /\ SweepsOK'
  BY DEF Inv, TypeOK, BalanceNeverNegative, RequestsOK, ApprovalsOK,
     StagesOK, SweepsOK, EndSweep, Goto, ledger, table, network, Settling,
     Actors
<1>3. RequestsOK' /\ ApprovalsOK'
  <2>1. RequestsOK'
    BY TotalUnchanged DEF Inv, TypeOK, RequestsOK, EndSweep, Goto, ledger,
       table, network, Settling, Actors
  <2>2. ApprovalsOK'
    <3>1. Undisturbed
      BY AtWork DEF Undisturbed, EndSweep, Goto, ledger, table,
         Settling, Actors
    <3> QED
      BY <3>1, ApprovalsKept DEF Inv
  <2> QED
    BY <2>1, <2>2
<1>4. TransfersOK' /\ CompletedOK'
  <2>1. Steady
    BY AtWork DEF Steady, EndSweep, Goto, table, network, Settling, Actors,
       Senders
  <2> QED
    BY <2>1, SteadyKeeps
<1> QED
  BY <1>1, <1>2, <1>3, <1>4 DEF Inv

LEMMA FinishSweepInv == ASSUME Inv, NEW s \in Sweeps, FinishSweep(s) PROVE Inv'
<1>1. TypeOK'
  BY SettlementIsTyped DEF Inv, TypeOK, FinishSweep, Confirmed, Goto,
     ledger, table, network, Settling, Actors, Live
<1>2. BalanceNeverNegative' /\ StagesOK' /\ SweepsOK'
  BY ActorsAssumption DEF Inv, TypeOK, BalanceNeverNegative, RequestsOK,
     ApprovalsOK, StagesOK, SweepsOK, FinishSweep, Confirmed, Goto, ledger,
     table, network, Settling, Actors
<1>3. RequestsOK' /\ ApprovalsOK'
  <2>1. RequestsOK'
    BY TotalUnchanged DEF Inv, TypeOK, RequestsOK, FinishSweep, Confirmed,
       Goto, ledger, table, network, Settling, Actors
  <2>2. ApprovalsOK'
    <3>1. Undisturbed
      BY AtWork DEF Undisturbed, FinishSweep, Confirmed, Goto,
         ledger, table, Settling, Actors
    <3> QED
      BY <3>1, ApprovalsKept DEF Inv
  <2> QED
    BY <2>1, <2>2
<1>4. TransfersOK' /\ CompletedOK'
  <2>1. Steady
    BY AtWork DEF Steady, FinishSweep, Confirmed, Goto, table, network,
       Settling, Actors, Senders
  <2> QED
    BY <2>1, SteadyKeeps
<1> QED
  BY <1>1, <1>2, <1>3, <1>4 DEF Inv

LEMMA CancelSweepInv == ASSUME Inv, NEW s \in Sweeps, CancelSweep(s) PROVE Inv'
<1>1. TypeOK'
  BY SettlementIsTyped DEF Inv, TypeOK, CancelSweep, RestoreFee, Goto,
     table, fees, network, Settling, Actors
<1>2. BalanceNeverNegative' /\ StagesOK' /\ SweepsOK'
  BY DEF Inv, TypeOK, BalanceNeverNegative, RequestsOK, ApprovalsOK,
     StagesOK, SweepsOK, CancelSweep, RestoreFee, Goto, table, fees, network,
     Settling, Actors
<1>3. RequestsOK' /\ ApprovalsOK'
  <2>1. RequestsOK'
    BY TotalUnchanged DEF Inv, TypeOK, RequestsOK, CancelSweep, RestoreFee,
       Goto, table, fees, network, Settling, Actors
  <2>2. ApprovalsOK'
    <3>1. Undisturbed
      BY AtWork DEF Undisturbed, CancelSweep, RestoreFee, Goto,
         table, Settling, Actors
    <3> QED
      BY <3>1, ApprovalsKept DEF Inv
  <2> QED
    BY <2>1, <2>2
<1>4. TransfersOK' /\ CompletedOK'
  <2>1. Steady
    BY AtWork DEF Steady, CancelSweep, RestoreFee, Goto, table, network,
       Settling, Actors, Senders
  <2> QED
    BY <2>1, SteadyKeeps
<1> QED
  BY <1>1, <1>2, <1>3, <1>4 DEF Inv

LEMMA ScreenedInv == ASSUME Inv, NEW a \in Actors, Screened(a) PROVE Inv'
<1>1. TypeOK'
  BY DEF Inv, TypeOK, Screened, Goto, ledger, table, fees, network,
     Settling, Actors, Live
<1>2. BalanceNeverNegative' /\ StagesOK' /\ SweepsOK'
  BY DEF Inv, TypeOK, BalanceNeverNegative, RequestsOK, ApprovalsOK,
     StagesOK, SweepsOK, Screened, Goto, ledger, table, fees, network,
     Settling, Actors
<1>3. RequestsOK' /\ ApprovalsOK'
  <2>1. RequestsOK'
    BY TotalUnchanged DEF Inv, TypeOK, RequestsOK, Screened, Goto, ledger,
       table, fees, network, Settling, Actors
  <2>2. ApprovalsOK'
    <3>1. Undisturbed
      BY AtWork DEF Undisturbed, Screened, Goto, ledger, table,
         Settling, Actors
    <3> QED
      BY <3>1, ApprovalsKept DEF Inv
  <2> QED
    BY <2>1, <2>2
<1>4. TransfersOK' /\ CompletedOK'
  <2>1. Steady
    BY AtWork DEF Steady, Screened, Goto, table, network, Settling, Actors,
       Senders
  <2> QED
    BY <2>1, SteadyKeeps
<1> QED
  BY <1>1, <1>2, <1>3, <1>4 DEF Inv

LEMMA ChooseChainInv == ASSUME Inv, NEW a \in Actors, NEW c \in Chains, ChooseChain(a, c) PROVE Inv'
<1>0. /\ pc[a] = "settle" /\ pc' = [pc EXCEPT ![a] = "send"] /\ chain' = [chain EXCEPT ![a] = c]
      /\ UNCHANGED <<status, by, pay, seen, held, wallet, snap, tx>>
      /\ \A b \in Actors : pc'[b] = IF b = a THEN "send" ELSE pc[b]
      /\ \A b \in Actors : chain'[b] = IF b = a THEN c ELSE chain[b]
  BY DEF Inv, TypeOK, ChooseChain, Goto, table, network
<1>1. TypeOK'
  BY DEF Inv, TypeOK, ChooseChain, Goto, ledger, table, fees, network,
     Settling, Actors, Live
<1>2. BalanceNeverNegative' /\ StagesOK' /\ SweepsOK'
  BY DEF Inv, TypeOK, BalanceNeverNegative, RequestsOK, ApprovalsOK,
     StagesOK, SweepsOK, ChooseChain, Goto, ledger, table, fees, network,
     Settling, Actors
<1>3. RequestsOK' /\ ApprovalsOK'
  <2>1. RequestsOK'
    BY TotalUnchanged DEF Inv, TypeOK, RequestsOK, ChooseChain, Goto, ledger,
       table, fees, network, Settling, Actors
  <2>2. ApprovalsOK'
    <3>1. Undisturbed
      BY <1>0 DEF Undisturbed, Settling, Actors
    <3> QED
      BY <3>1, ApprovalsKept DEF Inv
  <2> QED
    BY <2>1, <2>2
<1>4. TransfersOK' /\ CompletedOK'
  <2>1. Steady
    BY <1>0 DEF Steady, Senders, Actors
  <2> QED
    BY <2>1, SteadyKeeps
<1> QED
  BY <1>1, <1>2, <1>3, <1>4 DEF Inv

LEMMA FailBeforeBroadcastInv == ASSUME Inv, NEW a \in Actors, FailBeforeBroadcast(a) PROVE Inv'
  BY GiveUpInv DEF FailBeforeBroadcast, Settling, network, Inv, TypeOK

LEMMA BroadcastInv == ASSUME Inv, NEW a \in Actors, Broadcast(a) PROVE Inv'
<1>0. pc[a] = "send" /\ Submitted(a)
  BY DEF Broadcast
<1>1. TypeOK'
  BY <1>0, SubmittedIsPending DEF Inv, TypeOK, Broadcast, Goto, ledger,
     table, fees, Settling, Live
<1>2. BalanceNeverNegative' /\ StagesOK' /\ SweepsOK'
  BY DEF Inv, TypeOK, BalanceNeverNegative, RequestsOK, ApprovalsOK,
     StagesOK, SweepsOK, Broadcast, Submitted, Goto, ledger, table, fees,
     Settling, Actors
<1>3. RequestsOK' /\ ApprovalsOK'
  <2>1. RequestsOK'
    BY TotalUnchanged DEF Inv, TypeOK, RequestsOK, Broadcast, Submitted, Goto,
       ledger, table, fees, Settling, Actors
  <2>2. ApprovalsOK'
    <3>1. Undisturbed
      BY AtWork DEF Undisturbed, Broadcast, Submitted, Goto, ledger,
         table, Settling, Actors
    <3> QED
      BY <3>1, ApprovalsKept DEF Inv
  <2> QED
    BY <2>1, <2>2
<1>4. TransfersOK'
  <2>1. /\ pc' = [pc EXCEPT ![a] = "confirm"] /\ chain' = chain /\ pay' = pay
        /\ held' = held /\ wallet' = wallet /\ snap' = snap
    BY DEF Broadcast, Goto
  <2>2. \A b \in Actors : pc'[b] \in {"send", "confirm"} => chain'[b] \in Chains
    BY <1>0, <2>1 DEF Inv, TypeOK, TransfersOK
  <2>3. ASSUME NEW b \in Senders, pc'[b] = "confirm"
        PROVE  tx'[b][Source(b)'].to = Dest(b)' /\ tx'[b][Source(b)'].amount = Amount(b)'
    <3>1. Source(b)' = Source(b) /\ Dest(b)' = Dest(b) /\ Amount(b)' = Amount(b)
      BY <2>1 DEF Source, Dest, Amount, RowOf
    <3>2. CASE b = a
      BY <1>0, <3>1, <3>2, SubmittedIsPending
    <3>3. CASE b # a
      BY <1>0, <2>1, <2>3, <3>1, <3>3, SubmittedIsPending DEF Inv, TypeOK,
         TransfersOK, Senders, Actors
    <3> QED
      BY <3>2, <3>3
  <2> QED
    BY <1>0, <2>2, <2>3, SubmittedIsPending DEF TransfersOK
<1>5. CompletedOK'
  BY DEF Inv, TypeOK, CompletedOK, ToLedger, Broadcast, Submitted, Goto,
     ledger, table, fees, Settling, Actors, Senders
<1> QED
  BY <1>1, <1>2, <1>3, <1>4, <1>5 DEF Inv

LEMMA AnswerLostInv == ASSUME Inv, NEW a \in Actors, AnswerLost(a) PROVE Inv'
<1>0. pc[a] = "send" /\ Submitted(a) /\ GiveUp(a) /\ onchain' = onchain
  BY DEF AnswerLost
<1>1. TypeOK'
  <2>1. tx' \in [Actors -> [Users -> Transactions]]
    BY <1>0, SubmittedIsPending
  <2> QED 
   BY <1>0, <2>1, GiveUpTypes DEF Settling
<1>2. BalanceNeverNegative' /\ StagesOK' /\ SweepsOK'
  BY ActorsAssumption DEF Inv, TypeOK, BalanceNeverNegative, RequestsOK,
     ApprovalsOK, StagesOK, SweepsOK, AnswerLost, GiveUp, Submitted,
     ReleaseRow, RestoreFee, Goto, fees, Settling, Actors
<1>3. RequestsOK' /\ ApprovalsOK'
  <2>1. RequestsOK'
    BY TotalUnchanged DEF Inv, TypeOK, RequestsOK, AnswerLost, GiveUp,
       Submitted, ReleaseRow, RestoreFee, Goto, fees, Settling, Actors
  <2>2. ApprovalsOK'
    BY TotalUnchanged DEF Inv, TypeOK, ApprovalsOK, AnswerLost, GiveUp,
       Submitted, ReleaseRow, RestoreFee, Goto, fees, Settling, Actors
  <2> QED
    BY <2>1, <2>2
<1>4. TransfersOK'
  <2>2. \A b \in Actors : pc'[b] \in {"send", "confirm"} => pc[b] = pc'[b] /\ b # a 
    BY <1>0 DEF Inv, TypeOK, GiveUp, Goto
  <2>3. ASSUME NEW b \in Senders, pc'[b] = "confirm"
        PROVE  tx'[b][Source(b)'].to = Dest(b)' /\ tx'[b][Source(b)'].amount = Amount(b)'
    <3>1. Source(b)' = Source(b) /\ Dest(b)' = Dest(b) /\ Amount(b)' = Amount(b)
      BY <1>0, ActorsAssumption DEF Source, Dest, Amount, RowOf, Senders,
         GiveUp
    <3>2. b # a /\ pc[b] = "confirm"
      BY <2>2, <2>3 DEF Senders, Actors
    <3>3. tx'[b] = tx[b]
      BY <1>0, <3>2, SubmittedIsPending DEF Senders, Actors
    <3> QED
      BY <3>1, <3>2, <3>3 DEF Inv, TransfersOK
  <2> QED
    BY <1>0, <2>2, <2>3, SubmittedIsPending DEF Inv, TransfersOK, GiveUp
<1>5. CompletedOK'
  BY DEF Inv, TypeOK, CompletedOK, ToLedger, AnswerLost, GiveUp, Submitted,
     ReleaseRow, RestoreFee, Goto, fees, Settling, Actors, Senders
<1> QED
  BY <1>1, <1>2, <1>3, <1>4, <1>5 DEF Inv

LEMMA TimedOutInv == ASSUME Inv, NEW a \in Actors, TimedOut(a) PROVE Inv'
  BY GiveUpInv DEF TimedOut, Settling, network, Inv, TypeOK

LEMMA RevertedInv == ASSUME Inv, NEW a \in Actors, Reverted(a) PROVE Inv'
  BY GiveUpInv DEF Reverted, Settling, network, Inv, TypeOK

(* A step of the chains alone. *)
LEMMA ChainsInv ==
  ASSUME Inv, TypeOK', TransfersOK', CompletedOK', UNCHANGED <<balance, pay, table, coroutine>>
  PROVE  Inv'
<1>1. BalanceNeverNegative' /\ StagesOK' /\ SweepsOK'
  BY DEF Inv, BalanceNeverNegative, StagesOK, SweepsOK, coroutine
<1>2. RequestsOK'
  BY TotalUnchanged DEF Inv, RequestsOK, table, coroutine
<1>3. ApprovalsOK'
  <2>1. Undisturbed
    BY DEF Undisturbed, table, coroutine
  <2> QED
    BY <2>1, ApprovalsKept DEF Inv
<1> QED
  BY <1>1, <1>2, <1>3 DEF Inv

LEMMA MineInv == ASSUME Inv, NEW a \in Actors, NEW u \in Users, Mine(a, u) PROVE Inv'
<1>1. tx[a][u].status = "pending" /\ UNCHANGED <<balance, pay, table, coroutine>>
  BY DEF Mine, ledger
<1>2. PICK st \in {"mined", "reverted"} : tx' = [tx EXCEPT ![a][u].status = st]
  BY Zenon DEF Mine
<1>3. st \in {"mined", "reverted", "dropped"}
  BY <1>2
<1>4. TransfersOK' /\ CompletedOK'
  BY <1>1, <1>2, <1>3, Recorded
<1>5. TypeOK'
  BY Zenon, MineTypes
<1> QED
  BY <1>1, <1>4, <1>5, ChainsInv

LEMMA DropInv == ASSUME Inv, NEW a \in Actors, NEW u \in Users, Drop(a, u) PROVE Inv'
<1>1. /\ tx[a][u].status = "pending" /\ tx' = [tx EXCEPT ![a][u].status = "dropped"]
      /\ UNCHANGED <<balance, pay, table, coroutine>>
  BY DEF Drop, ledger
<1>2. tx' \in [Actors -> [Users -> Transactions]] /\ TransfersOK' /\ CompletedOK'
  BY <1>1, Recorded
<1>3. TypeOK'
  BY <1>2 DEF Inv, TypeOK, Drop, ledger, table, coroutine, fees
<1> QED
  BY <1>1, <1>2, <1>3, ChainsInv

LEMMA CrashInv == ASSUME Inv, Crash PROVE Inv'
<1>1. TypeOK'
  <2>1. pc' \in [Actors -> Live \cup {"idle", "done", "dead"}] 
    BY DEF Inv, TypeOK, Crash
  <2>2. crashes' \in 0 .. MaxCrashes 
    BY LimitsAssumption DEF Inv, TypeOK, Crash
  <2> QED
   BY <2>1, <2>2 DEF Inv, TypeOK, Crash, ledger, table, fees, network
<1>2. BalanceNeverNegative' /\ StagesOK' /\ SweepsOK'
  BY DEF Inv, TypeOK, BalanceNeverNegative, RequestsOK, ApprovalsOK,
     StagesOK, SweepsOK, Crash, ledger, table, fees, network, Settling, Actors,
     Live
<1>3. RequestsOK' /\ ApprovalsOK'
  <2>1. RequestsOK'
    BY TotalUnchanged DEF Inv, TypeOK, RequestsOK, Crash, ledger, table, fees,
       network, Settling, Actors, Live
  <2>2. ApprovalsOK'
    <3>1. Undisturbed
      BY AtWork DEF Undisturbed, Crash, ledger, table, Settling,
         Actors, Live
    <3> QED
      BY <3>1, ApprovalsKept DEF Inv
  <2> QED
    BY <2>1, <2>2
<1>4. TransfersOK'
  BY DEF Inv, TypeOK, TransfersOK, Source, Dest, Amount, RowOf, Crash,
     ledger, table, fees, network, Settling, Actors, Senders, Live
<1>5. CompletedOK'
  BY DEF Inv, CompletedOK, Crash, Live, Settling, Actors, Senders, ToLedger,
     ledger, table, network, TypeOK
<1> QED
  BY <1>1, <1>2, <1>3, <1>4, <1>5 DEF Inv

LEMMA NextInv == Inv /\ [Next]_vars => Inv'
<1> SUFFICES ASSUME Inv, [Next]_vars PROVE Inv'
  OBVIOUS
<1>1. CASE UNCHANGED vars
  BY <1>1 DEF Inv, TypeOK, BalanceNeverNegative, StagesOK, RequestsOK,
     ApprovalsOK,
     SweepsOK, TransfersOK, CompletedOK, Source, Dest, Amount, RowOf, Total, Fee, ToLedger,
     vars, ledger, table, coroutine, fees, network
<1>2. CASE \E r \in Requests : SendStep(r) \/ Reject(r)
  BY <1>2, RefuseInv, SettleInternalInv, StartExternalInv, HoldInv,
     DeclineInv, ProceedInv,
     FinishSendInv, RejectInv DEF SendStep
<1>3. CASE \E a \in Approvals : FinishApproval(a) \/ \E r \in Requests : Approve(a, r)
  BY <1>3, FinishApprovalInv, ApproveInv
<1>4. CASE \E s \in Sweeps : StartSweep(s) \/ SweepStep(s) \/ CancelSweep(s)
  BY <1>4, StartSweepInv, EndSweepInv, FinishSweepInv, ClaimFeeInv,
     CancelSweepInv DEF SweepStep
<1>5. CASE \E a \in Actors : SettleStep(a)
  BY <1>5, ScreenedInv, FailBeforeBroadcastInv, BroadcastInv, AnswerLostInv,
     TimedOutInv,
     RevertedInv, ChooseChainInv DEF SettleStep
<1>6. CASE Environment
  BY <1>6, MineInv, DropInv, CrashInv DEF Environment
<1> QED
  BY <1>1, <1>2, <1>3, <1>4, <1>5, <1>6 DEF Next

----------------------------------------------------------------------------
(* The theorems *)

THEOREM Invariance == Spec => []Inv
  BY InitInv, NextInv, PTL DEF Spec

(* Every variable keeps its type. *)
THEOREM TypeCorrectness == Spec => []TypeOK
<1>1. Inv => TypeOK
  BY DEF Inv
<1> QED
  BY <1>1, Invariance, PTL

(* No interleaving of sends, approvals, sweeps and restarts takes a ledger *)
(* balance below zero, although debits are computed from stale balances.   *)
THEOREM NoOverdraft == Spec => []BalanceNeverNegative
<1>1. Inv => BalanceNeverNegative
  BY DEF Inv
<1> QED
  BY <1>1, Invariance, PTL

(* A completed external send left a mined transfer of its own. *)
THEOREM CompletedIsMined == Spec => []CompletedMeansMined
<1>1. Inv => CompletedMeansMined
  BY DEF Inv, CompletedOK, CompletedMeansMined
<1> QED
  BY <1>1, Invariance, PTL

(* A row under settlement is "approving" and has one owner. *)
THEOREM ExclusiveClaims == Spec => []ClaimsAreExclusive
<1>1. ASSUME Inv PROVE ClaimsAreExclusive
  <2>1. \A a \in Approvals : pc[a] \in Live => pc[a] \in Settling
    BY <1>1 DEF Inv, StagesOK, Live, Settling
  <2>2. ASSUME NEW c \in Claims
        PROVE  c \in Approvals \X Requests /\ pc[c[1]] \in Settling /\ held[c[1]] = c[2]
    BY <2>1 DEF Claims
  <2>3. \A c \in Claims : status[c[2]] = "approving"
    BY <1>1, <2>2 DEF Inv, ApprovalsOK
  <2>4. ASSUME NEW c \in Claims, NEW d \in Claims, c[2] = d[2]
        PROVE  c = d
    <3>1. c[1] = d[1]
      BY <1>1, <2>2, <2>4 DEF Inv, ApprovalsOK
    <3> QED
      BY <2>2, <2>4, <3>1
  <2> QED
    BY <2>3, <2>4 DEF ClaimsAreExclusive
<1> QED
  BY <1>1, Invariance, PTL

(* Whatever happens, a row's status moves along the edges of the queue. *)
THEOREM StatusEdges == Spec => StatusFollowsEdges
<1> DEFINE Edge(r) == status'[r] # status[r] => <<status[r], status'[r]>> \in Edges
<1>1. ASSUME Inv, [Next]_vars, NEW r \in Requests PROVE Edge(r)
  <2> USE <1>1 DEF Edges
  <2>0. status = [q \in Requests |-> status[q]]
    BY AtWork
  <2>1. CASE UNCHANGED vars
    BY <2>1 DEF vars, table
  <2>2. CASE \E q \in Requests : SendStep(q) \/ Reject(q)
    <3> SUFFICES ASSUME NEW q \in Requests, SendStep(q) \/ Reject(q) PROVE Edge(r)
      BY <2>2
    <3>1. CASE Reject(q) \/ Hold(q) \/ SettleInternal(q)
      BY <3>1, <2>0, AtWork DEF Reject, Hold, SettleInternal, Accepted
    <3>2. CASE FinishSend(q)
      BY <3>2, <2>0, AtWork DEF FinishSend, Complete, Confirmed, table, Settling
    <3>3. CASE Refuse(q) \/ StartExternal(q) \/ Decline(q) \/ Proceed(q)
      BY <3>3 DEF Refuse, StartExternal, Decline, Proceed, table
    <3> QED
      BY <3>1, <3>2, <3>3 DEF SendStep
  <2>3. CASE \E a \in Approvals : FinishApproval(a) \/ \E q \in Requests : Approve(a, q)
    BY <2>3, <2>0, AtWork DEF FinishApproval, Complete, Confirmed, Approve,
       Settling
  <2>4. CASE \E s \in Sweeps : StartSweep(s) \/ SweepStep(s) \/ CancelSweep(s)
    BY <2>4 DEF StartSweep, SweepStep, EndSweep, FinishSweep, ClaimFee,
       CancelSweep, table
  <2>5. CASE \E a \in Actors : SettleStep(a)
    <3> SUFFICES ASSUME NEW a \in Actors, SettleStep(a) PROVE Edge(r)
      BY <2>5
    <3>1. CASE GiveUp(a)
      BY <3>1, <2>0 DEF GiveUp, ReleaseRow
    <3>2. CASE Screened(a) \/ Broadcast(a) \/ \E c \in Chains : ChooseChain(a, c)
      BY <3>2 DEF Screened, Broadcast, ChooseChain, table
    <3> QED
      BY <3>1, <3>2 DEF SettleStep, FailBeforeBroadcast, AnswerLost, TimedOut,
         Reverted
  <2>6. CASE Environment
    <3>1. status' = status
      BY Zenon, <2>6 DEF Environment, Mine, Drop, Crash, table
    <3> QED
      BY <3>1
  <2> QED
    BY <2>1, <2>2, <2>3, <2>4, <2>5, <2>6, <1>1 DEF Next
<1>2. Inv /\ [Next]_vars => [\A r \in Requests : Edge(r)]_vars
  BY <1>1
<1> QED
  BY <1>2, Invariance, PTL DEF Spec, StatusFollowsEdges

----------------------------------------------------------------------------
(* The refinement: a step of the sends, approvals, sweeps, chains or the   *)
(* process is a step of the review queue, or leaves it as it is.           *)

(* Only a coroutine's stage and its row decide its claim. *)
LEMMA ClaimsUnchanged ==
  ASSUME Inv, held' = held,
         \A a \in Approvals : pc'[a] \in Live <=> pc[a] \in Live
  PROVE  Claims' = Claims
  BY DEF Claims

LEMMA ClaimEnds ==
  ASSUME Inv, NEW a \in Approvals, pc[a] \in Settling, held' = held,
         pc' = [pc EXCEPT ![a] = "done"]
  PROVE  <<a, held[a]>> \in Claims /\ Claims' = Claims \ {<<a, held[a]>>}
<1>1. held[a] \in Requests
  BY DEF Inv, ApprovalsOK
<1>2. ASSUME NEW c \in Approvals \X Requests
      PROVE  c \in Claims' <=> c \in Claims /\ c # <<a, held[a]>>
  BY <1>2 DEF Claims, Inv, TypeOK, Actors, Live, Settling
<1> QED
  BY <1>1, <1>2 DEF Claims, Live

LEMMA ClaimBegins ==
  ASSUME Inv, NEW a \in Approvals, NEW r \in Requests, Approve(a, r)
  PROVE  Claims' = Claims \cup {<<a, r>>} /\ ~ \E c \in Claims : c[1] = a \/ c[2] = r
<1>1. pc[a] \notin Live
  BY DEF Approve, Live, Settling
<1>2. ASSUME NEW c \in Claims, c[2] = r PROVE FALSE
  BY <1>2 DEF Claims, Inv, ApprovalsOK, StagesOK, Live, Settling, Approve
<1>3. /\ pc' = [pc EXCEPT ![a] = "screen"] /\ held' = [held EXCEPT ![a] = r]
  BY DEF Approve, Goto
<1>4. ASSUME NEW c \in Approvals \X Requests
      PROVE  c \in Claims' <=> c \in Claims \/ c = <<a, r>>
  BY <1>1, <1>3, <1>4 DEF Claims, Inv, TypeOK, Actors, Live, Settling
<1> QED
  BY <1>1, <1>2, <1>4 DEF Claims

THEOREM QueueIsImplemented == Spec => ImplementsQueue
<1>1. Init => Queue!Init
  BY DEF Init, Queue!Init, Claims, Live, Settling, Actors
<1>2. ASSUME Inv, [Next]_vars PROVE [Queue!Next]_(Queue!vars)
  <2> USE <1>2
  <2> DEFINE Same == Claims' = Claims /\ status' = status
  <2>1. CASE UNCHANGED vars
    BY <2>1 DEF vars, table, coroutine, Claims, Queue!vars
  <2>2. ASSUME NEW r \in Requests, SendStep(r) \/ Reject(r)
        PROVE  [Queue!Next]_(Queue!vars)
    <3>1. Claims' = Claims
      <4>1. held' = held /\ \A a \in Approvals : pc'[a] = pc[a]
        BY <2>2, ActorsAssumption DEF SendStep, Refuse, SettleInternal,
           StartExternal, Hold,
           Decline, Proceed, FinishSend, Reject, Goto, coroutine, Inv, TypeOK, Actors
      <4> QED
        BY <4>1, ClaimsUnchanged
    <3>2. CASE Reject(r)
      BY <3>1, <3>2 DEF Reject, Queue!Next, Queue!Reject
    <3>3. CASE Hold(r)
      <4>1. status[r] = "none"
        BY <3>3 DEF Hold, Inv, RequestsOK
      <4> QED
        BY <3>1, <3>3, <4>1 DEF Hold, Queue!Next, Queue!Hold
    <3>4. CASE SettleInternal(r)
      <4>1. status[r] = "none"
        BY <3>4 DEF SettleInternal, Accepted, Inv, RequestsOK
      <4> QED
        BY <3>1, <3>4, <4>1 DEF SettleInternal, Queue!Next, Queue!SettleAtOnce
    <3>5. CASE FinishSend(r)
      <4>1. status[r] = "none"
        BY <3>5 DEF FinishSend, Confirmed, Inv, RequestsOK, Settling
      <4> QED
        BY <3>1, <3>5, <4>1 DEF FinishSend, Complete, table, Queue!Next,
           Queue!SettleAtOnce, Queue!vars
    <3>6. CASE Refuse(r) \/ StartExternal(r) \/ Decline(r) \/ Proceed(r)
      BY <3>1, <3>6 DEF Refuse, StartExternal, Decline, Proceed, table,
         Queue!vars
    <3> QED
      BY <2>2, <3>2, <3>3, <3>4, <3>5, <3>6 DEF SendStep
  <2>3. ASSUME NEW a \in Approvals, FinishApproval(a)
        PROVE  [Queue!Next]_(Queue!vars)
    <3>1. /\ pc[a] \in Settling /\ held' = held /\ pc' = [pc EXCEPT ![a] = "done"]
          /\ status' = [status EXCEPT ![held[a]] = "completed"]
      BY <2>3 DEF FinishApproval, Confirmed, Complete, Goto, Settling
    <3>2. held[a] \in Requests /\ status[held[a]] = "approving"
      BY <3>1 DEF Inv, ApprovalsOK
    <3> QED
      BY <3>1, <3>2, ClaimEnds DEF Queue!Next, Queue!Settle
  <2>4. ASSUME NEW a \in Approvals, NEW r \in Requests, Approve(a, r)
        PROVE  [Queue!Next]_(Queue!vars)
    <3>1. status[r] = "pending_review" /\ status' = [status EXCEPT ![r] = "approving"]
      BY <2>4 DEF Approve
    <3>2. Claims' = Claims \cup {<<a, r>>} /\ ~ \E c \in Claims : c[1] = a \/ c[2] = r
      BY <2>4, ClaimBegins
    <3>3. Queue!Claim(a, r)
      BY <3>1, <3>2 DEF Queue!Claim
    <3> QED
      BY <3>3 DEF Queue!Next
  <2>5. ASSUME NEW s \in Sweeps, StartSweep(s) \/ SweepStep(s) \/ CancelSweep(s)
        PROVE  [Queue!Next]_(Queue!vars)
    <3>1. held' = held /\ status' = status /\ \A a \in Approvals : pc'[a] = pc[a]
      BY <2>5, ActorsAssumption DEF StartSweep, SweepStep, EndSweep,
         FinishSweep, ClaimFee,
         CancelSweep, Goto, table, Inv, TypeOK, Actors
    <3> QED
      BY <3>1, ClaimsUnchanged DEF Queue!vars
  <2>6. ASSUME NEW a \in Actors, SettleStep(a)
        PROVE  [Queue!Next]_(Queue!vars)
    <3>1. CASE pc[a] \in Settling /\ GiveUp(a) /\ a \in Approvals
      <4>1. /\ held' = held /\ pc' = [pc EXCEPT ![a] = "done"]
            /\ held[a] \in Requests /\ status[held[a]] = "approving"
            /\ status' = [status EXCEPT ![held[a]] = "pending_review"]
        BY <3>1, ActorsAssumption DEF GiveUp, Goto, ReleaseRow, Inv, TypeOK,
           ApprovalsOK
      <4> QED
        BY <3>1, <4>1, ClaimEnds DEF Queue!Next, Queue!Release
    <3>2. CASE pc[a] \in Settling /\ GiveUp(a) /\ a \notin Approvals
      <4>1. held' = held /\ status' = status /\ \A b \in Approvals : pc'[b] = pc[b]
        BY <3>2 DEF GiveUp, Goto, Inv, TypeOK, Actors
      <4> QED
        BY <4>1, ClaimsUnchanged DEF Queue!vars
    <3>3. CASE Screened(a) \/ Broadcast(a) \/ \E c \in Chains : ChooseChain(a, c)
      <4>1. /\ held' = held /\ status' = status
            /\ \A b \in Approvals : pc'[b] \in Live <=> pc[b] \in Live
        BY <3>3 DEF Screened, Broadcast, ChooseChain, Goto, table, Inv,
           TypeOK, Actors, Live, Settling
      <4> QED
        BY <4>1, ClaimsUnchanged DEF Queue!vars
    <3> QED
      BY <2>6, <3>1, <3>2, <3>3 DEF SettleStep, FailBeforeBroadcast,
         AnswerLost, TimedOut,
         Reverted, Settling
  <2>7. CASE Environment
    <3>1. CASE Crash
      <4>1. Claims' = {} /\ status' = status
        BY <3>1 DEF Crash, Claims, table, Live, Settling, Actors
      <4> QED
        BY <4>1 DEF Queue!Next, Queue!Stop
    <3>2. CASE \E a \in Actors, u \in Users : Mine(a, u) \/ Drop(a, u)
      <4>1. held' = held /\ status' = status /\ pc' = pc
        BY <3>2 DEF Mine, Drop, table, coroutine
      <4>2. \A a \in Approvals : pc'[a] \in Live <=> pc[a] \in Live
        BY <4>1
      <4>3. Claims' = Claims
        BY <4>1, <4>2, ClaimsUnchanged
      <4> QED
        BY <4>1, <4>3 DEF Queue!vars
    <3> QED
      BY <2>7, <3>1, <3>2 DEF Environment
  <2> QED
    BY <2>1, <2>2, <2>3, <2>4, <2>5, <2>6, <2>7 DEF Next
<1> QED
  BY <1>1, <1>2, Invariance, PTL DEF Spec, ImplementsQueue, Queue!Spec

----------------------------------------------------------------------------
(* Fees.  What a sweep has claimed is what it read, and it has dealt with  *)
(* the wallet it settled last.                                             *)

SweepWork ==
  \A s \in Sweeps :
    /\ pc[s] = "idle" => wallet[s] = None
    /\ pc[s] = "next" /\ wallet[s] # None => snap[s][wallet[s]] = 0
    /\ pc[s] \in Settling => snap[s][wallet[s]] > 0

FeeInv == Inv /\ SweepWork /\ FeesAddUp

Claim(u)   == [s \in Sweeps |-> snap[s][u]]
Fees       == [r \in Requests |-> Fee(r)]
Claimed(u) == SumFunctionOnSet(Claim(u), Claimants(u))
Charged(u) == SumFunctionOnSet(Fees, CompletedBy(u))
Open       == {s \in Sweeps : pc[s] # "done"}

(* The two halves of FeesAddUp: one wallet's fees, and the records *)
Balanced(u) == pendingFee[u] + audited[u] + Claimed(u) = Charged(u)
Booked      == collected + SumFunctionOnSet(run, Open) = SumFunctionOnSet(audited, Users)

LEMMA FeesAddUpIs == FeesAddUp <=> Booked /\ \A u \in Users : Balanced(u)
BY DEF FeesAddUp, Booked, Balanced, Claimed, Charged, Claim, Fees, Open

LEMMA FeesAddUpNext == ASSUME Booked', \A u \in Users : Balanced(u)' PROVE FeesAddUp'
BY DEF FeesAddUp, Booked, Balanced, Claimed, Charged, Claim, Fees, Open

LEMMA FeeSets ==
  ASSUME TypeOK, NEW u \in Users
  PROVE  /\ IsFiniteSet(Claimants(u)) /\ IsFiniteSet(CompletedBy(u)) /\ IsFiniteSet(Open) /\ IsFiniteSet(Users)
         /\ Claimants(u) \subseteq Sweeps /\ CompletedBy(u) \subseteq Requests
         /\ \A s \in Sweeps : Claim(u)[s] = snap[s][u] /\ snap[s][u] \in Int /\ run[s] \in Int
         /\ \A r \in Requests : Fees[r] = Fee(r) /\ Fee(r) \in Int
         /\ pendingFee[u] \in Int /\ audited[u] \in Int /\ collected \in Int
         /\ Claimed(u) \in Int /\ Charged(u) \in Int /\ SumFunctionOnSet(run, Open) \in Int
<1>1. Claimants(u) \subseteq Sweeps /\ CompletedBy(u) \subseteq Requests /\ Open \subseteq Sweeps
  BY DEF Claimants, CompletedBy, Open
<1>2. /\ IsFiniteSet(Claimants(u)) /\ IsFiniteSet(CompletedBy(u)) /\ IsFiniteSet(Open) /\ IsFiniteSet(Users)
  BY <1>1, FiniteAssumption, FS_Subset
<1>3. /\ \A s \in Sweeps : Claim(u)[s] = snap[s][u] /\ snap[s][u] \in Int /\ run[s] \in Int
      /\ pendingFee[u] \in Int /\ audited[u] \in Int /\ collected \in Int
  BY DEF TypeOK, Claim
<1>4. \A r \in Requests : Fees[r] = Fee(r) /\ Fee(r) \in Int
  BY TotalIsNat DEF TypeOK, Fees
<1>5. Claimed(u) \in Int
  BY <1>1, <1>2, <1>3, SumInt DEF Claimed
<1>6. Charged(u) \in Int
  BY <1>1, <1>2, <1>4, SumInt DEF Charged
<1>7. SumFunctionOnSet(run, Open) \in Int
  BY <1>1, <1>2, <1>3, SumInt
<1>8. QED BY <1>1, <1>2, <1>3, <1>4, <1>5, <1>6, <1>7

(* Sums that a step leaves alone *)
LEMMA ClaimedKept ==
  ASSUME TypeOK, NEW u \in Users, Claimants(u)' = Claimants(u),
         \A s \in Claimants(u) : snap'[s][u] = snap[s][u]
  PROVE  Claimed(u)' = Claimed(u)
<1>1. \A s \in Claimants(u) : Claim(u)[s] = Claim(u)'[s]
  BY FeeSets DEF Claim
<1>2. SumFunctionOnSet(Claim(u), Claimants(u)) = SumFunctionOnSet(Claim(u)', Claimants(u))
  BY <1>1, FeeSets, SumSame
<1>3. QED BY <1>2 DEF Claimed

LEMMA ChargedKept ==
  ASSUME TypeOK, NEW u \in Users, pay' = pay,
         \A r \in Requests : status'[r] = "completed" <=> status[r] = "completed"
  PROVE  Charged(u)' = Charged(u)
<1>1. CompletedBy(u)' = CompletedBy(u) /\ Fees' = Fees
  BY DEF CompletedBy, Fees, Fee
<1>2. QED BY <1>1 DEF Charged

(* A step that moves no sweep from one wallet to another *)
SweepsIdle ==
  /\ UNCHANGED <<pay, snap, wallet, run, audited, collected>>
  /\ \A s \in Sweeps : pc'[s] = pc[s] \/ (pc[s] \in Settling /\ pc'[s] \in Settling)

LEMMA SweepsIdleKeeps ==
  ASSUME TypeOK, SweepWork, Booked, SweepsIdle
  PROVE  SweepWork' /\ Booked' /\ \A u \in Users : Claimed(u)' = Claimed(u)
<1>1. SweepWork'
  BY DEF SweepWork, SweepsIdle, Settling
<1>2. Booked'
  <2>1. Open' = Open
    BY DEF Open, SweepsIdle, Settling
  <2>2. QED BY <2>1 DEF Booked, SweepsIdle
<1>3. ASSUME NEW u \in Users PROVE Claimed(u)' = Claimed(u)
  <2>1. Claimants(u)' = Claimants(u)
    BY DEF Claimants, SweepsIdle, Settling
  <2>2. QED BY <2>1, ClaimedKept DEF SweepsIdle
<1>4. QED BY <1>1, <1>2, <1>3

LEMMA QuietKeeps ==
  ASSUME FeeInv, SweepsIdle, pendingFee' = pendingFee,
         \A r \in Requests : status'[r] = "completed" <=> status[r] = "completed"
  PROVE  SweepWork' /\ FeesAddUp'
<1>1. TypeOK /\ SweepWork /\ Booked /\ \A u \in Users : Balanced(u)
  BY FeesAddUpIs DEF FeeInv, Inv
<1>2. SweepWork' /\ Booked' /\ \A u \in Users : Claimed(u)' = Claimed(u)
  BY <1>1, SweepsIdleKeeps
<1>3. \A u \in Users : Charged(u)' = Charged(u)
  BY <1>1, ChargedKept DEF SweepsIdle
<1>4. \A u \in Users : Balanced(u)'
  BY <1>1, <1>2, <1>3 DEF Balanced, SweepsIdle
<1>5. FeesAddUp'
  BY <1>2, <1>4, FeesAddUpNext
<1>6. QED BY <1>2, <1>5

(* The row that is completed adds its fee to what its sender owes. *)
LEMMA ChargeKeeps ==
  ASSUME FeeInv, SweepsIdle, NEW r \in Requests, status[r] # "completed",
         status' = [status EXCEPT ![r] = "completed"],
         pendingFee' = [pendingFee EXCEPT ![pay[r].from] = @ + Fee(r)]
  PROVE  SweepWork' /\ FeesAddUp'
<1>1. TypeOK /\ SweepWork /\ Booked /\ \A u \in Users : Balanced(u)
  BY FeesAddUpIs DEF FeeInv, Inv
<1>2. SweepWork' /\ Booked' /\ \A u \in Users : Claimed(u)' = Claimed(u)
  BY <1>1, SweepsIdleKeeps
<1>3. ASSUME NEW u \in Users PROVE Balanced(u)'
  <2>1. pay' = pay /\ Fees' = Fees /\ audited' = audited
    BY DEF SweepsIdle, Fees, Fee
  <2>2. CASE pay[r].from = u
    <3>1. CompletedBy(u)' = CompletedBy(u) \cup {r} /\ r \notin CompletedBy(u)
      BY <1>1, <2>1, <2>2 DEF CompletedBy, TypeOK
    <3>2. \A q \in CompletedBy(u) \cup {r} : Fees[q] \in Int
      BY <1>1, FeeSets
    <3>3. SumFunctionOnSet(Fees, CompletedBy(u) \cup {r}) = SumFunctionOnSet(Fees, CompletedBy(u)) + Fees[r]
      BY <1>1, <3>1, <3>2, FeeSets, SumAdd
    <3>4. Charged(u)' = Charged(u) + Fee(r)
      BY <1>1, <2>1, <3>1, <3>3, FeeSets DEF Charged
    <3>5. pendingFee'[u] = pendingFee[u] + Fee(r)
      BY <1>1, <2>2 DEF TypeOK
    <3>6. /\ pendingFee[u] \in Int /\ audited[u] \in Int /\ Claimed(u) \in Int /\ Fee(r) \in Int
          /\ pendingFee[u] + audited[u] + Claimed(u) = Charged(u)
      BY <1>1, FeeSets DEF Balanced
    <3>7. QED BY <1>2, <2>1, <3>4, <3>5, <3>6 DEF Balanced
  <2>3. CASE pay[r].from # u
    <3>1. CompletedBy(u)' = CompletedBy(u)
      BY <1>1, <2>1, <2>3 DEF CompletedBy, TypeOK
    <3>2. pendingFee'[u] = pendingFee[u]
      BY <1>1, <2>3 DEF TypeOK
    <3>3. QED BY <1>1, <1>2, <2>1, <3>1, <3>2 DEF Balanced, Charged
  <2>4. QED BY <2>2, <2>3
<1>4. FeesAddUp'
  BY <1>2, <1>3, FeesAddUpNext
<1>5. QED BY <1>2, <1>4

(* A claimed fee goes back to its wallet, or into the audit: the sweep is  *)
(* no claimant any more.                                                   *)
LEMMA SettledKeeps ==
  ASSUME FeeInv, NEW s \in Sweeps, pc[s] \in Settling, NEW n \in Int, n = Amount(s),
         pc'[s] \in {"next", "dead"}, \A x \in Sweeps \ {s} : pc'[x] = pc[x],
         snap' = [snap EXCEPT ![s][wallet[s]] = 0], UNCHANGED <<pay, wallet, status, collected>>,
         \/ /\ pendingFee' = [pendingFee EXCEPT ![wallet[s]] = @ + n]
            /\ UNCHANGED <<run, audited>>
         \/ /\ audited' = [audited EXCEPT ![wallet[s]] = @ + n]
            /\ run' = [run EXCEPT ![s] = @ + n]
            /\ pendingFee' = pendingFee
  PROVE  SweepWork' /\ FeesAddUp'
<1>1. /\ TypeOK /\ SweepWork /\ Booked /\ \A u \in Users : Balanced(u)
      /\ wallet[s] \in Users
  BY FeesAddUpIs DEF FeeInv, Inv, SweepsOK
<1> PICK w \in Users : w = wallet[s]
  BY <1>1
<1>2. /\ \A x \in Sweeps, u \in Users : snap'[x][u] = IF x = s /\ u = w THEN 0 ELSE snap[x][u]
      /\ n = snap[s][w] /\ n > 0
  BY <1>1, ActorsAssumption DEF TypeOK, Amount, SweepWork
<1>3. SweepWork'
  <2>1. \A x \in Sweeps \ {s} : pc'[x] = pc[x] /\ wallet'[x] = wallet[x] /\ snap'[x] = snap[x]
    BY <1>1 DEF TypeOK
  <2>2. pc'[s] \in {"next", "dead"} /\ wallet'[s] = w /\ snap'[s][w] = 0
    BY <1>2
  <2>3. QED BY <1>1, <2>1, <2>2 DEF SweepWork, Settling
<1>4. \A u \in Users : Charged(u)' = Charged(u)
  BY <1>1, ChargedKept
<1>5. ASSUME NEW u \in Users, u # w PROVE Balanced(u)'
  <2>1. Claimants(u)' = Claimants(u)
    BY <1>1, <1>2, <1>5 DEF Claimants
  <2>2. \A x \in Claimants(u) : snap'[x][u] = snap[x][u]
    BY <1>2, <1>5 DEF Claimants
  <2>3. Claimed(u)' = Claimed(u)
    BY <1>1, <2>1, <2>2, ClaimedKept
  <2>4. pendingFee'[u] = pendingFee[u] /\ audited'[u] = audited[u]
    BY <1>1, <1>5 DEF TypeOK
  <2>5. QED BY <1>1, <1>4, <2>3, <2>4 DEF Balanced
<1>6. Balanced(w)'
  <2>1. s \in Claimants(w) /\ Claimants(w)' = Claimants(w) \ {s}
    <3>1. s \in Claimants(w)
      BY <1>2 DEF Claimants
    <3>2. s \notin Claimants(w)'
      BY <1>2 DEF Claimants
    <3>3. \A x \in Sweeps \ {s} : x \in Claimants(w)' <=> x \in Claimants(w)
      BY <1>2 DEF Claimants
    <3>4. Claimants(w) \subseteq Sweeps /\ Claimants(w)' \subseteq Sweeps
      BY DEF Claimants
    <3>5. QED BY <3>1, <3>2, <3>3, <3>4
  <2>2. Claimed(w)' = Claimed(w) - n
    <3>1. \A x \in Claimants(w) : Claim(w)[x] \in Int
      BY <1>1, FeeSets
    <3>2. \A x \in Claimants(w) \ {s} : Claim(w)[x] = Claim(w)'[x]
      BY <1>2 DEF Claim, Claimants
    <3>3. SumFunctionOnSet(Claim(w)', Claimants(w) \ {s})
            = SumFunctionOnSet(Claim(w), Claimants(w)) - Claim(w)[s]
      <4>1. IsFiniteSet(Claimants(w))
        BY <1>1, FeeSets
      <4>2. PICK f, g, C, D : f = Claim(w) /\ g = Claim(w)' /\ C = Claimants(w) /\ D = C \ {s}
        OBVIOUS
      <4>3. IsFiniteSet(C) /\ s \in C /\ D = C \ {s}
        BY <2>1, <4>1, <4>2
      <4>4. (\A x \in C : f[x] \in Int) /\ (\A x \in D : g[x] = f[x])
        BY <3>1, <3>2, <4>2
      <4>5. SumFunctionOnSet(g, D) = SumFunctionOnSet(f, C) - f[s]
        BY <4>3, <4>4, SumReduced
      <4>6. QED BY <4>2, <4>5
    <3>4. QED BY <1>2, <2>1, <3>3 DEF Claimed, Claim
  <2>3. pendingFee'[w] + audited'[w] = pendingFee[w] + audited[w] + n
    BY <1>1 DEF TypeOK
  <2>4. /\ pendingFee[w] \in Int /\ audited[w] \in Int /\ Claimed(w) \in Int
        /\ pendingFee'[w] \in Int /\ audited'[w] \in Int
        /\ pendingFee[w] + audited[w] + Claimed(w) = Charged(w)
    <3>1. pendingFee[w] \in Int /\ audited[w] \in Int /\ Claimed(w) \in Int
      BY <1>1, FeeSets
    <3>2. pendingFee'[w] \in Int /\ audited'[w] \in Int
      BY <1>1, <3>1 DEF TypeOK
    <3>3. QED BY <1>1, <3>1, <3>2 DEF Balanced
  <2>5. QED BY <1>4, <2>2, <2>3, <2>4 DEF Balanced
<1>7. Booked'
  <2>1. Open' = Open /\ s \in Open
    BY DEF Open, Settling
  <2>2. CASE UNCHANGED <<run, audited>>
    BY <1>1, <2>1, <2>2 DEF Booked
  <2>3. CASE /\ audited' = [audited EXCEPT ![wallet[s]] = @ + n]
             /\ run' = [run EXCEPT ![s] = @ + n]
    <3>1. /\ \A x \in Open : run[x] \in Int /\ run'[x] \in Int
          /\ \A x \in Open \ {s} : run'[x] = run[x]
          /\ run'[s] = run[s] + n
      BY <1>1, <2>3 DEF TypeOK, Open
    <3>2. SumFunctionOnSet(run', Open) = SumFunctionOnSet(run, Open) + run'[s] - run[s]
      BY <1>1, <2>1, <3>1, FeeSets, SumChange
    <3>3. /\ \A u \in Users : audited[u] \in Int /\ audited'[u] \in Int
          /\ \A u \in Users \ {w} : audited'[u] = audited[u]
          /\ audited'[w] = audited[w] + n
      BY <1>1, <2>3 DEF TypeOK
    <3>4. SumFunctionOnSet(audited', Users) = SumFunctionOnSet(audited, Users) + audited'[w] - audited[w]
      <4>1. IsFiniteSet(Users) /\ \A u \in Users : audited[u] \in Int /\ audited'[u] \in Int
        BY <3>3, FiniteAssumption
      <4>2. \A u \in Users \ {w} : audited'[u] = audited[u]
        BY <3>3
      <4>3. QED BY <4>1, <4>2, SumChange
    <3>5. /\ SumFunctionOnSet(run, Open) \in Int /\ SumFunctionOnSet(audited, Users) \in Int
          /\ run[s] \in Int /\ audited[w] \in Int /\ collected \in Int
      BY <1>1, <2>1, <3>1, <3>3, FeeSets, FiniteAssumption, SumInt
    <3>6. /\ SumFunctionOnSet(run', Open) = SumFunctionOnSet(run, Open) + n
          /\ SumFunctionOnSet(audited', Users) = SumFunctionOnSet(audited, Users) + n
      BY <3>1, <3>2, <3>3, <3>4, <3>5
    <3>7. collected + SumFunctionOnSet(run, Open) = SumFunctionOnSet(audited, Users)
      BY <1>1 DEF Booked
    <3>8. collected' + SumFunctionOnSet(run', Open') = SumFunctionOnSet(audited', Users)
      BY <2>1, <3>5, <3>6, <3>7
    <3>9. QED BY <3>8 DEF Booked
  <2>4. QED BY <2>2, <2>3
<1>8. FeesAddUp'
  BY <1>5, <1>6, <1>7, FeesAddUpNext
<1>9. QED BY <1>3, <1>8

LEMMA StartSweepFees == ASSUME FeeInv, NEW s \in Sweeps, StartSweep(s) PROVE SweepWork' /\ FeesAddUp'
<1>1. /\ TypeOK /\ SweepWork /\ Booked /\ \A u \in Users : Balanced(u)
      /\ s \in Actors /\ Sweeps \subseteq Actors
  BY FeesAddUpIs DEF FeeInv, Inv, Actors
<1>2. /\ pc[s] = "idle" /\ pc'[s] = "next" /\ \A x \in Sweeps \ {s} : pc'[x] = pc[x] /\ snap'[x] = snap[x]
      /\ UNCHANGED <<pendingFee, status, pay, wallet, run, audited, collected>>
  BY <1>1 DEF StartSweep, Goto, TypeOK, ledger, table, fees
<1>3. wallet[s] = None
  BY <1>1, <1>2 DEF SweepWork
<1>4. SweepWork'
  BY <1>1, <1>2, <1>3 DEF SweepWork, Settling
<1>5. ASSUME NEW u \in Users PROVE Balanced(u)'
  <2>1. Claimants(u)' = Claimants(u) /\ s \notin Claimants(u)
    BY <1>2 DEF Claimants, Settling
  <2>2. \A x \in Claimants(u) : snap'[x][u] = snap[x][u]
    BY <1>2, <2>1 DEF Claimants
  <2>3. Claimed(u)' = Claimed(u) /\ Charged(u)' = Charged(u)
    BY <1>1, <1>2, <2>1, <2>2, ClaimedKept, ChargedKept
  <2>4. QED BY <1>1, <1>2, <2>3 DEF Balanced
<1>6. Booked'
  <2>1. Open' = Open
    BY <1>2 DEF Open
  <2>2. QED BY <1>1, <1>2, <2>1 DEF Booked
<1>7. QED BY <1>4, <1>5, <1>6, FeesAddUpNext

LEMMA EndSweepFees == ASSUME FeeInv, NEW s \in Sweeps, EndSweep(s) PROVE SweepWork' /\ FeesAddUp'
<1>1. /\ TypeOK /\ SweepWork /\ Booked /\ \A u \in Users : Balanced(u)
      /\ s \in Actors /\ Sweeps \subseteq Actors
  BY FeesAddUpIs DEF FeeInv, Inv, Actors
<1>2. /\ pc[s] = "next" /\ pc'[s] = "done" /\ \A x \in Sweeps \ {s} : pc'[x] = pc[x]
      /\ UNCHANGED <<pendingFee, status, pay, wallet, run, audited, snap>>
      /\ collected' = collected + run[s]
  BY <1>1 DEF EndSweep, Goto, TypeOK, ledger, table
<1>3. SweepWork'
  BY <1>1, <1>2 DEF SweepWork, Settling
<1>4. ASSUME NEW u \in Users PROVE Balanced(u)'
  <2>1. Claimants(u)' = Claimants(u)
    BY <1>2 DEF Claimants, Settling
  <2>2. Claimed(u)' = Claimed(u) /\ Charged(u)' = Charged(u)
    BY <1>1, <1>2, <2>1, ClaimedKept, ChargedKept
  <2>3. QED BY <1>1, <1>2, <2>2 DEF Balanced
<1>5. Booked'
  <2>1. Open' = Open \ {s} /\ s \in Open
    BY <1>2 DEF Open
  <2>2. /\ IsFiniteSet(Open) /\ \A x \in Open : run[x] \in Int
        /\ collected \in Int /\ run[s] \in Int
    BY <1>1, FiniteAssumption, FS_Subset DEF TypeOK, Open
  <2>3. SumFunctionOnSet(run, Open) = run[s] + SumFunctionOnSet(run, Open \ {s})
    BY <2>1, <2>2, SumRemove
  <2>4. SumFunctionOnSet(run, Open \ {s}) \in Int
    <3>1. IsFiniteSet(Open \ {s})
      BY <2>2, FS_Subset
    <3>2. QED BY <2>2, <3>1, SumInt
  <2>5. collected + SumFunctionOnSet(run, Open) = SumFunctionOnSet(audited, Users)
    BY <1>1 DEF Booked
  <2>6. collected' + SumFunctionOnSet(run', Open') = SumFunctionOnSet(audited, Users)
    BY <1>2, <2>1, <2>2, <2>3, <2>4, <2>5
  <2>7. QED BY <1>2, <2>6 DEF Booked
<1>6. QED BY <1>3, <1>4, <1>5, FeesAddUpNext

LEMMA ClaimFeeFees ==
  ASSUME FeeInv, NEW s \in Sweeps, NEW w \in Users, ClaimFee(s, w)
  PROVE  SweepWork' /\ FeesAddUp'
<1>1. /\ TypeOK /\ SweepWork /\ Booked /\ \A u \in Users : Balanced(u)
      /\ s \in Actors /\ Sweeps \subseteq Actors
  BY FeesAddUpIs DEF FeeInv, Inv, Actors
<1>2. pc[s] = "next" /\ snap[s][w] > 0 /\ UNCHANGED <<status, pay, run, audited, collected>>
  BY DEF ClaimFee, table, fees
<1>3. \A u \in Users : Charged(u)' = Charged(u)
  BY <1>1, <1>2, ChargedKept
<1>4. CASE pendingFee[w] = snap[s][w]
  <2>1. /\ pendingFee' = [pendingFee EXCEPT ![w] = 0] /\ wallet' = [wallet EXCEPT ![s] = w]
        /\ pc'[s] = "settle" /\ \A x \in Sweeps \ {s} : pc'[x] = pc[x] /\ wallet'[x] = wallet[x]
        /\ wallet'[s] = w /\ snap' = snap
    BY <1>1, <1>4 DEF ClaimFee, Goto, TypeOK
  <2>2. SweepWork'
    BY <1>1, <1>2, <2>1 DEF SweepWork, Settling
  <2>3. ASSUME NEW u \in Users, u # w PROVE Balanced(u)'
    <3>1. Claimants(u)' = Claimants(u)
      BY <1>2, <2>1, <2>3 DEF Claimants, Settling
    <3>2. Claimed(u)' = Claimed(u)
      BY <1>1, <2>1, <3>1, ClaimedKept
    <3>3. pendingFee'[u] = pendingFee[u]
      BY <1>1, <2>1, <2>3 DEF TypeOK
    <3>4. QED BY <1>1, <1>2, <1>3, <3>2, <3>3 DEF Balanced
  <2>4. Balanced(w)'
    <3>1. Claimants(w)' = Claimants(w) \cup {s} /\ s \notin Claimants(w)
      BY <1>2, <2>1 DEF Claimants, Settling
    <3>2. Claim(w)' = Claim(w) /\ \A x \in Claimants(w) \cup {s} : Claim(w)[x] \in Int
      BY <1>1, <2>1, FeeSets DEF Claim
    <3>3. SumFunctionOnSet(Claim(w), Claimants(w) \cup {s})
            = SumFunctionOnSet(Claim(w), Claimants(w)) + Claim(w)[s]
      BY <1>1, <3>1, <3>2, FeeSets, SumAdd
    <3>4. Claimed(w)' = Claimed(w) + pendingFee[w]
      BY <1>1, <1>4, <3>1, <3>2, <3>3, FeeSets DEF Claimed
    <3>5. pendingFee'[w] = 0 /\ audited'[w] = audited[w]
      BY <1>1, <1>2, <2>1 DEF TypeOK
    <3>6. /\ pendingFee[w] \in Int /\ audited[w] \in Int /\ Claimed(w) \in Int
          /\ pendingFee[w] + audited[w] + Claimed(w) = Charged(w)
      BY <1>1, FeeSets DEF Balanced
    <3>7. QED BY <1>3, <3>4, <3>5, <3>6 DEF Balanced
  <2>5. Booked'
    <3>1. Open' = Open
      BY <1>2, <2>1 DEF Open
    <3>2. QED BY <1>1, <1>2, <3>1 DEF Booked
  <2>6. QED BY <2>2, <2>3, <2>4, <2>5, FeesAddUpNext
<1>5. CASE pendingFee[w] # snap[s][w]
  <2>1. /\ UNCHANGED <<pendingFee, wallet, pc>> /\ snap' = [snap EXCEPT ![s][w] = 0]
    BY <1>5 DEF ClaimFee
  <2>2. /\ \A x \in Sweeps \ {s} : snap'[x] = snap[x]
        /\ \A u \in Users : snap'[s][u] = IF u = w THEN 0 ELSE snap[s][u]
        /\ wallet[s] \in Users \cup {None} 
    BY <1>1, <2>1 DEF TypeOK
  <2>3. SweepWork'
    BY <1>1, <1>2, <2>1, <2>2 DEF SweepWork, Settling
  <2>4. ASSUME NEW u \in Users PROVE Balanced(u)'
    <3>1. Claimants(u)' = Claimants(u) /\ s \notin Claimants(u)
      BY <1>2, <2>1, <2>2 DEF Claimants, Settling
    <3>2. \A x \in Claimants(u) : snap'[x][u] = snap[x][u]
      BY <2>2, <3>1 DEF Claimants
    <3>3. Claimed(u)' = Claimed(u)
      BY <1>1, <3>1, <3>2, ClaimedKept
    <3>4. QED BY <1>1, <1>2, <1>3, <2>1, <3>3 DEF Balanced
  <2>5. Booked'
    <3>1. Open' = Open
      BY <2>1 DEF Open
    <3>2. QED BY <1>1, <1>2, <3>1 DEF Booked
  <2>6. QED BY <2>3, <2>4, <2>5, FeesAddUpNext
<1>6. QED BY <1>4, <1>5

LEMMA CrashFees == ASSUME FeeInv, Crash PROVE SweepWork' /\ FeesAddUp'
<1>1. /\ TypeOK /\ SweepWork /\ Booked /\ \A u \in Users : Balanced(u)
      /\ \A s \in Sweeps : pc[s] \in {"settle", "send", "confirm", "next", "idle", "done", "dead"}
  BY FeesAddUpIs DEF FeeInv, Inv, StagesOK
<1>2. /\ \A s \in Sweeps : pc'[s] = IF pc[s] \in Settling \cup {"next"} THEN "dead" ELSE pc[s]
      /\ UNCHANGED <<pendingFee, status, pay, wallet, run, audited, snap, collected>>
  BY <1>1 DEF Crash, Live, Settling, Actors, ledger, table, fees
<1>3. SweepWork'
  BY <1>1, <1>2 DEF SweepWork, Settling
<1>4. ASSUME NEW u \in Users PROVE Balanced(u)'
  <2>1. ASSUME NEW s \in Sweeps, wallet[s] = u, pc[s] = "next" PROVE ~ (snap[s][u] > 0)
    BY <1>1, <2>1, ActorsAssumption DEF SweepWork
  <2>2. Claimants(u)' = Claimants(u)
    BY <1>1, <1>2, <2>1 DEF Claimants, Settling
  <2>3. Claimed(u)' = Claimed(u) /\ Charged(u)' = Charged(u)
    BY <1>1, <1>2, <2>2, ClaimedKept, ChargedKept
  <2>4. QED BY <1>1, <1>2, <2>3 DEF Balanced
<1>5. Booked'
  <2>1. Open' = Open
    BY <1>2 DEF Open, Settling
  <2>2. QED BY <1>1, <1>2, <2>1 DEF Booked
<1>6. QED BY <1>3, <1>4, <1>5, FeesAddUpNext

(* A step of a request leaves the sweeps as they are. *)
LEMMA SendStepFees ==
  ASSUME FeeInv, NEW r \in Requests, SendStep(r) \/ Reject(r)
  PROVE  SweepWork' /\ FeesAddUp'
<1>1. Inv /\ TypeOK /\ r \in Actors /\ Sweeps \subseteq Actors /\ r \notin Sweeps
  BY ActorsAssumption DEF FeeInv, Inv, Actors
<1>2. SweepsIdle
  BY <1>1 DEF SweepsIdle, SendStep, Refuse, SettleInternal, StartExternal, Hold, Decline, Proceed,
              FinishSend, Reject, Goto, coroutine, fees, TypeOK
<1>3. pc[r] \in Settling \cup {"idle", "risk", "riskLarge"} => status[r] = "none"
  BY <1>1, AtWork
<1>4. CASE SettleInternal(r) \/ (FinishSend(r) /\ ~ KeyTaken(r))
  <2>1. /\ status[r] # "completed" /\ status' = [status EXCEPT ![r] = "completed"]
        /\ pendingFee' = [pendingFee EXCEPT ![pay[r].from] = @ + Fee(r)]
    BY <1>3, <1>4 DEF SettleInternal, Accepted, FinishSend, Confirmed, Complete, Settling
  <2>2. QED BY <1>2, <2>1, ChargeKeeps
<1>5. CASE Hold(r) \/ Reject(r)
  <2>1. pendingFee' = pendingFee /\ status[r] # "completed"
        /\ \E st \in {"pending_review", "rejected"} : status' = [status EXCEPT ![r] = st]
    BY <1>3, <1>5 DEF Hold, Reject, ledger
  <2>2. \A q \in Requests : status'[q] = "completed" <=> status[q] = "completed"
    BY <1>1, <2>1 DEF TypeOK
  <2>3. QED BY <1>2, <2>1, <2>2, QuietKeeps
<1>6. CASE Refuse(r) \/ StartExternal(r) \/ Decline(r) \/ Proceed(r) \/ (FinishSend(r) /\ KeyTaken(r))
  <2>1. pendingFee' = pendingFee /\ status' = status
    BY <1>6 DEF Refuse, StartExternal, Decline, Proceed, FinishSend, ledger, table
  <2>2. QED BY <1>2, <2>1, QuietKeeps
<1>7. QED BY <1>4, <1>5, <1>6 DEF SendStep

LEMMA ApprovalFees ==
  ASSUME FeeInv, NEW a \in Approvals, FinishApproval(a) \/ \E r \in Requests : Approve(a, r)
  PROVE  SweepWork' /\ FeesAddUp'
<1>1. Inv /\ TypeOK /\ a \in Actors /\ Sweeps \subseteq Actors /\ a \notin Sweeps
  BY ActorsAssumption DEF FeeInv, Inv, Actors
<1>2. SweepsIdle
  BY <1>1 DEF SweepsIdle, FinishApproval, Approve, Goto, fees, TypeOK
<1>3. CASE FinishApproval(a)
  <2>1. /\ held[a] \in Requests /\ status[held[a]] = "approving"
        /\ status' = [status EXCEPT ![held[a]] = "completed"]
        /\ pendingFee' = [pendingFee EXCEPT ![pay[held[a]].from] = @ + Fee(held[a])]
    BY <1>1, <1>3, AtWork DEF FinishApproval, Confirmed, Complete, Settling
  <2>2. QED BY <1>2, <2>1, ChargeKeeps
<1>4. ASSUME NEW r \in Requests, Approve(a, r) PROVE SweepWork' /\ FeesAddUp'
  <2>1. pendingFee' = pendingFee /\ \A q \in Requests : status'[q] = "completed" <=> status[q] = "completed"
    BY <1>1, <1>4 DEF Approve, ledger, TypeOK
  <2>2. QED BY <1>2, <2>1, QuietKeeps
<1>5. QED BY <1>3, <1>4

LEMMA GiveUpFees ==
  ASSUME FeeInv, NEW a \in Actors, pc[a] \in Settling, GiveUp(a)
  PROVE  SweepWork' /\ FeesAddUp'
<1>1. Inv /\ TypeOK /\ Sweeps \subseteq Actors
  BY DEF FeeInv, Inv, Actors
<1>2. CASE a \in Sweeps
  <2>1. Amount(a) \in Int
    BY <1>1, SettlementIsTyped
  <2>2. /\ pc'[a] = "next" /\ \A x \in Sweeps \ {a} : pc'[x] = pc[x]
        /\ snap' = [snap EXCEPT ![a][wallet[a]] = 0]
        /\ pendingFee' = [pendingFee EXCEPT ![wallet[a]] = @ + Amount(a)]
        /\ UNCHANGED <<pay, wallet, status, collected, run, audited>>
    BY <1>1, <1>2, ActorsAssumption DEF GiveUp, RestoreFee, Goto, TypeOK, fees
  <2>3. QED BY <1>2, <2>1, <2>2, SettledKeeps
<1>3. CASE a \notin Sweeps
  <2>1. SweepsIdle /\ pendingFee' = pendingFee
    BY <1>1, <1>3 DEF SweepsIdle, GiveUp, Goto, fees, TypeOK
  <2>2. \A q \in Requests : status'[q] = "completed" <=> status[q] = "completed"
    BY <1>1 DEF GiveUp, ReleaseRow, TypeOK
  <2>3. QED BY <2>1, <2>2, QuietKeeps
<1>4. QED BY <1>2, <1>3

LEMMA SettleStepFees ==
  ASSUME FeeInv, NEW a \in Actors, SettleStep(a)
  PROVE  SweepWork' /\ FeesAddUp'
<1>1. CASE pc[a] \in Settling /\ GiveUp(a)
  BY <1>1, GiveUpFees
<1>2. CASE Screened(a) \/ Broadcast(a) \/ \E c \in Chains : ChooseChain(a, c)
  <2>1. TypeOK /\ Sweeps \subseteq Actors
    BY DEF FeeInv, Inv, Actors
  <2>2. UNCHANGED <<pay, snap, wallet, run, audited, collected, pendingFee, status>>
    BY <1>2 DEF Screened, Broadcast, ChooseChain, ledger, table, fees
  <2>3. \A s \in Sweeps : pc'[s] = pc[s] \/ (pc[s] \in Settling /\ pc'[s] \in Settling)
    BY <1>2, <2>1 DEF Screened, Broadcast, ChooseChain, Goto, Settling, TypeOK
  <2>4. QED BY <2>2, <2>3, QuietKeeps DEF SweepsIdle
<1>3. QED
  BY <1>1, <1>2 DEF SettleStep, FailBeforeBroadcast, AnswerLost, TimedOut, Reverted, Settling

LEMMA SweepFees ==
  ASSUME FeeInv, NEW s \in Sweeps, FinishSweep(s) \/ CancelSweep(s)
  PROVE  SweepWork' /\ FeesAddUp'
<1>1. Inv /\ TypeOK /\ s \in Actors /\ Sweeps \subseteq Actors /\ pc[s] \in Settling
  BY DEF FeeInv, Inv, Actors, FinishSweep, CancelSweep, Confirmed, Settling
<1>2. Amount(s) \in Int
  BY <1>1, SettlementIsTyped
<1>3. /\ pc'[s] \in {"next", "dead"} /\ \A x \in Sweeps \ {s} : pc'[x] = pc[x]
      /\ snap' = [snap EXCEPT ![s][wallet[s]] = 0]
      /\ UNCHANGED <<pay, wallet, status, collected>>
  BY <1>1 DEF FinishSweep, CancelSweep, RestoreFee, Goto, TypeOK, fees, table
<1>4. \/ /\ pendingFee' = [pendingFee EXCEPT ![wallet[s]] = @ + Amount(s)]
         /\ UNCHANGED <<run, audited>>
      \/ /\ audited' = [audited EXCEPT ![wallet[s]] = @ + Amount(s)]
         /\ run' = [run EXCEPT ![s] = @ + Amount(s)]
         /\ pendingFee' = pendingFee
  BY DEF FinishSweep, CancelSweep, RestoreFee, fees, ledger
<1>5. QED BY <1>1, <1>2, <1>3, <1>4, SettledKeeps

LEMMA FeeInit == Init => FeeInv
<1> SUFFICES ASSUME Init PROVE FeeInv
  OBVIOUS
<1>1. Inv /\ TypeOK
  BY InitInv DEF Inv
<1>2. SweepWork
  BY DEF Init, SweepWork, Settling, Actors
<1>3. ASSUME NEW u \in Users PROVE Balanced(u)
  <2>1. Claimants(u) = {} /\ CompletedBy(u) = {}
    BY DEF Init, Claimants, CompletedBy, Settling, Actors
  <2>2. Claimed(u) = 0 /\ Charged(u) = 0
    BY <2>1, SumEmpty DEF Claimed, Charged
  <2>3. QED BY <2>2 DEF Init, Balanced
<1>4. Booked
  <2>1. ASSUME NEW f, NEW S, IsFiniteSet(S), \A x \in S : f[x] = 0 PROVE SumFunctionOnSet(f, S) = 0
    BY <2>1, SumZero
  <2>2. SumFunctionOnSet(run, Open) = 0
    BY <2>1, FiniteAssumption, FS_Subset DEF Init, Open
  <2>3. SumFunctionOnSet(audited, Users) = 0
    BY <2>1, FiniteAssumption DEF Init
  <2>4. QED BY <2>2, <2>3 DEF Init, Booked
<1>5. QED BY <1>1, <1>2, <1>3, <1>4, FeesAddUpIs DEF FeeInv

LEMMA FeeNext == FeeInv /\ [Next]_vars => FeeInv'
<1> SUFFICES ASSUME FeeInv, [Next]_vars PROVE FeeInv'
  OBVIOUS
<1>1. Inv'
  BY NextInv DEF FeeInv
<1>2. SweepWork' /\ FeesAddUp'
  <2>1. CASE UNCHANGED vars
    BY <2>1, QuietKeeps DEF SweepsIdle, vars, ledger, table, coroutine, fees
  <2>2. CASE \E r \in Requests : SendStep(r) \/ Reject(r)
    BY <2>2, SendStepFees
  <2>3. CASE \E a \in Approvals : FinishApproval(a) \/ \E r \in Requests : Approve(a, r)
    BY <2>3, ApprovalFees
  <2>4. CASE \E s \in Sweeps : StartSweep(s) \/ SweepStep(s) \/ CancelSweep(s)
    BY <2>4, StartSweepFees, EndSweepFees, ClaimFeeFees, SweepFees DEF SweepStep
  <2>5. CASE \E a \in Actors : SettleStep(a)
    BY <2>5, SettleStepFees
  <2>6. CASE \E a \in Actors, u \in Users : Mine(a, u) \/ Drop(a, u)
    <3>1. SweepsIdle /\ pendingFee' = pendingFee /\ status' = status
      BY <2>6 DEF SweepsIdle, Mine, Drop, ledger, table, coroutine, fees
    <3>2. QED BY <3>1, QuietKeeps
  <2>7. CASE Crash
    BY <2>7, CrashFees
  <2>8. QED BY <2>1, <2>2, <2>3, <2>4, <2>5, <2>6, <2>7 DEF Next, Environment
<1>3. QED BY <1>1, <1>2 DEF FeeInv

(* No interleaving of sends, sweeps, failures and restarts loses a cent of *)
(* fee or counts one twice, and the FeeCollection rows account for every   *)
(* sweep that was recorded by a run that ended (collect_fees).             *)
THEOREM FeesAreConserved == Spec => []FeesAddUp
<1>1. FeeInv => FeesAddUp
  BY DEF FeeInv
<1>2. QED BY <1>1, FeeInit, FeeNext, PTL DEF Spec
=============================================================================
