------------------------ MODULE SharedBalanceProofs ------------------------
(***************************************************************************)
(* What is proved of Redemptions, Transfers and their composition for      *)
(* every number of users, calls and requests, every limit and every        *)
(* opening balance.  The escrow of a redemption is in exactly one place    *)
(* and its status follows the state machine: both rest on the lock of the  *)
(* redemption row.  The 24-hour limit rests on the lock of the user's row, *)
(* a request of the FAWN Tab is paid once because it is claimed before its *)
(* money moves, and the ledger adds up as long as every call that holds a  *)
(* copy of a balance holds the balance.                                    *)
(***************************************************************************)
EXTENDS SharedBalance, SumTheorems

(* A row exists only once its request has ended. *)
RequestsOK == \A r \in Requests : status[r] # "none" => pc[r] = "done"

(* A refund works on a row that exists; past LockRow it holds the row's    *)
(* lock, and the row can still be refunded.                                *)
RefundsOK ==
  \A c \in Refunders :
    /\ pc[c] \in {"loaded", "rowLocked", "locked"} => target[c] \in Requests
    /\ pc[c] \in {"rowLocked", "locked"} =>
         /\ rowLock[target[c]] = c
         /\ status[target[c]] \in Refundable(c)

Inv == TypeOK /\ EscrowInOnePlace /\ RequestsOK /\ RefundsOK

----------------------------------------------------------------------------

(* What a request asks for, and whose it is. *)
LEMMA AskIsTyped ==
  ASSUME TypeOK, NEW r \in Requests
  PROVE  ask[r].amount \in Nat \ {0} /\ Owner(r) \in Users
BY OrdersAssumption DEF TypeOK, Owner

(* No call is of two kinds, and no call is None. *)
LEMMA CallsAreDistinct ==
  /\ Requests \subseteq Calls /\ Refunders \subseteq Calls
  /\ Requests \cap Refunders = {} /\ Cancels \cap Reviews = {}
  /\ Cancels \subseteq Refunders /\ Reviews \subseteq Refunders
  /\ None \notin Calls
BY CallsAssumption DEF Calls, Refunders

LEMMA InitInv == Init => Inv
BY CallsAreDistinct, OpeningAssumption, BoundsAssumption
DEF Init, Inv, TypeOK, EscrowInOnePlace, RequestsOK, RefundsOK, Open, Closed

----------------------------------------------------------------------------
(* Every step keeps the invariant *)

(* Steps that move one call and write no row. *)
LEMMA LoadInv == ASSUME Inv, NEW r \in Requests, Load(r) PROVE Inv'
<1>1. balance[Owner(r)] \in Int
  BY AskIsTyped DEF Inv, TypeOK
<1> QED
  BY <1>1, CallsAreDistinct
  DEF Inv, TypeOK, EscrowInOnePlace, RequestsOK, RefundsOK, Refundable, Load, Goto, rows, locks

LEMMA CheckKeyInv == ASSUME Inv, NEW r \in Requests, CheckKey(r) PROVE Inv'
<1>1. PICK s \in {"done", "checked"} : pc' = [pc EXCEPT ![r] = s]
  BY DEF CheckKey, Goto
<1> QED
  BY <1>1, CallsAreDistinct
  DEF Inv, TypeOK, EscrowInOnePlace, RequestsOK, RefundsOK, Refundable, CheckKey, rows, locks

LEMMA LockUserInv == ASSUME Inv, NEW r \in Requests, LockUser(r) PROVE Inv'
<1>1. PICK s \in {"refused", "locked"} : pc' = [pc EXCEPT ![r] = s]
  BY DEF LockUser, Goto
<1>2. userLock' \in [Users -> Calls \cup {None}]
  BY CallsAreDistinct DEF Inv, TypeOK, LockUser
<1> QED
  BY <1>1, <1>2, CallsAreDistinct
  DEF Inv, TypeOK, EscrowInOnePlace, RequestsOK, RefundsOK, Refundable, LockUser, rows

(* The row appears with all of its amount held. *)
LEMMA EscrowInv == ASSUME Inv, NEW r \in Requests, Escrow(r) PROVE Inv'
<1>1. status[r] = "none" /\ held[r] = 0 /\ refunded[r] = 0
  BY DEF Inv, RequestsOK, EscrowInOnePlace, Escrow, Open, Closed
<1>2. pc' = [pc EXCEPT ![r] = "done"]
  BY DEF Escrow, Goto
<1>3. CASE KeyTaken(r)
  <2>1. UNCHANGED <<balance, ask, rows, seen, target, rowLock, crashes>>
    BY <1>3 DEF Escrow, rows
  <2>2. userLock' \in [Users -> Calls \cup {None}]
    BY DEF Inv, TypeOK, Escrow
  <2> QED
    BY <1>2, <2>1, <2>2, CallsAreDistinct
    DEF Inv, TypeOK, EscrowInOnePlace, RequestsOK, RefundsOK, Refundable, rows
<1>4. CASE ~ KeyTaken(r)
  <2>1. /\ status' = [status EXCEPT ![r] = "requested"]
        /\ held' = [held EXCEPT ![r] = ask[r].amount]
        /\ balance' = [balance EXCEPT ![Owner(r)] = seen[r] - ask[r].amount]
    BY <1>4 DEF Escrow
  <2>2. balance' \in [Users -> Int] /\ ask[r].amount \in Int
    BY <2>1, AskIsTyped, CallsAreDistinct DEF Inv, TypeOK
  <2>3. TypeOK'
    BY <1>2, <2>1, <2>2, CallsAreDistinct DEF Inv, TypeOK, Escrow, Open
  <2>4. EscrowInOnePlace'
    BY <1>1, <2>1 DEF Inv, TypeOK, EscrowInOnePlace, Escrow, Open, Closed
  <2>5. RequestsOK'
    BY <1>2, <2>1, CallsAreDistinct DEF Inv, TypeOK, RequestsOK
  <2>6. RefundsOK'
    BY <1>1, <1>2, <2>1, CallsAreDistinct
    DEF Inv, TypeOK, RefundsOK, Refundable, Escrow, Open
  <2> QED
    BY <2>3, <2>4, <2>5, <2>6 DEF Inv
<1> QED
  BY <1>3, <1>4

LEMMA LoadForCancelInv ==
  ASSUME Inv, NEW c \in Cancels, NEW r \in Requests, LoadForCancel(c, r)
  PROVE  Inv'
<1>1. balance[Owner(r)] \in Int
  BY AskIsTyped DEF Inv, TypeOK
<1> QED
  BY <1>1, CallsAreDistinct
  DEF Inv, TypeOK, EscrowInOnePlace, RequestsOK, RefundsOK, Refundable, LoadForCancel, Goto, rows, locks

LEMMA StartReviewInv ==
  ASSUME Inv, NEW c \in Reviews, NEW r \in Requests, StartReview(c, r)
  PROVE  Inv'
BY CallsAreDistinct
DEF Inv, TypeOK, EscrowInOnePlace, RequestsOK, RefundsOK, Refundable, StartReview, Goto, rows, locks

(* The lock was free, so no other call relied on the row. *)
LEMMA LockRowInv == ASSUME Inv, NEW c \in Refunders, LockRow(c) PROVE Inv'
<1>1. /\ target[c] \in Requests /\ rowLock[target[c]] = None
      /\ rowLock' = [rowLock EXCEPT ![target[c]] = c]
  BY DEF Inv, RefundsOK, LockRow
<1>2. CASE status[target[c]] \in Refundable(c)
  <2>1. pc' = [pc EXCEPT ![c] = "rowLocked"]
    BY <1>2 DEF LockRow, Goto
  <2> QED
    BY <1>1, <1>2, <2>1, CallsAreDistinct
    DEF Inv, TypeOK, EscrowInOnePlace, RequestsOK, RefundsOK, Refundable, LockRow, rows
<1>3. CASE status[target[c]] \notin Refundable(c)
  <2>1. pc' = [pc EXCEPT ![c] = "refused"]
    BY <1>3 DEF LockRow, Goto
  <2> QED
    BY <1>1, <2>1, CallsAreDistinct
    DEF Inv, TypeOK, EscrowInOnePlace, RequestsOK, RefundsOK, Refundable, LockRow, rows
<1> QED
  BY <1>2, <1>3

LEMMA LockOwnerInv == ASSUME Inv, NEW c \in Refunders, LockOwner(c) PROVE Inv'
<1>1. target[c] \in Requests
  BY DEF Inv, RefundsOK, LockOwner
<1>2. balance[Owner(target[c])] \in Int
  BY <1>1, AskIsTyped DEF Inv, TypeOK
<1>3. seen' \in [Calls -> Int]
  BY <1>2, CallsAreDistinct DEF Inv, TypeOK, LockOwner
<1>4. userLock' \in [Users -> Calls \cup {None}]
  BY CallsAreDistinct DEF Inv, TypeOK, LockOwner
<1>5. /\ pc' = [pc EXCEPT ![c] = "locked"] /\ pc[c] = "rowLocked"
      /\ UNCHANGED <<balance, ask, rows, target, rowLock, crashes>>
  BY DEF LockOwner, Goto
<1> QED
  BY <1>3, <1>4, <1>5, CallsAreDistinct
  DEF Inv, TypeOK, EscrowInOnePlace, RequestsOK, RefundsOK, Refundable, rows

(* Exactly what is held is refunded, to a row that nobody else refunds. *)
LEMMA ReleaseInv ==
  ASSUME Inv, NEW c \in Refunders, NEW ending \in Closed, Release(c, ending)
  PROVE  Inv'
<1> DEFINE r == target[c]
<1>1. r \in Requests /\ rowLock[r] = c /\ status[r] \in Open
  BY DEF Inv, RefundsOK, Release, Refundable, Open
<1>2. held[r] = ask[r].amount /\ refunded[r] = 0
  BY <1>1 DEF Inv, EscrowInOnePlace, Open, Closed
<1>3. /\ status' = [status EXCEPT ![r] = ending]
      /\ held' = [held EXCEPT ![r] = 0]
      /\ refunded' = [refunded EXCEPT ![r] = refunded[r] + held[r]]
      /\ rowLock' = [rowLock EXCEPT ![r] = None]
      /\ pc' = [pc EXCEPT ![c] = "done"]
      /\ balance' = [balance EXCEPT ![Owner(r)] = seen[c] + held[r]]
      /\ UNCHANGED <<ask, seen, target, crashes>>
  BY DEF Release, Goto
<1>4. refunded[r] + held[r] = ask[r].amount /\ ask[r].amount \in Int
  BY <1>1, <1>2, AskIsTyped DEF Inv
<1>5. TypeOK'
  <2>1. balance' \in [Users -> Int]
    <3>1. seen[c] \in Int /\ held[r] \in Int
      BY <1>1, CallsAreDistinct DEF Inv, TypeOK
    <3>2. seen[c] + held[r] \in Int
      BY <3>1
    <3> QED
      BY <1>3, <3>2 DEF Inv, TypeOK
  <2>2. userLock' \in [Users -> Calls \cup {None}]
    BY DEF Inv, TypeOK, Release
  <2>3. refunded' \in [Requests -> Int]
    BY <1>3, <1>4 DEF Inv, TypeOK
  <2>4. /\ ask' \in [Requests -> Orders] /\ seen' \in [Calls -> Int]
        /\ target' \in [Refunders -> Requests \cup {None}]
        /\ crashes' \in 0 .. MaxCrashes
    BY <1>3 DEF Inv, TypeOK
  <2>5. status' \in [Requests -> {"none", "paid"} \cup Open \cup Closed]
    BY <1>3 DEF Inv, TypeOK
  <2>6. held' \in [Requests -> Int]
    <3>1. held' = [held EXCEPT ![r] = 0] /\ held \in [Requests -> Int] /\ 0 \in Int
      BY <1>3 DEF Inv, TypeOK
    <3> HIDE DEF r
    <3> QED
      BY <3>1
  <2>7. rowLock' \in [Requests -> Calls \cup {None}]
    BY <1>3 DEF Inv, TypeOK
  <2>8. pc' \in [Calls -> {"idle", "loaded", "checked", "rowLocked", "locked", "refused", "done", "dead"}]
    BY <1>3 DEF Inv, TypeOK
  <2> QED
    BY <2>1, <2>2, <2>3, <2>4, <2>5, <2>6, <2>7, <2>8 DEF TypeOK
<1>6. EscrowInOnePlace'
  <2> SUFFICES ASSUME NEW q \in Requests
      PROVE  /\ held'[q] = IF status'[q] \in Open THEN ask[q].amount ELSE 0
             /\ refunded'[q] = IF status'[q] \in Closed THEN ask[q].amount ELSE 0
    BY <1>3 DEF EscrowInOnePlace
  <2>1. CASE q = r
    <3>1. held'[q] = 0 /\ refunded'[q] = ask[q].amount /\ status'[q] = ending
      BY <1>1, <1>3, <1>4, <2>1 DEF Inv, TypeOK
    <3> QED
      BY <3>1 DEF Open, Closed
  <2>2. CASE q # r
    <3>1. held'[q] = held[q] /\ refunded'[q] = refunded[q] /\ status'[q] = status[q]
      BY <1>3, <2>2 DEF Inv, TypeOK
    <3> QED
      BY <3>1 DEF Inv, EscrowInOnePlace
  <2> QED
    BY <2>1, <2>2
<1>7. RequestsOK'
  <2> HIDE DEF r
  <2> QED
    BY <1>1, <1>3, CallsAreDistinct DEF Inv, TypeOK, RequestsOK, Open
<1>8. RefundsOK'
  BY <1>1, <1>3, CallsAreDistinct DEF Inv, TypeOK, RefundsOK, Refundable
<1> QED
  BY <1>5, <1>6, <1>7, <1>8 DEF Inv

(* An admin's approval or payment needs the row's lock: no refund is under *)
(* way on it.                                                              *)
LEMMA ApproveRowInv == ASSUME Inv, NEW r \in Requests, ApproveRow(r) PROVE Inv'
BY CallsAreDistinct
DEF Inv, TypeOK, EscrowInOnePlace, RequestsOK, RefundsOK, Refundable, ApproveRow,
    locks, Open, Closed

LEMMA MarkPaidInv == ASSUME Inv, NEW r \in Requests, MarkPaid(r) PROVE Inv'
BY CallsAreDistinct
DEF Inv, TypeOK, EscrowInOnePlace, RequestsOK, RefundsOK, Refundable, MarkPaid,
    locks, Open, Closed

(* Only the locks of the refused call are let go. *)
LEMMA CloseInv == ASSUME Inv, NEW c \in Calls, Close(c) PROVE Inv'
<1>1. /\ pc' = [pc EXCEPT ![c] = "done"] /\ pc[c] = "refused"
      /\ UNCHANGED <<balance, ask, status, held, refunded, seen, target, crashes>>
  BY DEF Close, Goto, rows
<1>2. /\ rowLock' \in [Requests -> Calls \cup {None}]
      /\ userLock' \in [Users -> Calls \cup {None}]
  BY DEF Inv, TypeOK, Close
<1>3. ASSUME NEW r \in Requests, rowLock[r] # c PROVE rowLock'[r] = rowLock[r]
  BY <1>3 DEF Close
<1>4. TypeOK'
  BY <1>1, <1>2 DEF Inv, TypeOK
<1>5. EscrowInOnePlace' /\ RequestsOK'
  BY <1>1, CallsAreDistinct DEF Inv, TypeOK, EscrowInOnePlace, RequestsOK, Open, Closed
<1>6. RefundsOK'
  BY <1>1, <1>3, CallsAreDistinct DEF Inv, TypeOK, RefundsOK, Refundable
<1> QED
  BY <1>4, <1>5, <1>6 DEF Inv

LEMMA CrashInv == ASSUME Inv, Crash PROVE Inv'
<1>1. crashes' \in 0 .. MaxCrashes
  BY BoundsAssumption DEF Inv, TypeOK, Crash
<1> QED
  BY <1>1, CallsAreDistinct
  DEF Inv, TypeOK, EscrowInOnePlace, RequestsOK, RefundsOK, Refundable, Crash, rows

LEMMA NextInv == ASSUME Inv, [Next]_vars PROVE Inv'
<1>1. CASE UNCHANGED vars
  BY <1>1 DEF Inv, TypeOK, EscrowInOnePlace, RequestsOK, RefundsOK, Refundable, vars, rows, locks
<1>2. ASSUME NEW r \in Requests, Load(r) \/ RequestStep(r) \/ ApproveRow(r) \/ MarkPaid(r)
      PROVE  Inv'
  BY <1>2, LoadInv, CheckKeyInv, LockUserInv, EscrowInv, ApproveRowInv, MarkPaidInv
  DEF RequestStep
<1>3. ASSUME NEW c \in Refunders, RefundStep(c) PROVE Inv'
  BY <1>3, LockRowInv, LockOwnerInv, ReleaseInv DEF RefundStep
<1>4. ASSUME NEW r \in Requests, NEW c \in Cancels, LoadForCancel(c, r) PROVE Inv'
  BY <1>4, LoadForCancelInv
<1>5. ASSUME NEW r \in Requests, NEW c \in Reviews, StartReview(c, r) PROVE Inv'
  BY <1>5, StartReviewInv
<1>6. CASE Crash
  BY <1>6, CrashInv
<1>7. ASSUME NEW c \in Calls, Close(c) PROVE Inv'
  BY <1>7, CloseInv
<1> QED
  BY <1>1, <1>2, <1>3, <1>4, <1>5, <1>6, <1>7 DEF Next

(* The invariant holds of redemptions by themselves. *)
THEOREM Invariance == Spec => []Inv
<1>1. Init => Inv
  BY InitInv
<1>2. Inv /\ [Next]_vars => Inv'
  BY NextInv
<1> QED
  BY <1>1, <1>2, PTL DEF Spec

----------------------------------------------------------------------------
(* A step that moves a row follows an edge of the state machine. *)
LEMMA StepFollowsEdges ==
  ASSUME Inv, [Next]_vars
  PROVE  \A r \in Requests : status'[r] # status[r] => <<status[r], status'[r]>> \in Edges
<1> DEFINE E == \A r \in Requests : status'[r] # status[r] => <<status[r], status'[r]>> \in Edges
<1>1. ASSUME UNCHANGED status PROVE E
  BY <1>1
<1>2. ASSUME NEW r \in Requests, Escrow(r) PROVE E
  <2>1. status[r] = "none"
    BY <1>2 DEF Inv, RequestsOK, Escrow
  <2> QED
    BY <1>2, <2>1 DEF Inv, TypeOK, Escrow, Edges
<1>3. ASSUME NEW r \in Requests, ApproveRow(r) \/ MarkPaid(r) PROVE E
  BY <1>3 DEF Inv, TypeOK, ApproveRow, MarkPaid, Edges
<1>4. ASSUME NEW c \in Refunders, NEW ending \in Closed,
             ending = "cancelled" <=> c \in Cancels, Release(c, ending)
      PROVE  E
  <2>1. target[c] \in Requests /\ status[target[c]] \in Refundable(c)
    BY <1>4 DEF Inv, RefundsOK, Release
  <2>2. <<status[target[c]], ending>> \in Edges
    BY <1>4, <2>1 DEF Refundable, Open, Closed, Edges
  <2>3. status' = [status EXCEPT ![target[c]] = ending]
    BY <1>4 DEF Release
  <2> QED
    BY <2>1, <2>2, <2>3 DEF Inv, TypeOK
<1> QED
  BY <1>1, <1>2, <1>3, <1>4
  DEF Next, RequestStep, RefundStep, Load, CheckKey, LockUser, LockRow, LockOwner,
      LoadForCancel, StartReview, Close, Crash, vars, rows

----------------------------------------------------------------------------
(* The invariant of the composition *)

(* A request whose checks have passed holds its user's lock, and what the  *)
(* user redeems in the day, itself included, is still within the limit: no *)
(* other request of the user can come in between.  So does a refund that   *)
(* is about to commit.                                                     *)
LocksOK ==
  /\ \A r \in Requests : pc[r] = "locked" =>
       /\ userLock[Owner(r)] = r
       /\ Redeemed(Owner(r)) + ask[r].amount <= DailyMax
  /\ \A c \in Refunders : pc[c] = "locked" => userLock[Owner(target[c])] = c

(* What a call of Transfers has loaded, by the stage it is in. *)
Busy == {"loaded", "claimed", "paid"}
Work == [from : Users \cup {None}, to : Users \cup {None}, amount : Nat,
         tab : Tabs \cup {None}, mine : Int, theirs : Int]

TasksOK ==
  /\ SharedTypeOK
  /\ stage \in [T!Tasks -> {"idle", "done"} \cup Busy]
  /\ work \in [T!Tasks -> Work]
  /\ \A h \in T!Tasks : stage[h] \in {"claimed", "paid"} => h \in Pays
  /\ \A h \in T!Coroutines : stage[h] \in Busy =>
       /\ work[h].to \in Users \ {work[h].from}
       /\ IF h \in Moves THEN loop = h ELSE work[h].from \in Users /\ work[h].tab \in Tabs
  /\ \A h \in Reminders : stage[h] = "loaded" => work[h].tab \in Tabs
  /\ \A h \in T!Coroutines : loop = h => stage[h] \in Busy

(* A request that has been claimed is processing until its coroutine is    *)
(* done with it, and its money moves as the coroutine pays.                *)
TabsOK ==
  /\ moved \in [Tabs -> Nat]
  /\ \A r \in Tabs : tab[r] # "none" => terms[r] \in Terms
  /\ \A h \in Pays : stage[h] \in {"claimed", "paid"} =>
       /\ tab[work[h].tab] = "processing"
       /\ moved[work[h].tab] = IF stage[h] = "paid" THEN 1 ELSE 0
  /\ TabPaidOnce

SharedSafe == Inv /\ LocksOK /\ DailyLimitHolds /\ TasksOK /\ TabsOK

(* As long as no balance changes under a copy, every copy is current. *)
Loaded(c) ==
  \/ c \in Requests /\ pc[c] \in {"loaded", "checked", "locked"}
  \/ c \in Cancels /\ pc[c] \in {"loaded", "rowLocked", "locked"}
  \/ c \in Reviews /\ pc[c] = "locked"

CopiesOK ==
  ~ overtaken =>
    /\ \A r \in Requests : Loaded(r) => seen[r] = balance[Owner(r)]
    /\ \A c \in Refunders : Loaded(c) => seen[c] = balance[Owner(target[c])]
    /\ \A h \in T!Coroutines : stage[h] \in {"loaded", "claimed"} =>
         /\ work[h].from \in Users => work[h].mine = balance[work[h].from]
         /\ loop = h => work[h].theirs = balance[work[h].to]

SharedInv == SharedSafe /\ CopiesOK /\ LedgerAddsUp

----------------------------------------------------------------------------
(* Sums of what redemptions ask for *)

LiveOf(u) == {r \in Requests : Owner(r) = u /\ status[r] \in Open \cup {"paid"}}
Live      == {r \in Requests : status[r] \in Open \cup {"paid"}}

LEMMA AskedIsNat ==
  ASSUME TypeOK, NEW S \in SUBSET Requests
  PROVE  IsFiniteSet(S) /\ Sum(S) \in Nat
<1> DEFINE f == [r \in Requests |-> ask[r].amount]
<1>1. IsFiniteSet(S) /\ IsFiniteSet(Requests)
  BY FiniteAssumption, FS_Subset
<1>2. \A r \in Requests : f[r] \in Nat
  BY AskIsTyped
<1> HIDE DEF f
<1>3. 0 <= SumFunctionOnSet(f, S)
  BY <1>1, <1>2, SumMonotone
<1>4. SumFunctionOnSet(f, S) \in Int
  <2>1. \A r \in S : f[r] \in Int
    BY <1>2
  <2> QED
    BY <1>1, <2>1, SumInt
<1> QED
  BY <1>1, <1>3, <1>4 DEF Sum, f

LEMMA AskedMonotone ==
  ASSUME TypeOK, NEW S \in SUBSET Requests, NEW R \in SUBSET S
  PROVE  Sum(R) <= Sum(S)
<1> DEFINE f == [r \in Requests |-> ask[r].amount]
<1>1. IsFiniteSet(S)
  BY AskedIsNat
<1>2. \A r \in S : f[r] \in Nat
  BY AskIsTyped
<1> HIDE DEF f
<1>3. SumFunctionOnSet(f, R) <= SumFunctionOnSet(f, S)
  BY <1>1, <1>2, SumMonotone
<1> QED
  BY <1>3 DEF Sum, f

LEMMA AskedAdded ==
  ASSUME TypeOK, NEW S \in SUBSET Requests, NEW r \in Requests, r \notin S,
         NEW R, R = S \cup {r}
  PROVE  Sum(R) = Sum(S) + ask[r].amount
<1> DEFINE f == [q \in Requests |-> ask[q].amount]
<1>1. IsFiniteSet(S)
  BY AskedIsNat
<1>2. f[r] = ask[r].amount /\ \A q \in S \cup {r} : f[q] \in Int
  BY AskIsTyped
<1> HIDE DEF f
<1>3. SumFunctionOnSet(f, S \cup {r}) = SumFunctionOnSet(f, S) + f[r]
  BY <1>1, <1>2, SumAdd
<1> QED
  BY <1>2, <1>3 DEF Sum, f

----------------------------------------------------------------------------
(* The locks, and the 24-hour limit *)

LEMMA RedeemedIs ==
  ASSUME TypeOK, NEW u \in Users
  PROVE  /\ Redeemed(u) = Sum(LiveOf(u)) /\ Redeemed(u) \in Nat
         /\ LiveOf(u) \in SUBSET Requests
<1>1. LiveOf(u) \in SUBSET Requests
  BY DEF LiveOf
<1>2. Redeemed(u) = Sum(LiveOf(u))
  BY DEF Redeemed, LiveOf
<1> QED
  BY <1>1, <1>2, AskedIsNat

(* The total of a day, after a step in terms of what was asked before it *)
LEMMA RedeemedNext ==
  ASSUME ask' = ask, NEW u \in Users
  PROVE  Redeemed(u)' = Sum(LiveOf(u)')
BY DEF Redeemed, LiveOf, Sum

(* A step that makes no redemption live, gives no call the right to        *)
(* commit, and takes the lock of no call that has it.                      *)
LEMMA LocksKept ==
  ASSUME Inv, LocksOK, DailyLimitHolds, ask' = ask,
         \A u \in Users : LiveOf(u)' \subseteq LiveOf(u),
         \A c \in Calls : pc'[c] = "locked" =>
           pc[c] = "locked" /\ \A u \in Users : userLock[u] = c => userLock'[u] = c,
         \A c \in Refunders : pc'[c] = "locked" => target'[c] = target[c]
  PROVE  LocksOK' /\ DailyLimitHolds'
<1>1. ASSUME NEW u \in Users PROVE Redeemed(u)' <= Redeemed(u) /\ Redeemed(u)' \in Nat
  <2>1. PICK R : R = LiveOf(u)'
    OBVIOUS
  <2>2. Sum(R) <= Sum(LiveOf(u)) /\ Sum(R) \in Nat
    BY <2>1, RedeemedIs, AskedMonotone, AskedIsNat DEF Inv
  <2> QED
    BY <2>1, <2>2, RedeemedNext, RedeemedIs DEF Inv
<1>2. DailyLimitHolds'
  BY <1>1, RedeemedIs, BoundsAssumption DEF DailyLimitHolds, Inv
<1>3. ASSUME NEW r \in Requests, pc'[r] = "locked"
      PROVE  userLock'[Owner(r)] = r /\ Redeemed(Owner(r))' + ask[r].amount <= DailyMax
  <2>1. PICK u \in Users : u = Owner(r)
    BY AskIsTyped DEF Inv
  <2>2. userLock[u] = r /\ Redeemed(u) + ask[r].amount <= DailyMax
    BY <1>3, <2>1, CallsAreDistinct DEF LocksOK
  <2>3. Redeemed(u)' <= Redeemed(u) /\ Redeemed(u)' \in Nat /\ Redeemed(u) \in Nat /\ ask[r].amount \in Nat
    BY <1>1, RedeemedIs, AskIsTyped DEF Inv
  <2>4. Redeemed(u)' + ask[r].amount <= DailyMax
    BY <2>2, <2>3, BoundsAssumption
  <2>5. Redeemed(Owner(r))' = Redeemed(u)' /\ userLock'[u] = r
    BY <1>3, <2>1, <2>2, CallsAreDistinct DEF Owner
  <2> QED
    BY <2>1, <2>4, <2>5
<1>4. ASSUME NEW c \in Refunders, pc'[c] = "locked"
      PROVE  userLock'[Owner(target[c])] = c
  <2>1. Owner(target[c]) \in Users /\ userLock[Owner(target[c])] = c
    BY <1>4, CallsAreDistinct, AskIsTyped DEF Inv, RefundsOK, LocksOK
  <2> QED
    BY <1>4, <2>1, CallsAreDistinct
<1> QED
  BY <1>2, <1>3, <1>4 DEF LocksOK, Owner

LEMMA LockUserLocks ==
  ASSUME Inv, LocksOK, DailyLimitHolds, NEW r \in Requests, LockUser(r)
  PROVE  LocksOK' /\ DailyLimitHolds'
<1>1. PICK u \in Users : u = Owner(r)
  BY AskIsTyped DEF Inv
<1>2. /\ userLock[u] = None /\ userLock' = [userLock EXCEPT ![u] = r]
      /\ UNCHANGED <<ask, status, target>>
      /\ pc' \in {[pc EXCEPT ![r] = "locked"], [pc EXCEPT ![r] = "refused"]}
      /\ pc'[r] = "locked" => Redeemed(u) + ask[r].amount <= DailyMax
  BY <1>1, CallsAreDistinct DEF LockUser, Goto, rows, Inv, TypeOK
<1>3. \A v \in Users : Redeemed(v)' = Redeemed(v)
  BY <1>2 DEF Redeemed, Sum, Owner
<1>4. DailyLimitHolds'
  BY <1>3 DEF DailyLimitHolds
<1>5. ASSUME NEW q \in Requests, pc'[q] = "locked"
      PROVE  userLock'[Owner(q)] = q /\ (Redeemed(Owner(q)) + ask[q].amount <= DailyMax)'
  <2>1. CASE q = r
    BY <1>1, <1>2, <1>3, <1>5, <2>1 DEF Inv, TypeOK, Owner
  <2>2. CASE q # r
    <3>1. pc[q] = "locked" /\ Owner(q) \in Users
      BY <1>2, <1>5, <2>2, AskIsTyped, CallsAreDistinct DEF Inv, TypeOK
    <3>2. userLock[Owner(q)] = q /\ Redeemed(Owner(q)) + ask[q].amount <= DailyMax
      BY <3>1 DEF LocksOK
    <3>3. Redeemed(Owner(q))' = Redeemed(Owner(q))
      BY <1>2, <1>3, <3>1 DEF Owner
    <3>4. userLock'[Owner(q)] = q
      BY <1>2, <3>1, <3>2, CallsAreDistinct DEF Inv, TypeOK
    <3> QED
      BY <1>2, <3>2, <3>3, <3>4
  <2> QED
    BY <2>1, <2>2
<1>6. ASSUME NEW c \in Refunders, pc'[c] = "locked" PROVE userLock'[Owner(target[c])] = c
  <2>1. pc[c] = "locked"
    BY <1>2, <1>6, CallsAreDistinct DEF Inv, TypeOK
  <2>2. Owner(target[c]) \in Users /\ userLock[Owner(target[c])] = c
    BY <2>1, CallsAreDistinct, AskIsTyped DEF Inv, RefundsOK, LocksOK
  <2> QED
    BY <1>2, <2>2, CallsAreDistinct DEF Inv, TypeOK
<1> QED
  BY <1>2, <1>4, <1>5, <1>6 DEF LocksOK, Owner

LEMMA LockOwnerLocks ==
  ASSUME Inv, LocksOK, DailyLimitHolds, NEW c \in Refunders, LockOwner(c)
  PROVE  LocksOK' /\ DailyLimitHolds'
<1>1. PICK u \in Users : u = Owner(target[c])
  BY AskIsTyped DEF Inv, RefundsOK, LockOwner
<1>2. /\ userLock[u] = None /\ userLock' = [userLock EXCEPT ![u] = c]
      /\ UNCHANGED <<ask, status, target>>
      /\ pc' = [pc EXCEPT ![c] = "locked"]
  BY <1>1 DEF LockOwner, Goto, rows
<1>3. \A v \in Users : Redeemed(v)' = Redeemed(v)
  BY <1>2 DEF Redeemed, Sum, Owner
<1>4. DailyLimitHolds'
  BY <1>3 DEF DailyLimitHolds
<1>5. ASSUME NEW q \in Requests, pc'[q] = "locked"
      PROVE  userLock'[Owner(q)] = q /\ (Redeemed(Owner(q)) + ask[q].amount <= DailyMax)'
  <2>1. pc[q] = "locked" /\ Owner(q) \in Users
    BY <1>2, <1>5, AskIsTyped, CallsAreDistinct DEF Inv, TypeOK
  <2>2. userLock[Owner(q)] = q /\ Redeemed(Owner(q)) + ask[q].amount <= DailyMax
    BY <2>1 DEF LocksOK
  <2>3. Redeemed(Owner(q))' = Redeemed(Owner(q))
    BY <1>2, <1>3, <2>1 DEF Owner
  <2>4. userLock'[Owner(q)] = q
    BY <1>2, <2>1, <2>2, CallsAreDistinct DEF Inv, TypeOK
  <2> QED
    BY <1>2, <2>2, <2>3, <2>4
<1>6. ASSUME NEW d \in Refunders, pc'[d] = "locked" PROVE userLock'[Owner(target[d])] = d
  <2>1. CASE d = c
    BY <1>1, <1>2, <2>1 DEF Inv, TypeOK
  <2>2. CASE d # c
    <3>1. pc[d] = "locked"
      BY <1>2, <1>6, <2>2, CallsAreDistinct DEF Inv, TypeOK
    <3>2. Owner(target[d]) \in Users /\ userLock[Owner(target[d])] = d
      BY <3>1, CallsAreDistinct, AskIsTyped DEF Inv, RefundsOK, LocksOK
    <3> QED
      BY <1>2, <3>2, CallsAreDistinct DEF Inv, TypeOK
  <2> QED
    BY <2>1, <2>2
<1> QED
  BY <1>2, <1>4, <1>5, <1>6 DEF LocksOK, Owner

(* The row that becomes live was counted when its user's lock was taken,   *)
(* and no other request of the user was let in since.                      *)
LEMMA EscrowLocks ==
  ASSUME Inv, LocksOK, DailyLimitHolds, NEW r \in Requests, Escrow(r)
  PROVE  LocksOK' /\ DailyLimitHolds'
<1>1. PICK u \in Users : u = Owner(r)
  BY AskIsTyped DEF Inv
<1>2. /\ pc[r] = "locked" /\ userLock[u] = r /\ Redeemed(u) + ask[r].amount <= DailyMax
      /\ userLock' = [userLock EXCEPT ![u] = None]
      /\ UNCHANGED <<ask, target>>
      /\ pc' = [pc EXCEPT ![r] = "done"]
      /\ status' \in {status, [status EXCEPT ![r] = "requested"]}
  BY <1>1 DEF Escrow, Goto, LocksOK
<1>3. status[r] = "none"
  BY <1>2 DEF Inv, RequestsOK
<1>4. ASSUME NEW v \in Users, v # u PROVE Redeemed(v)' = Redeemed(v)
  <2>1. LiveOf(v)' = LiveOf(v)
    BY <1>1, <1>2, <1>4 DEF LiveOf, Owner, Inv, TypeOK
  <2> QED
    BY <1>2, <2>1, RedeemedNext, RedeemedIs DEF Inv
<1>5. Redeemed(u)' <= DailyMax
  <2>1. CASE status' = status
    <3>1. Redeemed(u)' = Redeemed(u)
      BY <1>2, <2>1 DEF Redeemed, Sum, Owner
    <3> QED
      BY <3>1 DEF DailyLimitHolds
  <2>2. CASE status' = [status EXCEPT ![r] = "requested"]
    <3>1. PICK R : R = LiveOf(u)'
      OBVIOUS
    <3>2. R = LiveOf(u) \cup {r} /\ r \notin LiveOf(u) /\ LiveOf(u) \in SUBSET Requests
      BY <1>1, <1>2, <1>3, <2>2, <3>1 DEF LiveOf, Owner, Inv, TypeOK, Open
    <3>3. Sum(R) = Sum(LiveOf(u)) + ask[r].amount
      BY <3>2, AskedAdded DEF Inv
    <3> QED
      BY <1>2, <3>1, <3>3, RedeemedNext, RedeemedIs DEF Inv
  <2> QED
    BY <1>2, <2>1, <2>2
<1>6. DailyLimitHolds'
  BY <1>4, <1>5 DEF DailyLimitHolds
<1>7. ASSUME NEW q \in Requests, pc'[q] = "locked"
      PROVE  userLock'[Owner(q)] = q /\ (Redeemed(Owner(q)) + ask[q].amount <= DailyMax)'
  <2>1. q # r /\ pc[q] = "locked" /\ Owner(q) \in Users
    BY <1>2, <1>7, AskIsTyped, CallsAreDistinct DEF Inv, TypeOK
  <2>2. userLock[Owner(q)] = q /\ Redeemed(Owner(q)) + ask[q].amount <= DailyMax
    BY <2>1 DEF LocksOK
  <2>3. Owner(q) # u
    BY <1>2, <2>1, <2>2
  <2>4. Redeemed(Owner(q))' = Redeemed(Owner(q))
    BY <1>2, <1>4, <2>1, <2>3 DEF Owner
  <2>5. userLock'[Owner(q)] = q
    BY <1>2, <2>1, <2>2, <2>3 DEF Inv, TypeOK
  <2> QED
    BY <1>2, <2>2, <2>4, <2>5
<1>8. ASSUME NEW c \in Refunders, pc'[c] = "locked" PROVE userLock'[Owner(target[c])] = c
  <2>1. pc[c] = "locked" /\ c # r
    BY <1>2, <1>8, CallsAreDistinct DEF Inv, TypeOK
  <2>2. Owner(target[c]) \in Users /\ userLock[Owner(target[c])] = c
    BY <2>1, CallsAreDistinct, AskIsTyped DEF Inv, RefundsOK, LocksOK
  <2> QED
    BY <1>2, <2>1, <2>2, CallsAreDistinct DEF Inv, TypeOK
<1> QED
  BY <1>2, <1>6, <1>7, <1>8 DEF LocksOK, Owner

LEMMA ReleaseLocks ==
  ASSUME Inv, LocksOK, DailyLimitHolds, NEW c \in Refunders, NEW ending \in Closed, Release(c, ending)
  PROVE  LocksOK' /\ DailyLimitHolds'
<1>1. target[c] \in Requests /\ pc[c] = "locked"
  BY DEF Inv, RefundsOK, Release
<1>2. PICK u \in Users : u = Owner(target[c])
  BY <1>1, AskIsTyped DEF Inv
<1>3. /\ userLock[u] = c
      /\ userLock' = [userLock EXCEPT ![u] = None]
      /\ UNCHANGED <<ask, target>>
      /\ pc' = [pc EXCEPT ![c] = "done"]
      /\ status' = [status EXCEPT ![target[c]] = ending]
  BY <1>1, <1>2 DEF Release, Goto, LocksOK
<1>4. \A v \in Users : LiveOf(v)' \subseteq LiveOf(v)
  BY <1>1, <1>3 DEF LiveOf, Owner, Inv, TypeOK, Open, Closed
<1>5. ASSUME NEW d \in Calls, pc'[d] = "locked"
      PROVE  pc[d] = "locked" /\ \A v \in Users : userLock[v] = d => userLock'[v] = d
  BY <1>3, <1>5, CallsAreDistinct DEF Inv, TypeOK
<1> QED
  BY <1>3, <1>4, <1>5, LocksKept

(* Every step of a redemption keeps the locks and the limit. *)
LEMMA RedemptionLocks ==
  ASSUME Inv, LocksOK, DailyLimitHolds, RedemptionCall
  PROVE  LocksOK' /\ DailyLimitHolds'
<1>1. ASSUME UNCHANGED <<ask, status, userLock>>, NEW c \in Calls,
             pc'[c] # "locked", \A d \in Calls \ {c} : pc'[d] = pc[d],
             \A d \in Refunders \ {c} : target'[d] = target[d]
      PROVE  LocksOK' /\ DailyLimitHolds'
  <2>1. \A u \in Users : LiveOf(u)' \subseteq LiveOf(u)
    BY <1>1 DEF LiveOf, Owner
  <2>2. \A d \in Calls : pc'[d] = "locked" =>
          pc[d] = "locked" /\ \A u \in Users : userLock[u] = d => userLock'[u] = d
    BY <1>1
  <2>3. \A d \in Refunders : pc'[d] = "locked" => target'[d] = target[d]
    BY <1>1
  <2> QED
    BY <1>1, <2>1, <2>2, <2>3, LocksKept
<1>2. ASSUME NEW r \in Requests, Load(r) \/ CheckKey(r) PROVE LocksOK' /\ DailyLimitHolds'
  <2>1. /\ UNCHANGED <<ask, status, userLock, target>> /\ pc'[r] # "locked"
        /\ \A d \in Calls \ {r} : pc'[d] = pc[d]
    BY <1>2, CallsAreDistinct DEF Load, CheckKey, Goto, rows, locks, Inv, TypeOK
  <2> QED
    BY <1>1, <2>1, CallsAreDistinct
<1>3. ASSUME NEW c \in Refunders, NEW r \in Requests,
             LoadForCancel(c, r) \/ StartReview(c, r) \/ LockRow(c)
      PROVE  LocksOK' /\ DailyLimitHolds'
  <2>1. /\ UNCHANGED <<ask, status, userLock>> /\ pc'[c] # "locked"
        /\ \A d \in Calls \ {c} : pc'[d] = pc[d]
        /\ \A d \in Refunders \ {c} : target'[d] = target[d]
    BY <1>3, CallsAreDistinct DEF LoadForCancel, StartReview, LockRow, Goto, rows, locks, Inv, TypeOK
  <2> QED
    BY <1>1, <2>1, CallsAreDistinct
<1>4. ASSUME NEW r \in Requests, ApproveRow(r) \/ MarkPaid(r) PROVE LocksOK' /\ DailyLimitHolds'
  <2>1. /\ UNCHANGED <<ask, userLock, target, pc>>
        /\ \A u \in Users : LiveOf(u)' \subseteq LiveOf(u)
    BY <1>4 DEF ApproveRow, MarkPaid, locks, LiveOf, Owner, Open, Inv, TypeOK
  <2> QED
    BY <2>1, LocksKept
<1>5. ASSUME NEW c \in Calls, Close(c) PROVE LocksOK' /\ DailyLimitHolds'
  <2>1. /\ UNCHANGED <<ask, status, target>> /\ pc[c] = "refused"
        /\ pc' = [pc EXCEPT ![c] = "done"]
        /\ \A u \in Users : userLock'[u] = IF userLock[u] = c THEN None ELSE userLock[u]
    BY <1>5 DEF Close, Goto, rows
  <2>2. \A u \in Users : LiveOf(u)' \subseteq LiveOf(u)
    BY <2>1 DEF LiveOf, Owner
  <2>3. \A d \in Calls : pc'[d] = "locked" =>
          pc[d] = "locked" /\ \A u \in Users : userLock[u] = d => userLock'[u] = d
    BY <2>1 DEF Inv, TypeOK
  <2> QED
    BY <2>1, <2>2, <2>3, LocksKept
<1>6. ASSUME NEW r \in Requests, RequestStep(r) PROVE LocksOK' /\ DailyLimitHolds'
  BY <1>2, <1>6, LockUserLocks, EscrowLocks DEF RequestStep
<1>7. ASSUME NEW c \in Refunders, RefundStep(c) PROVE LocksOK' /\ DailyLimitHolds'
  <2>1. ASSUME LockRow(c) PROVE LocksOK' /\ DailyLimitHolds'
    <3>1. CASE Requests = {}
      BY <2>1, <3>1 DEF Inv, RefundsOK, LockRow
    <3> QED
      BY <1>3, <2>1, <3>1
  <2> QED
    BY <1>7, <2>1, LockOwnerLocks, ReleaseLocks DEF RefundStep
<1> QED
  BY <1>2, <1>3, <1>4, <1>5, <1>6, <1>7, CallsAreDistinct DEF RedemptionCall, CloseBetween

----------------------------------------------------------------------------
(* The calls of Transfers, and the requests of the FAWN Tab *)

LEMMA TasksAreDistinct ==
  /\ T!Coroutines = Moves \cup Pays /\ T!Tasks = Moves \cup Pays \cup Reminders
  /\ Moves \cap Pays = {} /\ Moves \cap Reminders = {} /\ Pays \cap Reminders = {}
  /\ None \notin Users /\ None \notin T!Coroutines /\ None \notin T!Tasks /\ None \notin Tabs /\ None \notin Terms
BY TasksAssumption DEF T!Coroutines, T!Tasks

LEMMA NoWorkIsWork == T!NoWork \in Work
BY DEF T!NoWork, Work

(* A step of one call, which does not take the event loop from another *)
LEMMA TaskStep ==
  ASSUME TasksOK, TypeOK', NEW h \in T!Tasks, NEW s \in {"idle", "done"} \cup Busy, NEW w \in Work,
         stage' = [stage EXCEPT ![h] = s], work' = [work EXCEPT ![h] = w],
         tab' \in [Tabs -> {"none", "pending", "processing", "paid"}],
         terms' \in [Tabs -> Terms \cup {None}],
         reminded' \subseteq Tabs, {fees', credited', faults'} \subseteq Nat,
         loop' \in T!Coroutines \cup {None},
         \A g \in T!Coroutines \ {h} : loop = g <=> loop' = g, loop' = h => s \in Busy,
         s \in {"claimed", "paid"} => h \in Pays /\ loop' = h,
         s \in Busy /\ h \in T!Coroutines =>
           /\ w.to \in Users \ {w.from}
           /\ IF h \in Moves THEN loop' = h ELSE w.from \in Users /\ w.tab \in Tabs,
         s = "loaded" /\ h \in Reminders => w.tab \in Tabs
  PROVE  TasksOK'
<1>1. stage' \in [T!Tasks -> {"idle", "done"} \cup Busy] /\ work' \in [T!Tasks -> Work]
  BY DEF TasksOK
<1>2. /\ stage'[h] = s /\ work'[h] = w
      /\ \A g \in T!Tasks \ {h} : stage'[g] = stage[g] /\ work'[g] = work[g]
  BY DEF TasksOK
<1>3. \A g \in T!Tasks : stage'[g] \in {"claimed", "paid"} => g \in Pays /\ loop' = g
  BY <1>2, TasksAreDistinct DEF TasksOK, SharedTypeOK
<1>4. SharedTypeOK'
  BY <1>3 DEF SharedTypeOK
<1>5. \A g \in T!Coroutines : stage'[g] \in Busy =>
        /\ work'[g].to \in Users \ {work'[g].from}
        /\ IF g \in Moves THEN loop' = g ELSE work'[g].from \in Users /\ work'[g].tab \in Tabs
  BY <1>2, TasksAreDistinct DEF TasksOK
<1>6. \A g \in Reminders : stage'[g] = "loaded" => work'[g].tab \in Tabs
  BY <1>2, TasksAreDistinct DEF TasksOK
<1>7. \A g \in T!Coroutines : loop' = g => stage'[g] \in Busy
  BY <1>2, TasksAreDistinct DEF TasksOK
<1> QED
  BY <1>1, <1>3, <1>4, <1>5, <1>6, <1>7 DEF TasksOK

(* What stays of a call that ends. *)
LEMMA TaskEnds ==
  ASSUME TasksOK, TypeOK', NEW h \in T!Tasks, T!Return(h),
         tab' \in [Tabs -> {"none", "pending", "processing", "paid"}],
         terms' \in [Tabs -> Terms \cup {None}],
         reminded' \subseteq Tabs, {fees', credited', faults'} \subseteq Nat
  PROVE  TasksOK'
<1>1. /\ loop' = IF loop = h THEN None ELSE loop
      /\ stage' = [stage EXCEPT ![h] = "done"]
      /\ work' = [work EXCEPT ![h] = T!NoWork]
  BY DEF T!Return, T!Goto
<1>2. loop \in T!Coroutines \cup {None} /\ "done" \notin Busy
  BY DEF TasksOK, SharedTypeOK, Busy
<1>3. /\ loop' \in T!Coroutines \cup {None} /\ loop' # h
      /\ \A g \in T!Coroutines \ {h} : loop = g <=> loop' = g
      /\ "done" \notin {"claimed", "paid"} /\ "done" # "loaded"
  BY <1>1, <1>2, TasksAreDistinct
<1> QED
  BY <1>1, <1>2, <1>3, NoWorkIsWork, TaskStep

(* A step that claims, pays and gives back nothing *)
LEMMA TabsQuiet ==
  ASSUME TasksOK, TabsOK, UNCHANGED <<terms, tab, moved, crashes>>, NEW h \in T!Tasks,
         \A g \in T!Tasks \ {h} : stage'[g] = stage[g] /\ work'[g] = work[g],
         stage'[h] \notin {"claimed", "paid"},
         \/ stage[h] \notin {"claimed", "paid"} /\ faults' = faults
         \/ faults' = faults + 1
  PROVE  TabsOK'
<1>1. \A g \in Pays : stage'[g] \in {"claimed", "paid"} => g # h
  OBVIOUS
<1>2. \A g \in Pays : stage'[g] \in {"claimed", "paid"} =>
        /\ tab'[work'[g].tab] = "processing"
        /\ moved'[work'[g].tab] = IF stage'[g] = "paid" THEN 1 ELSE 0
  BY <1>1, TasksAreDistinct DEF TabsOK
<1>3. faults \in Nat
  BY DEF TasksOK, SharedTypeOK
<1>4. TabPaidOnce'
  <2> SUFFICES ASSUME NEW r \in Tabs
      PROVE  /\ moved[r] <= 1
             /\ tab[r] \in {"none", "pending"} => moved[r] = 0
             /\ tab[r] = "paid" => moved[r] = 1
             /\ crashes = 0 /\ faults' = 0 /\ tab[r] = "processing" =>
                  \E g \in Pays : work'[g].tab = r /\ stage'[g] \in {"claimed", "paid"}
    BY DEF TabPaidOnce
  <2>1. crashes = 0 /\ faults' = 0 /\ tab[r] = "processing" =>
          \E g \in Pays : work'[g].tab = r /\ stage'[g] \in {"claimed", "paid"}
    <3> SUFFICES ASSUME crashes = 0, faults' = 0, tab[r] = "processing"
        PROVE  \E g \in Pays : work'[g].tab = r /\ stage'[g] \in {"claimed", "paid"}
      OBVIOUS
    <3>1. faults' = faults /\ stage[h] \notin {"claimed", "paid"}
      BY <1>3
    <3>2. PICK g \in Pays : work[g].tab = r /\ stage[g] \in {"claimed", "paid"}
      BY <3>1 DEF TabsOK, TabPaidOnce
    <3> QED
      BY <3>1, <3>2, TasksAreDistinct
  <2> QED
    BY <2>1 DEF TabsOK, TabPaidOnce
<1> QED
  BY <1>2, <1>4 DEF TabsOK

(* The coroutine that has a request claimed is the only one: it runs. *)
LEMMA OnlyOneClaims ==
  ASSUME TasksOK, NEW h \in T!Tasks, stage[h] \in {"claimed", "paid"}
  PROVE  /\ loop = h /\ h \in Pays /\ work[h].tab \in Tabs
         /\ \A g \in T!Tasks : stage[g] \in {"claimed", "paid"} => g = h
BY TasksAreDistinct DEF TasksOK, SharedTypeOK, Busy

RedemptionVars == <<ask, rows, pc, seen, target, rowLock, crashes>>

(* No call of Transfers touches a redemption or a lock. *)
LEMMA TransferKeepsInv ==
  ASSUME Inv, LocksOK, DailyLimitHolds, UNCHANGED RedemptionVars, userLock' = userLock,
         balance' \in [Users -> Int]
  PROVE  Inv' /\ LocksOK' /\ DailyLimitHolds'
<1>1. Inv'
  BY DEF Inv, TypeOK, EscrowInOnePlace, RequestsOK, RefundsOK, Refundable, RedemptionVars, rows
<1>2. \A u \in Users : LiveOf(u)' \subseteq LiveOf(u)
  BY DEF LiveOf, Owner, RedemptionVars, rows
<1>3. LocksOK' /\ DailyLimitHolds'
  BY <1>2, LocksKept DEF RedemptionVars
<1> QED
  BY <1>1, <1>3

(* What a commit writes *)
LEMMA AfterIsBalance ==
  ASSUME TypeOK, TasksOK, NEW h \in T!Tasks
  PROVE  T!After(h) \in [Users -> Int] /\ T!Fee(h) \in Nat /\ T!Total(h) \in Nat
<1>1. /\ work[h].mine \in Int /\ work[h].theirs \in Int /\ work[h].amount \in Nat
      /\ \A u \in Users : balance[u] \in Int
  BY DEF TypeOK, TasksOK, Work
<1>2. T!Fee(h) \in Nat
  BY NumbersAssumption DEF T!Fee
<1>3. T!Total(h) \in Nat
  BY <1>1, <1>2 DEF T!Total
<1> QED
  BY <1>1, <1>2, <1>3 DEF T!After

LEMMA LoadMoveSafe ==
  ASSUME SharedSafe, UNCHANGED RedemptionVars, NEW h \in Moves, NEW m \in MoveOrders, T!LoadMove(h, m)
  PROVE  SharedSafe'
<1>1. Inv' /\ LocksOK' /\ DailyLimitHolds'
  BY TransferKeepsInv DEF SharedSafe, Inv, TypeOK, T!LoadMove
<1>2. PICK x \in Users \cup {None}, y \in Users \ {m.from}, n \in Nat :
        x = m.from /\ y = m.to /\ n = m.amount
  BY MovesAssumption
<1>3. PICK a \in Int, b \in Int : a = (IF x = None THEN 0 ELSE balance[x]) /\ b = balance[y]
  BY <1>2 DEF SharedSafe, Inv, TypeOK
<1>4. PICK z \in Work : z = T!NoWork
  BY NoWorkIsWork
<1>5. PICK w : w = [z EXCEPT !.from = x, !.to = y, !.amount = n, !.mine = a, !.theirs = b]
  OBVIOUS
<1>6. w \in Work /\ w.from = x /\ w.to = y
  BY <1>5 DEF Work
<1>7. w.to \in Users \ {w.from}
  BY <1>2, <1>6
<1>8. /\ loop = None /\ stage[h] = "idle" /\ loop' = h
      /\ work' = [work EXCEPT ![h] = w] /\ stage' = [stage EXCEPT ![h] = "loaded"]
      /\ UNCHANGED <<terms, tab, reminded, moved, fees, credited, faults>>
  BY <1>2, <1>3, <1>4, <1>5 DEF T!LoadMove, T!Goto, T!requests, T!sums
<1>9. TasksOK'
  <2>1. TypeOK'
    BY <1>1 DEF Inv
  <2>2. SharedTypeOK /\ TasksOK
    BY DEF SharedSafe, TasksOK
  <2>3. /\ h \in T!Tasks /\ h \notin Reminders /\ h \in Moves /\ h \in T!Coroutines
        /\ loop' \in T!Coroutines \cup {None}
        /\ \A g \in T!Coroutines \ {h} : loop = g <=> loop' = g
        /\ "loaded" \notin {"claimed", "paid"} /\ "loaded" \in Busy
    BY <1>8, TasksAreDistinct DEF Busy
  <2>4. /\ tab' \in [Tabs -> {"none", "pending", "processing", "paid"}]
        /\ terms' \in [Tabs -> Terms \cup {None}]
        /\ reminded' \subseteq Tabs /\ {fees', credited', faults'} \subseteq Nat
    BY <1>8, <2>2 DEF SharedTypeOK
  <2> QED
    BY <1>6, <1>7, <1>8, <2>1, <2>2, <2>3, <2>4, TaskStep
<1>10. TabsOK'
  BY <1>8, TabsQuiet, TasksAreDistinct DEF SharedSafe, RedemptionVars, TasksOK
<1> QED
  BY <1>1, <1>9, <1>10 DEF SharedSafe

LEMMA CommitMoveSafe ==
  ASSUME SharedSafe, UNCHANGED RedemptionVars, NEW h \in T!Tasks, T!CommitMove(h)
  PROVE  SharedSafe'
<1>0. TypeOK /\ TasksOK /\ SharedTypeOK
  BY DEF SharedSafe, Inv, TasksOK
<1>1. Inv' /\ LocksOK' /\ DailyLimitHolds'
  BY <1>0, AfterIsBalance, TransferKeepsInv DEF SharedSafe, T!CommitMove, T!MoveMoney
<1>2. /\ stage[h] = "loaded" /\ T!Return(h)
      /\ fees' = fees + T!Fee(h)
      /\ credited' \in {credited, credited + work[h].amount}
      /\ UNCHANGED <<terms, tab, reminded, moved, faults>>
  BY DEF T!CommitMove, T!MoveMoney, T!requests
<1>3. {fees', credited', faults'} \subseteq Nat
  BY <1>0, <1>2, AfterIsBalance DEF SharedTypeOK, TasksOK, Work
<1>4. TasksOK'
  BY <1>0, <1>1, <1>2, <1>3, TaskEnds DEF SharedTypeOK, Inv
<1>5. TabsOK'
  BY <1>0, <1>2, TabsQuiet DEF SharedSafe, RedemptionVars, TasksOK, T!Return, T!Goto
<1> QED
  BY <1>1, <1>4, <1>5 DEF SharedSafe

LEMMA CreateRequestSafe ==
  ASSUME SharedSafe, UNCHANGED RedemptionVars, NEW r \in Tabs, NEW k \in Terms, T!CreateRequest(r, k)
  PROVE  SharedSafe'
<1>0. TypeOK /\ TasksOK /\ SharedTypeOK /\ TabsOK
  BY DEF SharedSafe, Inv, TasksOK
<1>1. Inv' /\ LocksOK' /\ DailyLimitHolds'
  BY <1>0, TransferKeepsInv DEF SharedSafe, TypeOK, T!CreateRequest
<1>2. /\ tab[r] = "none" /\ tab' = [tab EXCEPT ![r] = "pending"]
      /\ terms' = [terms EXCEPT ![r] = k]
      /\ UNCHANGED <<moved, reminded, fees, credited, loop, stage, work, faults>>
  BY DEF T!CreateRequest, T!sums, T!tasks
<1>3. terms' \in [Tabs -> Terms \cup {None}]
  BY <1>0, <1>2 DEF SharedTypeOK
<1>4. TasksOK'
  BY <1>0, <1>1, <1>2, <1>3 DEF SharedTypeOK, TasksOK, Inv
<1>5. TabsOK'
  <2>1. /\ tab'[r] = "pending" /\ terms'[r] = k
        /\ \A q \in Tabs \ {r} : tab'[q] = tab[q] /\ terms'[q] = terms[q]
    BY <1>0, <1>2 DEF SharedTypeOK
  <2>2. \A h \in Pays : stage[h] \in {"claimed", "paid"} => work[h].tab \in Tabs \ {r}
    BY <1>0, <1>2, OnlyOneClaims, TasksAreDistinct DEF TabsOK
  <2>3. \A h \in Pays : stage'[h] \in {"claimed", "paid"} =>
          /\ tab'[work'[h].tab] = "processing"
          /\ moved'[work'[h].tab] = IF stage'[h] = "paid" THEN 1 ELSE 0
    BY <1>0, <1>2, <2>1, <2>2 DEF TabsOK
  <2>4. TabPaidOnce'
    BY <1>0, <1>2, <2>1 DEF TabsOK, TabPaidOnce, RedemptionVars
  <2> QED
    BY <1>0, <1>2, <2>1, <2>3, <2>4 DEF TabsOK
<1> QED
  BY <1>1, <1>4, <1>5 DEF SharedSafe

LEMMA LoadReminderSafe ==
  ASSUME SharedSafe, UNCHANGED RedemptionVars, NEW h \in Reminders, NEW r \in Tabs, T!LoadReminder(h, r)
  PROVE  SharedSafe'
<1>0. TypeOK /\ TasksOK /\ SharedTypeOK
  BY DEF SharedSafe, Inv, TasksOK
<1>1. Inv' /\ LocksOK' /\ DailyLimitHolds'
  BY <1>0, TransferKeepsInv DEF SharedSafe, TypeOK, T!LoadReminder
<1> DEFINE w == [work[h] EXCEPT !.tab = r]
<1>2. w \in Work /\ w.tab = r
  BY <1>0, TasksAreDistinct DEF TasksOK, Work
<1>3. /\ stage[h] = "idle" /\ stage' = [stage EXCEPT ![h] = "loaded"]
      /\ work' = [work EXCEPT ![h] = w]
      /\ UNCHANGED <<terms, tab, reminded, moved, fees, credited, loop, faults>>
  BY <1>0, TasksAreDistinct DEF T!LoadReminder, T!Goto, T!requests, T!sums, TasksOK
<1> HIDE DEF w
<1>4. TasksOK'
  BY <1>0, <1>1, <1>2, <1>3, TaskStep, TasksAreDistinct DEF SharedTypeOK, Inv, Busy
<1>5. TabsOK'
  BY <1>0, <1>3, TabsQuiet, TasksAreDistinct DEF SharedSafe, RedemptionVars, TasksOK
<1> QED
  BY <1>1, <1>4, <1>5 DEF SharedSafe

LEMMA SaveReminderSafe ==
  ASSUME SharedSafe, UNCHANGED RedemptionVars, NEW h \in T!Tasks, T!SaveReminder(h)
  PROVE  SharedSafe'
<1>0. TypeOK /\ TasksOK /\ SharedTypeOK
  BY DEF SharedSafe, Inv, TasksOK
<1>1. Inv' /\ LocksOK' /\ DailyLimitHolds'
  BY <1>0, TransferKeepsInv DEF SharedSafe, TypeOK, T!SaveReminder
<1>2. /\ h \in Reminders /\ stage[h] = "loaded" /\ T!Return(h)
      /\ reminded' = reminded \cup {work[h].tab} /\ work[h].tab \in Tabs
      /\ UNCHANGED <<terms, tab, moved, fees, credited, faults>>
  BY <1>0 DEF T!SaveReminder, T!sums, TasksOK
<1>3. TasksOK'
  BY <1>0, <1>1, <1>2, TaskEnds DEF SharedTypeOK, Inv
<1>4. TabsOK'
  BY <1>0, <1>2, TabsQuiet DEF SharedSafe, RedemptionVars, TasksOK, T!Return, T!Goto
<1> QED
  BY <1>1, <1>3, <1>4 DEF SharedSafe

LEMMA LoadPayerSafe ==
  ASSUME SharedSafe, UNCHANGED RedemptionVars, NEW h \in Pays, NEW r \in Tabs, T!LoadPayer(h, r)
  PROVE  SharedSafe'
<1>0. TypeOK /\ TasksOK /\ SharedTypeOK
  BY DEF SharedSafe, Inv, TasksOK
<1>1. Inv' /\ LocksOK' /\ DailyLimitHolds'
  BY <1>0, TransferKeepsInv DEF SharedSafe, TypeOK, T!LoadPayer
<1>2. terms[r] \in Terms
  BY DEF SharedSafe, TabsOK, T!LoadPayer
<1>3. PICK k \in Terms : k = terms[r]
  BY <1>2
<1>4. PICK x \in Users, y \in Users \ {k.payer}, n \in Nat, a \in Int :
        x = k.payer /\ y = k.requester /\ n = k.amount /\ a = balance[k.payer]
  BY <1>0, TermsAssumption DEF TypeOK
<1>5. PICK z \in Work : z = T!NoWork
  BY NoWorkIsWork
<1>6. PICK w : w = [z EXCEPT !.from = x, !.to = y, !.tab = r, !.amount = n, !.mine = a]
  OBVIOUS
<1>7. w \in Work /\ w.from = x /\ w.to = y /\ w.tab = r
  BY <1>6 DEF Work
<1>8. w.to \in Users \ {w.from} /\ w.from \in Users /\ w.tab \in Tabs
  BY <1>4, <1>7
<1>9. /\ stage[h] = "idle" /\ stage' = [stage EXCEPT ![h] = "loaded"]
      /\ work' = [work EXCEPT ![h] = w]
      /\ UNCHANGED <<terms, tab, reminded, moved, fees, credited, loop, faults>>
  BY <1>3, <1>4, <1>5, <1>6 DEF T!LoadPayer, T!Goto, T!requests, T!sums
<1>10. TasksOK'
  BY <1>0, <1>1, <1>7, <1>8, <1>9, TaskStep, TasksAreDistinct DEF SharedTypeOK, Inv, Busy
<1>11. TabsOK'
  BY <1>0, <1>9, TabsQuiet, TasksAreDistinct DEF SharedSafe, RedemptionVars, TasksOK
<1> QED
  BY <1>1, <1>10, <1>11 DEF SharedSafe

(* Nobody else has a request claimed, and a pending request has moved no   *)
(* money.                                                                  *)
LEMMA ClaimSafe ==
  ASSUME SharedSafe, UNCHANGED RedemptionVars, NEW h \in T!Tasks, T!Claim(h)
  PROVE  SharedSafe'
<1>0. TypeOK /\ TasksOK /\ SharedTypeOK /\ TabsOK
  BY DEF SharedSafe, Inv, TasksOK
<1>1. Inv' /\ LocksOK' /\ DailyLimitHolds'
  BY <1>0, TransferKeepsInv DEF SharedSafe, TypeOK, T!Claim
<1>2. /\ loop = None /\ h \in Pays /\ stage[h] = "loaded"
      /\ UNCHANGED <<terms, reminded, moved, fees, credited, faults>>
  BY DEF T!Claim, T!sums
<1>3. /\ work[h] \in Work /\ work[h].tab \in Tabs /\ work[h].from \in Users
      /\ work[h].to \in Users \ {work[h].from}
  BY <1>0, <1>2, TasksAreDistinct DEF TasksOK, Busy
<1>4. \A g \in T!Tasks : stage[g] \notin {"claimed", "paid"}
  BY <1>0, <1>2, OnlyOneClaims, TasksAreDistinct
<1>5. ASSUME tab[work[h].tab] # "pending" PROVE SharedSafe'
  <2>1. T!Return(h) /\ UNCHANGED tab
    BY <1>5 DEF T!Claim
  <2>2. TasksOK'
    BY <1>0, <1>1, <1>2, <2>1, TaskEnds DEF SharedTypeOK, Inv
  <2>3. TabsOK'
    BY <1>0, <1>2, <2>1, TabsQuiet DEF RedemptionVars, TasksOK, T!Return, T!Goto
  <2> QED
    BY <1>1, <2>2, <2>3 DEF SharedSafe
<1>6. ASSUME tab[work[h].tab] = "pending" PROVE SharedSafe'
  <2>1. PICK r \in Tabs, b \in Int, z \in Work :
          r = work[h].tab /\ b = balance[work[h].to] /\ z = work[h]
    BY <1>0, <1>3 DEF TypeOK
  <2> PICK w : w = [z EXCEPT !.theirs = b]
    OBVIOUS
  <2>2. /\ w \in Work /\ w.tab = r /\ w.from = z.from /\ w.to = z.to
    BY <2>1 DEF Work
  <2>3. /\ tab' = [tab EXCEPT ![r] = "processing"] /\ loop' = h
        /\ stage' = [stage EXCEPT ![h] = "claimed"]
        /\ work' = [work EXCEPT ![h] = w]
    BY <1>0, <1>6, <2>1 DEF T!Claim, T!Claimed, T!Goto, TasksOK
  <2>4. TasksOK'
    BY <1>0, <1>1, <1>2, <1>3, <2>1, <2>2, <2>3, TaskStep, TasksAreDistinct
    DEF SharedTypeOK, Inv, Busy
  <2>5. /\ stage'[h] = "claimed" /\ work'[h].tab = r
        /\ tab'[r] = "processing" /\ moved[r] = 0
        /\ \A q \in Tabs \ {r} : tab'[q] = tab[q]
        /\ \A g \in T!Tasks \ {h} : stage'[g] = stage[g] /\ work'[g] = work[g]
    BY <1>0, <1>6, <2>1, <2>2, <2>3 DEF TasksOK, SharedTypeOK, TabsOK, TabPaidOnce
  <2>6. TabsOK'
    <3>1. \A g \in Pays : stage'[g] \in {"claimed", "paid"} =>
            /\ tab'[work'[g].tab] = "processing"
            /\ moved'[work'[g].tab] = IF stage'[g] = "paid" THEN 1 ELSE 0
      BY <1>2, <1>4, <2>5, TasksAreDistinct
    <3>2. TabPaidOnce'
      BY <1>0, <1>2, <1>4, <2>5, TasksAreDistinct DEF TabPaidOnce, TabsOK, RedemptionVars
    <3>3. \A q \in Tabs : tab'[q] # "none" => terms'[q] \in Terms
      BY <1>0, <1>2, <1>6, <2>1, <2>5 DEF TabsOK
    <3> QED
      BY <1>0, <1>2, <3>1, <3>2, <3>3 DEF TabsOK
  <2> QED
    BY <1>1, <2>4, <2>6 DEF SharedSafe
<1> QED
  BY <1>5, <1>6

(* The coroutine that has claimed a request moves it on: it is given back  *)
(* before its money has moved, or recorded paid after it.                  *)
LEMMA SettleSafe ==
  ASSUME SharedSafe, UNCHANGED RedemptionVars, NEW h \in T!Tasks, T!GiveBack(h) \/ T!RecordPaid(h)
  PROVE  SharedSafe'
<1>0. TypeOK /\ TasksOK /\ SharedTypeOK /\ TabsOK
  BY DEF SharedSafe, Inv, TasksOK
<1>1. Inv' /\ LocksOK' /\ DailyLimitHolds'
  BY <1>0, TransferKeepsInv DEF SharedSafe, TypeOK, T!GiveBack, T!RecordPaid
<1>2. PICK s \in {"pending", "paid"}, r \in Tabs :
        /\ r = work[h].tab /\ tab' = [tab EXCEPT ![r] = s]
        /\ stage[h] = IF s = "paid" THEN "paid" ELSE "claimed"
        /\ T!Return(h)
        /\ UNCHANGED <<terms, reminded, moved, fees, credited, faults>>
  BY <1>0, OnlyOneClaims DEF T!GiveBack, T!RecordPaid, T!sums
<1>3. /\ loop = h /\ h \in Pays /\ \A g \in T!Tasks : stage[g] \in {"claimed", "paid"} => g = h
      /\ tab[r] = "processing" /\ moved[r] = IF s = "paid" THEN 1 ELSE 0
  BY <1>0, <1>2, OnlyOneClaims DEF TabsOK
<1>4. TasksOK'
  BY <1>0, <1>1, <1>2, TaskEnds DEF SharedTypeOK, Inv
<1>5. /\ stage'[h] = "done" /\ \A g \in T!Tasks \ {h} : stage'[g] = stage[g] /\ work'[g] = work[g]
      /\ tab'[r] = s /\ \A q \in Tabs \ {r} : tab'[q] = tab[q]
  BY <1>0, <1>2 DEF T!Return, T!Goto, TasksOK, SharedTypeOK
<1>6. TabsOK'
  <2>1. \A g \in Pays : stage'[g] \notin {"claimed", "paid"}
    BY <1>3, <1>5, TasksAreDistinct
  <2>2. TabPaidOnce'
    <3>1. ASSUME NEW q \in Tabs \ {r}, crashes = 0, faults = 0 PROVE tab[q] # "processing"
      BY <1>0, <1>2, <1>3, <3>1, TasksAreDistinct DEF TabsOK, TabPaidOnce
    <3> QED
      BY <1>0, <1>2, <1>3, <1>5, <3>1 DEF TabPaidOnce, TabsOK, RedemptionVars
  <2> QED
    BY <1>0, <1>2, <1>3, <1>5, <2>1, <2>2 DEF TabsOK
<1> QED
  BY <1>1, <1>4, <1>6 DEF SharedSafe

LEMMA PaySafe ==
  ASSUME SharedSafe, UNCHANGED RedemptionVars, NEW h \in T!Tasks, T!Pay(h)
  PROVE  SharedSafe'
<1>0. TypeOK /\ TasksOK /\ SharedTypeOK /\ TabsOK
  BY DEF SharedSafe, Inv, TasksOK
<1>1. Inv' /\ LocksOK' /\ DailyLimitHolds'
  BY <1>0, AfterIsBalance, TransferKeepsInv DEF SharedSafe, T!Pay, T!MoveMoney
<1>2. PICK r \in Tabs :
        /\ r = work[h].tab /\ stage[h] = "claimed" /\ stage' = [stage EXCEPT ![h] = "paid"]
        /\ moved' = [moved EXCEPT ![r] = moved[r] + 1]
        /\ fees' = fees + T!Fee(h)
        /\ credited' \in {credited, credited + work[h].amount}
        /\ UNCHANGED <<terms, tab, reminded, loop, work, faults>>
  BY <1>0, OnlyOneClaims DEF T!Pay, T!Goto, T!MoveMoney
<1>3. /\ loop = h /\ h \in Pays /\ \A g \in T!Tasks : stage[g] \in {"claimed", "paid"} => g = h
      /\ tab[r] = "processing" /\ moved[r] = 0
      /\ work[h].to \in Users \ {work[h].from} /\ work[h].from \in Users
  BY <1>0, <1>2, OnlyOneClaims, TasksAreDistinct DEF TabsOK, TasksOK, Busy
<1>4. {fees', credited', faults'} \subseteq Nat
  BY <1>0, <1>2, AfterIsBalance DEF SharedTypeOK, TasksOK, Work
<1>5. TasksOK'
  <2>1. PICK w \in Work : w = work[h]
    BY <1>0 DEF TasksOK
  <2>2. work' = [work EXCEPT ![h] = w]
    BY <1>0, <1>2, <2>1 DEF TasksOK
  <2> QED
    BY <1>0, <1>1, <1>2, <1>3, <1>4, <2>1, <2>2, TaskStep, TasksAreDistinct DEF SharedTypeOK, Inv, Busy
<1>6. /\ stage'[h] = "paid" /\ \A g \in T!Tasks \ {h} : stage'[g] = stage[g]
      /\ moved'[r] = 1 /\ \A q \in Tabs \ {r} : moved'[q] = moved[q]
      /\ moved' \in [Tabs -> Nat]
  BY <1>0, <1>2, <1>3 DEF TasksOK, TabsOK
<1>7. TabsOK'
  <2>1. \A g \in Pays : stage'[g] \in {"claimed", "paid"} =>
          /\ tab'[work'[g].tab] = "processing"
          /\ moved'[work'[g].tab] = IF stage'[g] = "paid" THEN 1 ELSE 0
    BY <1>2, <1>3, <1>6, TasksAreDistinct
  <2>2. TabPaidOnce'
    <3>1. ASSUME NEW q \in Tabs \ {r}, crashes = 0, faults = 0 PROVE tab[q] # "processing"
      BY <1>0, <1>2, <1>3, <3>1, TasksAreDistinct DEF TabsOK, TabPaidOnce
    <3> QED
      BY <1>0, <1>2, <1>3, <1>6, <3>1 DEF TabPaidOnce, TabsOK, RedemptionVars
  <2> QED
    BY <1>0, <1>2, <1>6, <2>1, <2>2 DEF TabsOK
<1> QED
  BY <1>1, <1>5, <1>7 DEF SharedSafe

LEMMA FaultSafe ==
  ASSUME SharedSafe, UNCHANGED RedemptionVars, NEW h \in T!Tasks, T!Fault(h)
  PROVE  SharedSafe'
<1>0. TypeOK /\ TasksOK /\ SharedTypeOK
  BY DEF SharedSafe, Inv, TasksOK
<1>1. Inv' /\ LocksOK' /\ DailyLimitHolds'
  BY <1>0, TransferKeepsInv DEF SharedSafe, TypeOK, T!Fault
<1>2. /\ T!Return(h) /\ faults' = faults + 1
      /\ UNCHANGED <<terms, tab, reminded, moved, fees, credited>>
  BY DEF T!Fault, T!requests, T!sums
<1>3. {fees', credited', faults'} \subseteq Nat
  BY <1>0, <1>2 DEF SharedTypeOK
<1>4. TasksOK'
  BY <1>0, <1>1, <1>2, <1>3, TaskEnds DEF SharedTypeOK, Inv
<1>5. TabsOK'
  BY <1>0, <1>2, TabsQuiet DEF SharedSafe, RedemptionVars, TasksOK, T!Return, T!Goto
<1> QED
  BY <1>1, <1>4, <1>5 DEF SharedSafe

LEMMA TransferSafe == ASSUME SharedSafe, TransferStep PROVE SharedSafe'
<1>1. UNCHANGED RedemptionVars
  BY DEF TransferStep, RedemptionVars
<1>2. ASSUME NEW h \in T!Tasks, T!Run(h) PROVE SharedSafe'
  BY <1>1, <1>2, CommitMoveSafe, SaveReminderSafe, ClaimSafe, SettleSafe, PaySafe DEF T!Run
<1> QED
  BY <1>1, <1>2, FaultSafe, LoadMoveSafe, LoadPayerSafe, LoadReminderSafe, CreateRequestSafe
  DEF TransferStep, T!Next

(* A restart ends every call; what it leaves processing is excused. *)
LEMMA RestartSafe == ASSUME SharedSafe, Restart PROVE SharedSafe'
<1>0. TypeOK /\ TasksOK /\ SharedTypeOK /\ TabsOK
  BY DEF SharedSafe, Inv, TasksOK
<1>1. Inv'
  BY NextInv DEF SharedSafe, Restart, Next
<1>2. /\ UNCHANGED <<balance, ask, status, target>> /\ crashes' = crashes + 1
      /\ \A c \in Calls : pc'[c] \in {"idle", "done", "dead"}
      /\ loop' = None
      /\ stage' = [h \in T!Tasks |-> IF stage[h] = "idle" THEN "idle" ELSE "done"]
      /\ work' = [h \in T!Tasks |-> T!NoWork]
      /\ UNCHANGED <<terms, tab, reminded, moved, fees, credited, faults>>
  BY DEF Restart, Crash, T!Stop, rows, T!requests, T!sums
<1>3. LocksOK' /\ DailyLimitHolds'
  <2>1. \A u \in Users : LiveOf(u)' \subseteq LiveOf(u)
    BY <1>2 DEF LiveOf, Owner
  <2> QED
    BY <1>2, <2>1, LocksKept DEF SharedSafe
<1>4. TasksOK'
  <2>1. stage' \in [T!Tasks -> {"idle", "done"} \cup Busy] /\ work' \in [T!Tasks -> Work]
    BY <1>2, NoWorkIsWork
  <2>2. \A h \in T!Tasks : stage'[h] \notin Busy
    BY <1>2 DEF Busy
  <2>3. SharedTypeOK'
    BY <1>0, <1>1, <1>2, <2>2 DEF SharedTypeOK, Inv, Busy
  <2> QED
    BY <1>2, <2>1, <2>2, <2>3, TasksAreDistinct DEF TasksOK, Busy
<1>5. TabsOK'
  <2>1. crashes' # 0
    BY <1>0, <1>2, BoundsAssumption DEF TypeOK
  <2>2. \A h \in T!Tasks : stage'[h] \notin {"claimed", "paid"}
    BY <1>2
  <2> QED
    BY <1>0, <1>2, <2>1, <2>2, TasksAreDistinct DEF TabsOK, TabPaidOnce
<1> QED
  BY <1>1, <1>3, <1>4, <1>5 DEF SharedSafe

LEMMA RedemptionSafe == ASSUME SharedSafe, RedemptionStep PROVE SharedSafe'
<1>1. Inv'
  BY NextInv DEF SharedSafe, RedemptionStep, RedemptionCall, CloseBetween, Next
<1>2. LocksOK' /\ DailyLimitHolds'
  BY RedemptionLocks DEF SharedSafe, RedemptionStep
<1>3. crashes' = crashes
  BY DEF RedemptionStep, RedemptionCall, RequestStep, RefundStep, CloseBetween, Load, CheckKey,
         LockUser, Escrow, ApproveRow, MarkPaid, LockRow, LockOwner, Release, Close,
         LoadForCancel, StartReview
<1>4. UNCHANGED <<terms, tab, reminded, moved, fees, credited, loop, stage, work, faults>>
  BY DEF RedemptionStep, transferVars
<1>5. TasksOK' /\ TabsOK'
  BY <1>1, <1>3, <1>4 DEF SharedSafe, TasksOK, SharedTypeOK, TabsOK, TabPaidOnce, Inv
<1> QED
  BY <1>1, <1>2, <1>5 DEF SharedSafe

LEMMA SharedSafeInit == SharedInit => SharedSafe
<1> SUFFICES ASSUME SharedInit PROVE SharedSafe
  OBVIOUS
<1>1. Inv
  BY InitInv DEF SharedInit
<1>2. LocksOK
  BY CallsAreDistinct DEF SharedInit, Init, LocksOK
<1>3. DailyLimitHolds
  <2>1. ASSUME NEW u \in Users PROVE Redeemed(u) = 0
    <3>1. LiveOf(u) = {}
      BY DEF SharedInit, Init, LiveOf, Open
    <3>2. Sum({}) = 0
      BY SumEmpty DEF Sum
    <3> QED
      BY <1>1, <2>1, <3>1, <3>2, RedeemedIs DEF Inv
  <2> QED
    BY <2>1, BoundsAssumption DEF DailyLimitHolds
<1>4. TasksOK
  BY <1>1, NoWorkIsWork, TasksAreDistinct
  DEF SharedInit, T!Init, TasksOK, SharedTypeOK, Inv, Busy
<1>5. TabsOK
  BY TasksAreDistinct DEF SharedInit, T!Init, TabsOK, TabPaidOnce
<1> QED
  BY <1>1, <1>2, <1>3, <1>4, <1>5 DEF SharedSafe

LEMMA SharedSafeNext == ASSUME SharedSafe, [SharedNext]_sharedVars PROVE SharedSafe'
<1>1. CASE SharedNext
  BY <1>1, RedemptionSafe, TransferSafe, RestartSafe DEF SharedNext
<1>2. CASE UNCHANGED sharedVars
  <2>1. Inv'
    BY <1>2, NextInv DEF SharedSafe, sharedVars
  <2>2. UNCHANGED <<ask, status, userLock, pc, target, crashes, terms, tab, reminded, moved,
                    fees, credited, loop, stage, work, faults>>
    BY <1>2 DEF sharedVars, vars, rows, locks, transferVars
  <2>3. LocksOK' /\ DailyLimitHolds'
    BY <2>2 DEF SharedSafe, LocksOK, DailyLimitHolds, Redeemed, Sum, Owner
  <2>4. TasksOK' /\ TabsOK'
    BY <2>1, <2>2 DEF SharedSafe, TasksOK, SharedTypeOK, TabsOK, TabPaidOnce, Inv
  <2> QED
    BY <2>1, <2>3, <2>4 DEF SharedSafe
<1> QED
  BY <1>1, <1>2

----------------------------------------------------------------------------
(* The copies of a balance *)

(* What a step may do to a copy: leave it alone or load it again *)
KeepsCopies ==
  /\ \A r \in Requests : Loaded(r)' =>
       \/ Loaded(r) /\ seen'[r] = seen[r]
       \/ seen'[r] = balance'[Owner(r)]
  /\ \A c \in Refunders : Loaded(c)' =>
       \/ Loaded(c) /\ seen'[c] = seen[c] /\ target'[c] = target[c]
       \/ seen'[c] = balance'[Owner(target'[c])]
  /\ \A h \in T!Coroutines : stage'[h] \in {"loaded", "claimed"} =>
       /\ \/ stage[h] \in {"loaded", "claimed"} /\ work'[h].from = work[h].from /\ work'[h].mine = work[h].mine
          \/ work'[h].from \in Users => work'[h].mine = balance'[work'[h].from]
       /\ loop' = h =>
            \/ /\ stage[h] \in {"loaded", "claimed"} /\ loop = h
               /\ work'[h].to = work[h].to /\ work'[h].theirs = work[h].theirs
            \/ work'[h].theirs = balance'[work'[h].to]

(* A copy that a step leaves alone is of a balance that it leaves alone,   *)
(* or the balance has been overtaken.                                      *)
LEMMA CopiesStep ==
  ASSUME SharedSafe, SharedSafe', CopiesOK, NoteOvertaking, KeepsCopies, ask' = ask
  PROVE  CopiesOK'
<1> SUFFICES ASSUME ~ overtaken' PROVE CopiesOK'
  BY DEF CopiesOK
<1>1. /\ ~ overtaken
      /\ \A u \in Users : \A c \in Copies(u) : c \in Copies(u)' => balance'[u] = balance[u]
  BY DEF NoteOvertaking
<1>2. ASSUME NEW r \in Requests, Loaded(r)' PROVE seen'[r] = balance'[Owner(r)]
  <2>1. CASE Loaded(r) /\ seen'[r] = seen[r]
    <3>1. PICK u \in Users : u = Owner(r)
      BY AskIsTyped DEF SharedSafe, Inv
    <3>2. r \in Copies(u) /\ r \in Copies(u)'
      BY <1>2, <2>1, <3>1, CallsAreDistinct DEF Copies, Loaded, Owner
    <3>3. seen[r] = balance[u]
      BY <1>1, <2>1, <3>1 DEF CopiesOK
    <3> QED
      BY <1>1, <2>1, <3>1, <3>2, <3>3
  <2> QED
    BY <1>2, <2>1 DEF KeepsCopies
<1>3. ASSUME NEW c \in Refunders, Loaded(c)' PROVE seen'[c] = balance'[Owner(target'[c])]
  <2>1. CASE Loaded(c) /\ seen'[c] = seen[c] /\ target'[c] = target[c]
    <3>1. target[c] \in Requests
      BY <2>1, CallsAreDistinct DEF SharedSafe, Inv, RefundsOK, Loaded
    <3>2. PICK u \in Users : u = Owner(target[c])
      BY <3>1, AskIsTyped DEF SharedSafe, Inv
    <3>3. c \in Copies(u) /\ c \in Copies(u)'
      BY <1>3, <2>1, <3>2, CallsAreDistinct DEF Copies, Loaded, Owner
    <3>4. seen[c] = balance[u]
      BY <1>1, <2>1, <3>2 DEF CopiesOK
    <3> QED
      BY <1>1, <2>1, <3>2, <3>3, <3>4
  <2> QED
    BY <1>3, <2>1 DEF KeepsCopies
<1>4. ASSUME NEW h \in T!Coroutines, stage'[h] \in {"loaded", "claimed"}
      PROVE  /\ work'[h].from \in Users => work'[h].mine = balance'[work'[h].from]
             /\ loop' = h => work'[h].theirs = balance'[work'[h].to]
  <2>1. ASSUME stage[h] \in {"loaded", "claimed"}, work'[h].from = work[h].from,
               work'[h].mine = work[h].mine, work[h].from \in Users
        PROVE  work'[h].mine = balance'[work'[h].from]
    <3>1. PICK u \in Users : u = work[h].from
      BY <2>1
    <3>2. h \in Copies(u) /\ h \in Copies(u)'
      BY <1>4, <2>1, <3>1 DEF Copies, T!Copies
    <3>3. work[h].mine = balance[u]
      BY <1>1, <2>1, <3>1 DEF CopiesOK
    <3> QED
      BY <1>1, <2>1, <3>1, <3>2, <3>3
  <2>2. ASSUME stage[h] \in {"loaded", "claimed"}, loop = h, loop' = h,
               work'[h].to = work[h].to, work'[h].theirs = work[h].theirs
        PROVE  work'[h].theirs = balance'[work'[h].to]
    <3>1. work[h].to \in Users
      BY <2>2 DEF SharedSafe, TasksOK, Busy
    <3>2. PICK u \in Users : u = work[h].to
      BY <3>1
    <3>3. h \in Copies(u) /\ h \in Copies(u)'
      BY <1>4, <2>2, <3>2 DEF Copies, T!Copies
    <3>4. work[h].theirs = balance[u]
      BY <1>1, <2>2, <3>2 DEF CopiesOK
    <3> QED
      BY <1>1, <2>2, <3>2, <3>3, <3>4
  <2> QED
    BY <1>4, <2>1, <2>2 DEF KeepsCopies
<1> QED
  BY <1>2, <1>3, <1>4 DEF CopiesOK, Owner

LEMMA RedemptionKeepsCopies ==
  ASSUME SharedSafe, RedemptionStep
  PROVE  KeepsCopies /\ ask' = ask
<1> DEFINE K == /\ \A r \in Requests : Loaded(r)' =>
                     \/ Loaded(r) /\ seen'[r] = seen[r]
                     \/ seen'[r] = balance'[Owner(r)]
                /\ \A c \in Refunders : Loaded(c)' =>
                     \/ Loaded(c) /\ seen'[c] = seen[c] /\ target'[c] = target[c]
                     \/ seen'[c] = balance'[Owner(target'[c])]
                /\ ask' = ask
<1>1. TypeOK
  BY DEF SharedSafe, Inv
<1>2. ASSUME NEW r \in Requests, Load(r) PROVE K
  BY <1>1, <1>2, CallsAreDistinct DEF Load, Goto, rows, locks, Loaded, TypeOK
<1>3. ASSUME NEW r \in Requests, CheckKey(r) PROVE K
  BY <1>1, <1>3, CallsAreDistinct DEF CheckKey, Goto, rows, locks, Loaded, TypeOK
<1>4. ASSUME NEW r \in Requests, LockUser(r) PROVE K
  BY <1>1, <1>4, CallsAreDistinct DEF LockUser, Goto, rows, Loaded, TypeOK
<1>5. ASSUME NEW r \in Requests, Escrow(r) PROVE K
  BY <1>1, <1>5, CallsAreDistinct DEF Escrow, Goto, Loaded, TypeOK
<1>6. ASSUME NEW r \in Requests, ApproveRow(r) \/ MarkPaid(r) PROVE K
  BY <1>6 DEF ApproveRow, MarkPaid, Loaded
<1>7. ASSUME NEW c \in Refunders, LockRow(c) PROVE K
  BY <1>1, <1>7, CallsAreDistinct DEF LockRow, Goto, rows, Loaded, TypeOK
<1>8. ASSUME NEW c \in Refunders, LockOwner(c) PROVE K
  <2>1. c \in Reviews \/ c \in Cancels
    BY DEF Refunders
  <2>2. balance' = balance /\ target' = target /\ ask' = ask
    BY <1>8 DEF LockOwner, rows
  <2> QED
    BY <1>1, <1>8, <2>1, <2>2, CallsAreDistinct DEF LockOwner, Goto, Loaded, TypeOK, Owner
<1>9. ASSUME NEW c \in Refunders, NEW ending \in Closed, Release(c, ending) PROVE K
  BY <1>1, <1>9, CallsAreDistinct DEF Release, Goto, Loaded, TypeOK
<1>10. ASSUME NEW c \in Calls, Close(c) PROVE K
  BY <1>1, <1>10, CallsAreDistinct DEF Close, Goto, rows, Loaded, TypeOK
<1>11. ASSUME NEW r \in Requests, NEW c \in Cancels, LoadForCancel(c, r) PROVE K
  BY <1>1, <1>11, CallsAreDistinct DEF LoadForCancel, Goto, rows, locks, Loaded, TypeOK
<1>12. ASSUME NEW r \in Requests, NEW c \in Reviews, StartReview(c, r) PROVE K
  BY <1>1, <1>12, CallsAreDistinct DEF StartReview, Goto, rows, locks, Loaded, TypeOK
<1>13. K
  <2> HIDE DEF K
  <2> QED
    BY <1>2, <1>3, <1>4, <1>5, <1>6, <1>7, <1>8, <1>9, <1>10, <1>11, <1>12
    DEF RedemptionStep, RedemptionCall, RequestStep, RefundStep, CloseBetween
<1>14. UNCHANGED <<loop, stage, work>>
  BY DEF RedemptionStep, transferVars
<1> QED
  BY <1>13, <1>14 DEF KeepsCopies

LEMMA TransferKeepsCopies ==
  ASSUME SharedSafe, TransferStep
  PROVE  KeepsCopies /\ ask' = ask
<1> DEFINE Kept(h) ==
      /\ \/ stage[h] \in {"loaded", "claimed"} /\ work'[h].from = work[h].from /\ work'[h].mine = work[h].mine
         \/ work'[h].from \in Users => work'[h].mine = balance'[work'[h].from]
      /\ loop' = h =>
           \/ /\ stage[h] \in {"loaded", "claimed"} /\ loop = h
              /\ work'[h].to = work[h].to /\ work'[h].theirs = work[h].theirs
           \/ work'[h].theirs = balance'[work'[h].to]
<1> DEFINE K == \A h \in T!Coroutines : stage'[h] \in {"loaded", "claimed"} => Kept(h)
<1>1. /\ TasksOK /\ TypeOK /\ loop \in T!Coroutines \cup {None}
      /\ stage \in [T!Tasks -> {"idle", "done"} \cup Busy] /\ work \in [T!Tasks -> Work]
  BY DEF SharedSafe, Inv, TasksOK, SharedTypeOK
<1>2. ASSUME NEW h \in T!Tasks, T!Return(h) PROVE K
  <2>1. /\ loop' = IF loop = h THEN None ELSE loop
        /\ stage' = [stage EXCEPT ![h] = "done"]
        /\ work' = [work EXCEPT ![h] = T!NoWork]
    BY <1>2 DEF T!Return, T!Goto
  <2> QED
    BY <1>1, <2>1, TasksAreDistinct
<1>3. ASSUME NEW h \in T!Coroutines, \A g \in T!Tasks \ {h} : stage'[g] = stage[g] /\ work'[g] = work[g],
             \A g \in T!Coroutines \ {h} : loop' = g => loop = g, Kept(h)
      PROVE  K
  BY <1>1, <1>3, TasksAreDistinct
<1>4. ASSUME NEW h \in Moves, NEW m \in MoveOrders, T!LoadMove(h, m) PROVE K
  <2>1. /\ m.from \in Users \cup {None} /\ m.to \in Users \ {m.from}
        /\ balance' = balance /\ loop' = h
        /\ stage' = [stage EXCEPT ![h] = "loaded"]
        /\ work' = [work EXCEPT ![h] =
             [T!NoWork EXCEPT !.from = m.from, !.to = m.to, !.amount = m.amount,
                              !.mine = IF m.from = None THEN 0 ELSE balance[m.from],
                              !.theirs = balance[m.to]]]
    BY <1>4, MovesAssumption DEF T!LoadMove, T!Goto
  <2>2. PICK x, y, a, b, n, z :
          /\ x = m.from /\ y = m.to /\ n = m.amount /\ z = T!NoWork
          /\ a = IF m.from = None THEN 0 ELSE balance[m.from]
          /\ b = balance[m.to]
    OBVIOUS
  <2>3. z \in Work
    BY <2>2, NoWorkIsWork
  <2>4. PICK w : w = [z EXCEPT !.from = x, !.to = y, !.amount = n, !.mine = a, !.theirs = b]
    OBVIOUS
  <2>5. w.from = x /\ w.to = y /\ w.mine = a /\ w.theirs = b
    BY <2>3, <2>4 DEF Work
  <2>6. work' = [work EXCEPT ![h] = w]
    BY <2>1, <2>2, <2>4
  <2>7. work'[h] = w
    BY <1>1, <2>6, TasksAreDistinct
  <2>8. Kept(h)
    BY <2>1, <2>2, <2>5, <2>7, TasksAreDistinct
  <2> QED
    BY <1>1, <1>3, <2>1, <2>6, <2>8, TasksAreDistinct
<1>5. ASSUME NEW h \in Pays, NEW r \in Tabs, T!LoadPayer(h, r) PROVE K
  <2>1. PICK k \in Terms : k = terms[r]
    BY <1>5 DEF T!LoadPayer, SharedSafe, TabsOK
  <2>2. PICK x, y, a, n, z :
          x = k.payer /\ y = k.requester /\ n = k.amount /\ a = balance[k.payer] /\ z = T!NoWork
    OBVIOUS
  <2>3. z \in Work
    BY <2>2, NoWorkIsWork
  <2>4. PICK w : w = [z EXCEPT !.from = x, !.to = y, !.tab = r, !.amount = n, !.mine = a]
    OBVIOUS
  <2>5. w.from = x /\ w.to = y /\ w.mine = a
    BY <2>3, <2>4 DEF Work
  <2>6. /\ balance' = balance /\ loop' = loop /\ stage[h] = "idle"
        /\ stage' = [stage EXCEPT ![h] = "loaded"] /\ work' = [work EXCEPT ![h] = w]
    BY <1>5, <2>1, <2>2, <2>4 DEF T!LoadPayer, T!Goto
  <2>7. work'[h] = w
    BY <1>1, <2>6, TasksAreDistinct
  <2>8. loop' # h
    BY <1>1, <2>6, TasksAreDistinct DEF TasksOK, Busy
  <2>9. Kept(h)
    BY <2>2, <2>5, <2>6, <2>7, <2>8
  <2> QED
    BY <1>1, <1>3, <2>6, <2>9, TasksAreDistinct
<1>6. ASSUME NEW h \in Reminders, NEW r \in Tabs, T!LoadReminder(h, r) PROVE K
  <2>1. /\ balance' = balance /\ loop' = loop
        /\ \A g \in T!Coroutines : stage'[g] = stage[g] /\ work'[g] = work[g]
    BY <1>1, <1>6, TasksAreDistinct DEF T!LoadReminder, T!Goto
  <2> QED
    BY <2>1
<1>7. ASSUME NEW r \in Tabs, NEW k \in Terms, T!CreateRequest(r, k) PROVE K
  BY <1>7 DEF T!CreateRequest, T!tasks
<1>8. ASSUME NEW h \in T!Tasks, T!Claim(h) PROVE K
  <2>1. CASE T!Return(h)
    BY <1>2, <2>1
  <2>2. CASE ~ T!Return(h)
    <3>1. PICK b, z : b = balance[work[h].to] /\ z = work[h]
      OBVIOUS
    <3> z \in Work
      BY <1>1, <3>1
    <3>2. PICK w : w = [z EXCEPT !.theirs = b]
      OBVIOUS
    <3>3. w.from = z.from /\ w.to = z.to /\ w.mine = z.mine /\ w.theirs = b
      BY <3>2 DEF Work
    <3>4. /\ balance' = balance /\ loop' = h /\ h \in Pays /\ stage[h] = "loaded"
          /\ stage' = [stage EXCEPT ![h] = "claimed"] /\ work' = [work EXCEPT ![h] = w]
      BY <1>1, <1>8, <2>2, <3>1, <3>2 DEF T!Claim, T!Goto
    <3>5. work'[h] = w
      BY <1>1, <3>4
    <3>6. Kept(h)
      BY <3>1, <3>3, <3>4, <3>5
    <3> QED
      BY <1>1, <1>3, <3>4, <3>6, TasksAreDistinct
  <2> QED
    BY <2>1, <2>2
<1>9. ASSUME NEW h \in T!Tasks, T!Pay(h) PROVE K
  <2>1. /\ loop' = loop /\ stage' = [stage EXCEPT ![h] = "paid"] /\ work' = work
    BY <1>9 DEF T!Pay, T!Goto
  <2> QED
    BY <1>1, <2>1, TasksAreDistinct
<1>10. K
  <2> HIDE DEF K
  <2>1. ASSUME NEW h \in T!Tasks, T!Run(h) \/ T!Fault(h) PROVE K
    BY <1>2, <1>8, <1>9, <2>1
    DEF T!Run, T!CommitMove, T!SaveReminder, T!GiveBack, T!RecordPaid, T!Fault
  <2> QED
    BY <1>4, <1>5, <1>6, <1>7, <2>1 DEF TransferStep, T!Next
<1>11. UNCHANGED <<ask, pc, seen, target>>
  BY DEF TransferStep
<1>12. \A c \in Calls : Loaded(c)' => Loaded(c)
  BY <1>11 DEF Loaded
<1> QED
  BY <1>10, <1>11, <1>12, CallsAreDistinct DEF KeepsCopies

----------------------------------------------------------------------------
(* The ledger *)

Booked == Total(balance) + Sum(Live) + fees = Total(Opening) + credited

LEMMA LedgerIs == LedgerAddsUp <=> SharedTypeOK /\ (overtaken \/ Booked)
BY DEF LedgerAddsUp, Booked, Live

LEMMA LedgerNext == ASSUME SharedTypeOK', overtaken' \/ Booked' PROVE LedgerAddsUp'
BY DEF LedgerAddsUp, Booked, Live

LEMMA LedgerNumbers ==
  ASSUME TypeOK, SharedTypeOK
  PROVE  /\ Total(balance) \in Int /\ Total(Opening) \in Int
         /\ Live \in SUBSET Requests /\ Sum(Live) \in Nat /\ fees \in Nat /\ credited \in Nat
<1>1. Total(balance) \in Int
  BY FiniteAssumption, SumInt DEF TypeOK, Total
<1>2. Total(Opening) \in Int
  <2>1. \A u \in Users : Opening[u] \in Int
    BY OpeningAssumption
  <2> QED
    BY <2>1, FiniteAssumption, SumInt DEF Total
<1>3. Live \in SUBSET Requests
  BY DEF Live
<1>4. fees \in Nat /\ credited \in Nat
  BY DEF SharedTypeOK
<1> QED
  BY <1>1, <1>2, <1>3, <1>4, AskedIsNat

(* The total, after one balance has changed *)
LEMMA TotalChanged ==
  ASSUME NEW f \in [Users -> Int], NEW g \in [Users -> Int], NEW x \in Users, NEW n \in Int,
         g[x] = f[x] + n, \A u \in Users \ {x} : g[u] = f[u]
  PROVE  Total(g) = Total(f) + n /\ Total(f) \in Int /\ Total(g) \in Int
<1>1. Total(f) \in Int /\ Total(g) \in Int
  BY FiniteAssumption, SumInt DEF Total
<1>2. Total(g) = Total(f) + g[x] - f[x]
  BY FiniteAssumption, SumChange DEF Total
<1>3. f[x] \in Int
  OBVIOUS
<1> QED
  BY <1>1, <1>2, <1>3

(* A step that changes neither a balance nor what is live *)
LEMMA LedgerQuiet ==
  ASSUME Booked, UNCHANGED <<balance, ask, fees, credited>>, Live' = Live
  PROVE  Booked'
<1>1. Sum(Live)' = Sum(Live)
  BY DEF Sum
<1> QED
  BY <1>1 DEF Booked, Total

(* What a request takes from the balance is live from then on. *)
LEMMA EscrowBooked ==
  ASSUME SharedSafe, Booked, NEW r \in Requests, Escrow(r), UNCHANGED transferVars,
         seen[r] = balance[Owner(r)]
  PROVE  Booked'
<1>1. TypeOK /\ SharedTypeOK /\ fees' = fees /\ credited' = credited
  BY DEF SharedSafe, Inv, TasksOK, transferVars
<1>2. CASE KeyTaken(r)
  <2>1. UNCHANGED <<balance, ask, status>>
    BY <1>2 DEF Escrow
  <2> QED
    BY <1>1, <2>1, LedgerQuiet DEF Live
<1>3. CASE ~ KeyTaken(r)
  <2>0. PICK f, g : f = balance /\ g = balance'
    OBVIOUS
  <2>a. PICK u \in Users, n \in Nat : u = Owner(r) /\ n = ask[r].amount
    BY AskIsTyped, <1>1
  <2>b. PICK L, R : L = Live /\ R = Live'
    OBVIOUS
  <2>1. /\ f = balance /\ g = balance' /\ u = Owner(r) /\ n = ask[r].amount
        /\ L = Live /\ R = Live' /\ L \in SUBSET Requests /\ R \in SUBSET Requests
    BY <2>0, <2>a, <2>b DEF Live
  <2>2. /\ status' = [status EXCEPT ![r] = "requested"] /\ ask' = ask
        /\ g = [f EXCEPT ![u] = f[u] - n]
    BY <1>3, <2>1 DEF Escrow
  <2>3. f \in [Users -> Int] /\ g \in [Users -> Int] /\ g[u] = f[u] + (0 - n)
    BY <1>1, <2>1, <2>2 DEF TypeOK
  <2>4. Total(g) = Total(f) - n
    <3>1. \A v \in Users \ {u} : g[v] = f[v]
      BY <2>2, <2>3
    <3> QED
      BY <2>3, <3>1, TotalChanged
  <2>5. status[r] = "none"
    BY DEF SharedSafe, Inv, RequestsOK, Escrow
  <2>6. R = L \cup {r} /\ r \notin L
    BY <1>1, <2>1, <2>2, <2>5 DEF Live, Open, TypeOK
  <2>7. Sum(R) = Sum(L) + n
    BY <1>1, <2>1, <2>6, AskedAdded
  <2>8. Sum(Live)' = Sum(R)
    BY <2>1, <2>2 DEF Sum
  <2>9. Total(balance)' = Total(g) /\ Total(Opening)' = Total(Opening)
    BY <2>1 DEF Total
  <2> QED
    BY <1>1, <2>1, <2>4, <2>7, <2>8, <2>9, LedgerNumbers DEF Booked
<1> QED
  BY <1>2, <1>3

(* What a refund gives back was live until then. *)
LEMMA ReleaseBooked ==
  ASSUME SharedSafe, Booked, NEW c \in Refunders, NEW ending \in Closed, Release(c, ending),
         UNCHANGED transferVars, seen[c] = balance[Owner(target[c])]
  PROVE  Booked'
<1>1. TypeOK /\ SharedTypeOK /\ fees' = fees /\ credited' = credited
  BY DEF SharedSafe, Inv, TasksOK, transferVars
<1>2. target[c] \in Requests /\ status[target[c]] \in Open
  BY DEF SharedSafe, Inv, RefundsOK, Release, Refundable, Open
<1> PICK f, g : f = balance /\ g = balance'
  OBVIOUS
<1> PICK L, R : L = Live /\ R = Live'
  OBVIOUS
<1>0. PICK r \in Requests : r = target[c]
  BY <1>2
<1>a. PICK u \in Users, n \in Nat : u = Owner(r) /\ n = ask[r].amount
  BY <1>1, AskIsTyped
<1>3. /\ f = balance /\ g = balance' /\ r = target[c] /\ u = Owner(r) /\ n = ask[r].amount
      /\ L = Live /\ R = Live' /\ L \in SUBSET Requests /\ R \in SUBSET Requests
  BY <1>0, <1>a DEF Live
<1>4. held[r] = n
  BY <1>2, <1>3 DEF SharedSafe, Inv, EscrowInOnePlace
<1>5. /\ status' = [status EXCEPT ![r] = ending] /\ ask' = ask
      /\ g = [f EXCEPT ![u] = f[u] + n]
  BY <1>3, <1>4 DEF Release
<1>6. f \in [Users -> Int] /\ g \in [Users -> Int] /\ g[u] = f[u] + n
  BY <1>1, <1>3, <1>5 DEF TypeOK
<1>7. Total(g) = Total(f) + n
  <2>1. \A v \in Users \ {u} : g[v] = f[v]
    BY <1>5, <1>6
  <2> QED
    BY <1>6, <2>1, TotalChanged
<1>8. L = R \cup {r} /\ r \notin R
  BY <1>1, <1>2, <1>3, <1>5 DEF Live, Open, Closed, TypeOK
<1>9. Sum(L) = Sum(R) + n /\ Sum(R) \in Nat
  BY <1>1, <1>3, <1>8, AskedAdded, AskedIsNat
<1>10. Sum(Live)' = Sum(R)
  BY <1>3, <1>5 DEF Sum
<1>11. Total(balance)' = Total(g) /\ Total(Opening)' = Total(Opening)
  BY <1>3 DEF Total
<1> QED
  BY <1>1, <1>3, <1>7, <1>9, <1>10, <1>11, LedgerNumbers DEF Booked

LEMMA RedemptionBooked ==
  ASSUME SharedSafe, CopiesOK, ~ overtaken, Booked, RedemptionStep
  PROVE  Booked'
<1>1. /\ TypeOK /\ UNCHANGED transferVars /\ fees' = fees /\ credited' = credited
  BY DEF SharedSafe, Inv, RedemptionStep, transferVars
<1>2. ASSUME UNCHANGED <<balance, ask, status>> PROVE Booked'
  BY <1>1, <1>2, LedgerQuiet DEF Live
<1>3. ASSUME NEW r \in Requests, Escrow(r) PROVE Booked'
  BY <1>1, <1>3, EscrowBooked DEF CopiesOK, Loaded, Escrow
<1>4. ASSUME NEW c \in Refunders, NEW ending \in Closed, Release(c, ending) PROVE Booked'
  BY <1>1, <1>4, ReleaseBooked DEF CopiesOK, Loaded, Release, Refunders
<1>5. ASSUME NEW r \in Requests, ApproveRow(r) \/ MarkPaid(r) PROVE Booked'
  <2>1. UNCHANGED <<balance, ask>> /\ Live' = Live
    BY <1>1, <1>5 DEF ApproveRow, MarkPaid, Live, Open, TypeOK
  <2> QED
    BY <1>1, <2>1, LedgerQuiet
<1> QED
  BY <1>2, <1>3, <1>4, <1>5
  DEF RedemptionStep, RedemptionCall, RequestStep, RefundStep, CloseBetween, Load, CheckKey,
      LockUser, LockRow, LockOwner, Close, LoadForCancel, StartReview, rows

(* What a transfer takes from one user another gets, but for the fee; what *)
(* an admin credits comes from outside.                                    *)
LEMMA MoveBooked ==
  ASSUME SharedSafe, CopiesOK, ~ overtaken, Booked, NEW h \in T!Coroutines,
         loop = h, stage[h] \in {"loaded", "claimed"}, T!MoveMoney(h), UNCHANGED <<ask, status>>
  PROVE  Booked'
<1>1. TypeOK /\ TasksOK /\ SharedTypeOK
  BY DEF SharedSafe, Inv, TasksOK
<1>2. work[h] \in Work /\ work[h].to \in Users \ {work[h].from}
  BY <1>1, TasksAreDistinct DEF TasksOK, Busy
<1> PICK f, g : f = balance /\ g = balance'
  OBVIOUS
<1>0. PICK x \in Users \cup {None}, y \in Users, n \in Nat, k \in Nat :
        x = work[h].from /\ y = work[h].to /\ n = work[h].amount /\ k = T!Fee(h)
  BY <1>1, <1>2, AfterIsBalance, TasksAreDistinct DEF Work
<1>3. /\ f = balance /\ g = balance' /\ x = work[h].from /\ y = work[h].to
      /\ n = work[h].amount /\ k = T!Fee(h) /\ f \in [Users -> Int]
  BY <1>0, <1>1 DEF TypeOK
<1>4. /\ x # y /\ (x \in Users => work[h].mine = f[x]) /\ work[h].theirs = f[y]
      /\ (x = None => k = 0)
  BY <1>2, <1>3 DEF CopiesOK, T!Fee
<1>5. /\ \A u \in Users : g[u] = CASE u = x -> f[x] - (n + k) [] u = y -> f[y] + n [] OTHER -> f[u]
      /\ g \in [Users -> Int]
      /\ fees' = fees + k
      /\ credited' = IF x = None THEN credited + n ELSE credited
  <2>1. g = T!After(h) /\ g \in [Users -> Int]
    BY <1>1, <1>3, AfterIsBalance, TasksAreDistinct DEF T!MoveMoney
  <2>2. T!Total(h) = n + k
    BY <1>3 DEF T!Total
  <2>3. fees' = fees + k /\ credited' = IF x = None THEN credited + n ELSE credited
    BY <1>3 DEF T!MoveMoney
  <2>4. \A u \in Users : g[u] = CASE u = x -> f[x] - (n + k) [] u = y -> f[y] + n [] OTHER -> f[u]
    BY <1>3, <1>4, <2>1, <2>2 DEF T!After
  <2> QED
    BY <2>1, <2>3, <2>4
<1>6. Sum(Live)' = Sum(Live)
  BY DEF Sum, Live
<1>7. Total(balance)' = Total(g) /\ Total(Opening)' = Total(Opening) /\ Total(balance) = Total(f)
  BY <1>3 DEF Total
<1>8. CASE x \in Users
  <2>1. PICK m : m = [f EXCEPT ![x] = f[x] - (n + k)]
    OBVIOUS
  <2>2. PICK s \in Int : s = 0 - (n + k)
    OBVIOUS
  <2>3. m \in [Users -> Int] /\ m[x] = f[x] + s /\ \A u \in Users \ {x} : m[u] = f[u]
    BY <1>3, <1>8, <2>1, <2>2
  <2>4. Total(m) = Total(f) + s /\ Total(f) \in Int
    BY <1>3, <1>8, <2>3, TotalChanged
  <2>5. g[y] = m[y] + n /\ \A u \in Users \ {y} : g[u] = m[u]
    BY <1>3, <1>4, <1>5, <1>8, <2>1
  <2>6. Total(g) = Total(m) + n
    BY <1>5, <2>3, <2>5, TotalChanged
  <2>7. x # None
    BY <1>8, TasksAreDistinct
  <2> QED
    BY <1>1, <1>5, <1>6, <1>7, <2>2, <2>4, <2>6, <2>7, LedgerNumbers DEF Booked
<1>9. CASE x = None
  <2>1. g[y] = f[y] + n /\ \A u \in Users \ {y} : g[u] = f[u]
    BY <1>4, <1>5, <1>9, TasksAreDistinct
  <2>2. Total(g) = Total(f) + n /\ Total(f) \in Int
    BY <1>3, <1>5, <2>1, TotalChanged
  <2> QED
    BY <1>1, <1>4, <1>5, <1>6, <1>7, <1>9, <2>2, LedgerNumbers DEF Booked
<1> QED
  BY <1>8, <1>9

LEMMA TransferBooked ==
  ASSUME SharedSafe, CopiesOK, ~ overtaken, Booked, TransferStep
  PROVE  Booked'
<1>1. UNCHANGED <<ask, status>>
  BY DEF TransferStep, rows
<1>2. ASSUME UNCHANGED <<balance, fees, credited>> PROVE Booked'
  BY <1>1, <1>2, LedgerQuiet DEF Live
<1>3. ASSUME NEW h \in T!Tasks, T!CommitMove(h) PROVE Booked'
  BY <1>1, <1>3, MoveBooked, TasksAreDistinct DEF T!CommitMove
<1>4. ASSUME NEW h \in T!Tasks, T!Pay(h) PROVE Booked'
  BY <1>1, <1>4, MoveBooked, OnlyOneClaims, TasksAreDistinct DEF SharedSafe, T!Pay
<1> QED
  BY <1>2, <1>3, <1>4
  DEF TransferStep, T!Next, T!Run, T!SaveReminder, T!Claim, T!GiveBack, T!RecordPaid, T!Fault,
      T!LoadMove, T!LoadPayer, T!LoadReminder, T!CreateRequest, T!requests, T!sums

(* A restart ends every call that holds a copy. *)
LEMMA RestartLedger ==
  ASSUME SharedSafe, SharedSafe', CopiesOK, Restart, NoteOvertaking
  PROVE  CopiesOK' /\ (Booked => Booked')
<1>1. /\ UNCHANGED <<balance, ask, status, fees, credited>>
      /\ \A c \in Calls : pc'[c] \in {"idle", "done", "dead"}
      /\ \A h \in T!Tasks : stage'[h] \in {"idle", "done"}
  BY DEF Restart, Crash, T!Stop, rows, T!sums
<1>2. CopiesOK'
  BY <1>1, CallsAreDistinct, TasksAreDistinct DEF CopiesOK, Loaded
<1>3. Booked => Booked'
  BY <1>1, LedgerQuiet DEF Live
<1> QED
  BY <1>2, <1>3

LEMMA SharedInvInit == SharedInit => SharedInv
<1> SUFFICES ASSUME SharedInit PROVE SharedInv
  OBVIOUS
<1>1. SharedSafe
  BY SharedSafeInit
<1>2. CopiesOK
  BY CallsAreDistinct, TasksAreDistinct DEF SharedInit, Init, T!Init, CopiesOK, Loaded
<1>3. Live = {} /\ balance = Opening /\ fees = 0 /\ credited = 0
  BY DEF SharedInit, Init, T!Init, Live, Open
<1>4. Sum({}) = 0
  BY SumEmpty DEF Sum
<1>5. Booked
  BY <1>1, <1>3, <1>4, LedgerNumbers DEF Booked, SharedSafe, Inv, TasksOK
<1> QED
  BY <1>1, <1>2, <1>5, LedgerIs DEF SharedInv, SharedSafe, TasksOK

LEMMA SharedInvNext == ASSUME SharedInv, [SharedNext]_sharedVars PROVE SharedInv'
<1>1. SharedSafe /\ CopiesOK /\ (overtaken \/ Booked)
  BY LedgerIs DEF SharedInv
<1>2. SharedSafe' /\ SharedTypeOK'
  BY <1>1, SharedSafeNext DEF SharedSafe, TasksOK
<1>3. CASE SharedNext
  <2>1. NoteOvertaking /\ (overtaken => overtaken')
    BY <1>3 DEF SharedNext, NoteOvertaking
  <2>2. CopiesOK'
    BY <1>1, <1>2, <1>3, <2>1, CopiesStep, RedemptionKeepsCopies, TransferKeepsCopies, RestartLedger
    DEF SharedNext
  <2>3. overtaken \/ Booked'
    BY <1>1, <1>2, <1>3, <2>1, RedemptionBooked, TransferBooked, RestartLedger DEF SharedNext
  <2> QED
    BY <1>2, <2>1, <2>2, <2>3, LedgerNext DEF SharedInv
<1>4. CASE UNCHANGED sharedVars
  <2>1. UNCHANGED <<balance, ask, status, seen, target, pc, fees, credited, loop, stage, work, overtaken>>
    BY <1>4 DEF sharedVars, vars, rows, transferVars
  <2>2. CopiesOK'
    BY <1>1, <2>1 DEF CopiesOK, Loaded, Owner
  <2>3. overtaken' \/ Booked'
    BY <1>1, <2>1, LedgerQuiet DEF Live
  <2> QED
    BY <1>2, <2>2, <2>3, LedgerNext DEF SharedInv
<1> QED
  BY <1>3, <1>4

(* The invariant holds of redemptions and transfers together. *)
THEOREM SharedInvariance == SharedSpec => []SharedInv
<1>1. SharedInit => SharedInv
  BY SharedInvInit
<1>2. SharedInv /\ [SharedNext]_sharedVars => SharedInv'
  BY SharedInvNext
<1> QED
  BY <1>1, <1>2, PTL DEF SharedSpec

----------------------------------------------------------------------------
(* Theorems about the composition *)

(* Every column and local variable keeps its type. *)
THEOREM TypeCorrectness == SharedSpec => []SharedTypeOK
<1>1. SharedInv => SharedTypeOK
  BY DEF SharedInv, SharedSafe, TasksOK
<1> QED
  BY <1>1, SharedInvariance, PTL

(* A redemption's amount is held, refunded once or consumed, never two of  *)
(* these and never none, whatever cancellations, reviews, payments,        *)
(* transfers and restarts meet on the row.                                 *)
THEOREM EscrowIsConserved == SharedSpec => []EscrowInOnePlace
<1>1. SharedInv => EscrowInOnePlace
  BY DEF SharedInv, SharedSafe, Inv
<1> QED
  BY <1>1, SharedInvariance, PTL

(* No user redeems more in a day than the limit, however many of his       *)
(* requests are checked at the same time.                                  *)
THEOREM DailyLimitIsKept == SharedSpec => []DailyLimitHolds
<1>1. SharedInv => DailyLimitHolds
  BY DEF SharedInv, SharedSafe
<1> QED
  BY <1>1, SharedInvariance, PTL

(* A request of the FAWN Tab moves its money once, whatever payments,      *)
(* reminders, errors and restarts meet on it.                              *)
THEOREM TabIsPaidOnce == SharedSpec => []TabPaidOnce
<1>1. SharedInv => TabPaidOnce
  BY DEF SharedInv, SharedSafe, TabsOK
<1> QED
  BY <1>1, SharedInvariance, PTL

(* No cent is made or lost as long as no balance changes under a call that *)
(* holds a copy of it.                                                     *)
THEOREM LedgerIsConserved == SharedSpec => []LedgerAddsUp
<1>1. SharedInv => LedgerAddsUp
  BY DEF SharedInv
<1> QED
  BY <1>1, SharedInvariance, PTL

(* Only an approved redemption is ever paid, and a closed one never moves, *)
(* whatever transfers do meanwhile.                                        *)
THEOREM StatusEdges == SharedSpec => StatusFollowsEdges
<1>1. SharedInv /\ [SharedNext]_sharedVars
        => [\A r \in Requests : status'[r] # status[r] => <<status[r], status'[r]>> \in Edges]_vars
  <2> SUFFICES ASSUME SharedInv, [SharedNext]_sharedVars
      PROVE  \A r \in Requests : status'[r] # status[r] => <<status[r], status'[r]>> \in Edges
    OBVIOUS
  <2>1. Inv
    BY DEF SharedInv, SharedSafe
  <2>2. [Next]_vars \/ UNCHANGED status
    BY DEF SharedNext, RedemptionStep, RedemptionCall, CloseBetween, TransferStep, Restart, Next,
           sharedVars, vars, rows
  <2> QED
    BY <2>1, <2>2, StepFollowsEdges
<1> QED
  BY <1>1, SharedInvariance, PTL DEF SharedSpec, StatusFollowsEdges
=============================================================================
