-------------------------- MODULE ClosedLoopProofs --------------------------
(***************************************************************************)
(* Proofs about the closed-loop checkout.                                  *)
(*                                                                         *)
(* A call's checks are made one by one, each after a lock; the invariant   *)
(* says that what it has checked so far is still true, because whoever     *)
(* could make it false needs a row the call holds:                         *)
(*   CallsOK           a call has the arguments of its kind, and has       *)
(*                     locked no more rows than it locks                   *)
(*   LocksAreExclusive no row is held by two calls                         *)
(*   GrantsAreFresh    the grant of a call that holds its row is unused    *)
(*   ExpiredIsLate     only a checkout whose time is up is expired         *)
(*   Checked           past the merchant's row the checkout is not expired *)
(*                     and the parties differ; past the card's, the total  *)
(*                     still fits in a daily limit                         *)
(* Deadlocks are excluded by ranking the rows.                             *)
(***************************************************************************)
EXTENDS ClosedLoop, SumTheorems, SequenceTheorems

Statuses == {"none", "open", "completed", "expired"}
Kinds    == {"none", "pay", "tap", "nfc", "register", "view", "download"}

CallType ==
  [kind : Kinds, checkout : Checkouts \cup {None}, payer : Users \cup {None},
   grant : Grants \cup {None}, device : Devices \cup {None},
   balance : Nat, status : Statuses, card : Cards]

(* What a call of each kind has for its arguments *)
Shape(k) ==
  /\ k.kind \in {"pay", "tap", "nfc"} => k.checkout \in Checkouts /\ k.payer \in Users
  /\ k.kind \in {"tap", "nfc", "download"} => k.grant \in Grants
  /\ k.kind \in {"none", "pay", "register", "view"} => k.grant = None
  /\ k.kind \in {"nfc", "register"} => k.device \in Devices
  /\ k.kind = "register" => k.payer \in Users
  /\ k.kind = "view" => k.checkout \in Checkouts

(* The number of rows a payment locks before the checkout's *)
Before(h) == CASE Kind(h) = "tap" -> 1 [] Kind(h) = "nfc" -> 2 [] OTHER -> 0

(* A payment has locked, and checked, n rows from the checkout's on:       *)
(* two of them are the checkout's and the merchant's, three the card's too. *)
Past(h, n) == IsPayment(h) /\ Before(h) + n <= taken[h]

CallsOK ==
  /\ call \in [Calls -> CallType]
  /\ \A h \in Calls : /\ Shape(call[h]) /\ taken[h] <= Len(Rows(h))
                      /\ pc[h] # "running" => call[h] = NoCall
  /\ \A g \in Taps : bound[g] # None => bearer[g] \in Users

LocksAreExclusive == \A g, h \in Calls : g # h => Held(g) \cap Held(h) = {}

GrantsAreFresh ==
  /\ \A h \in Calls : call[h].grant # None /\ taken[h] >= 1 => call[h].grant \notin used
  /\ \A g \in Grants : spentBy[g] = 0 \/ (spentBy[g] = 1 /\ g \in used)

ExpiredIsLate ==
  /\ \A c \in Checkouts : status[c] = "expired" => c \in late
  /\ \A h \in Calls : Kind(h) = "view" => call[h].checkout \in late

Checked ==
  \A h \in Calls :
    /\ Past(h, 2) => Seller[call[h].checkout] # call[h].payer /\ status[call[h].checkout] # "expired"
    /\ Past(h, 3) => \E k \in Controls : Spent(call[h].payer) + Total(call[h].checkout) <= k.daily

Inv == /\ CallsOK /\ LocksAreExclusive /\ GrantsAreFresh /\ ExpiredIsLate /\ Checked
       /\ LimitsHold

(* The rows _settle locks, as one sequence *)
LEMMA SettlementRowsAre ==
  ASSUME NEW c, NEW p
  PROVE  LET s == Seller[c]
         IN  SettlementRows(c, p) =
               <<<<"checkout", c>>, <<"merchant", s>>, <<"card", p>>,
                 <<"user", IF p < s THEN p ELSE s>>, <<"user", IF p < s THEN s ELSE p>>>>
<1>1. ASSUME NEW v, NEW w, NEW x, NEW y, NEW z
      PROVE  <<v, w, x>> \o <<y, z>> = <<v, w, x, y, z>>
  <2> DEFINE S == {v, w, x, y, z}
             a == <<v, w, x>>
             b == <<y, z>>
             t == <<v, w, x, y, z>>
  <2>1. a \in Seq(S) /\ b \in Seq(S) /\ Len(a) = 3 /\ Len(b) = 2 /\ t \in Seq(S) /\ Len(t) = 5
    OBVIOUS
  <2>2. a \o b \in Seq(S) /\ Len(a \o b) = 5 /\ \A i \in 1 .. 5 : (a \o b)[i] = t[i]
    BY <2>1, ConcatProperties
  <2>3. QED BY <2>1, <2>2, SeqEqual
<1>2. CASE p < Seller[c]
  BY <1>1, <1>2 DEF SettlementRows
<1>3. CASE ~ (p < Seller[c])
  BY <1>1, <1>3 DEF SettlementRows
<1>4. QED BY <1>2, <1>3

LEMMA RowsOfPayment ==
  ASSUME NEW h \in Calls, IsPayment(h)
  PROVE  LET k == call[h]
             s == Seller[k.checkout]
             n == Before(h)
         IN  /\ n \in 0 .. 2 /\ Len(Rows(h)) = n + 5
             /\ Rows(h)[n + 1] = <<"checkout", k.checkout>>
             /\ Rows(h)[n + 2] = <<"merchant", s>>
             /\ Rows(h)[n + 3] = <<"card", k.payer>>
             /\ Rows(h)[n + 4] = <<"user", IF k.payer < s THEN k.payer ELSE s>>
             /\ Rows(h)[n + 5] = <<"user", IF k.payer < s THEN s ELSE k.payer>>
             /\ n >= 1 => Rows(h)[1] = <<"grant", k.grant>>
             /\ n = 2 => Rows(h)[2] = <<"device", k.device>>
<1> DEFINE p == call[h].payer
           s == Seller[call[h].checkout]
           q == <<<<"checkout", call[h].checkout>>, <<"merchant", s>>, <<"card", p>>,
                  <<"user", IF p < s THEN p ELSE s>>, <<"user", IF p < s THEN s ELSE p>>>>
<1>1. CASE Kind(h) = "pay"
  <2>1. Rows(h) = q /\ Before(h) = 0
    BY <1>1, SettlementRowsAre DEF Rows, Before
  <2> QED BY <2>1
<1>2. CASE Kind(h) = "tap"
  <2>1. Rows(h) = <<<<"grant", call[h].grant>>>> \o q /\ Before(h) = 1
    BY <1>2, SettlementRowsAre DEF Rows, Before
  <2> QED BY <2>1
<1>3. CASE Kind(h) = "nfc"
  <2>1. Rows(h) = <<<<"grant", call[h].grant>>, <<"device", call[h].device>>>> \o q /\ Before(h) = 2
    BY <1>3, SettlementRowsAre DEF Rows, Before
  <2> QED BY <2>1
<1>4. QED BY <1>1, <1>2, <1>3 DEF IsPayment

LEMMA NothingHeld ==
  ASSUME NEW h \in Calls
  PROVE  /\ Kind(h) = "none" => Rows(h) = <<>>
         /\ taken[h] = 0 => Held(h) = {}
BY DEF Rows, Held

(* A call's rows depend on nothing but its arguments and, for a device     *)
(* that is registered, on whether the key is known.                        *)
LEMMA RowsKept ==
  ASSUME NEW h \in Calls, call \in [Calls -> CallType], call' \in [Calls -> CallType],
         \A f \in {"kind", "checkout", "payer", "grant", "device"} : call'[h][f] = call[h][f],
         Kind(h) = "register" => holder'[call[h].device] = holder[call[h].device]
  PROVE  Rows(h)' = Rows(h)
<1>1. /\ call'[h].kind = call[h].kind /\ call'[h].checkout = call[h].checkout
      /\ call'[h].payer = call[h].payer /\ call'[h].grant = call[h].grant
      /\ call'[h].device = call[h].device
  BY DEF CallType
<1>2. SettlementRows(call[h].checkout, call[h].payer)' = SettlementRows(call[h].checkout, call[h].payer)
  BY <1>1 DEF SettlementRows
<1>3. QED BY <1>1, <1>2 DEF Rows, Kind

LEMMA RegisterRows ==
  ASSUME NEW h \in Calls, Kind(h) = "register"
  PROVE  /\ Rows(h)[1] = <<"card", call[h].payer>>
         /\ holder[call[h].device] = None => Len(Rows(h)) = 1
         /\ holder[call[h].device] # None =>
              Len(Rows(h)) = 2 /\ Rows(h)[2] = <<"device", call[h].device>>
<1>1. CASE holder[call[h].device] = None
  BY <1>1 DEF Rows
<1>2. CASE holder[call[h].device] # None
  BY <1>2 DEF Rows
<1>3. QED BY <1>1, <1>2

(* A device key, once registered, keeps its holder: what a call holds does *)
(* not change under it.                                                    *)
LEMMA HeldKept ==
  ASSUME CallsOK, call' \in [Calls -> CallType], TypeOK, NEW h \in Calls,
         call'[h] = call[h], taken'[h] = taken[h],
         \A d \in Devices : holder[d] # None => holder'[d] = holder[d]
  PROVE  Held(h)' = Held(h) /\ taken'[h] <= Len(Rows(h)')
<1>1. CASE Kind(h) = "register" /\ holder'[call[h].device] # holder[call[h].device]
  <2>1. call[h].device \in Devices /\ holder[call[h].device] = None
    BY <1>1 DEF CallsOK, Shape, Kind
  <2>2. Len(Rows(h)) = 1 /\ Rows(h)[1] = <<"card", call[h].payer>>
    BY <1>1, <2>1, RegisterRows
  <2>3. Len(Rows(h)') = 2 /\ Rows(h)'[1] = <<"card", call[h].payer>>
    <3>1. Rows(h)' = <<<<"card", call[h].payer>>>> \o <<<<"device", call[h].device>>>>
      BY <1>1, <2>1 DEF Rows, Kind
    <3> QED BY <3>1
  <2>4. taken[h] \in 0 .. 1
    <3>1. taken[h] \in Nat /\ taken[h] <= Len(Rows(h))
      BY DEF CallsOK, TypeOK
    <3> QED BY <2>2, <3>1
  <2>5. QED BY <2>2, <2>3, <2>4 DEF Held
<1>2. CASE ~ (Kind(h) = "register" /\ holder'[call[h].device] # holder[call[h].device])
  <2>1. Rows(h)' = Rows(h)
    BY <1>2, RowsKept DEF CallsOK
  <2>2. QED BY <2>1 DEF Held, CallsOK
<1>3. QED BY <1>1, <1>2

----------------------------------------------------------------------------
(* What a step does to the calls: it begins one, locks one more row for it *)
(* or ends it, and leaves the others alone.                                *)

Ends(h) ==
  ExpireUnpaid(h) \/ Refuse(h) \/ Settle(h) \/ Decline(h) \/ Register(h) \/ View(h) \/ Download(h)
    \/ Abort(h)

LEMMA Arrivals ==
  ASSUME TypeOK, CallsOK, NEW h \in Calls, Arrive(h)
  PROVE  \E k \in CallType : Begin(h, k) /\ Shape(k) /\ (k.kind = "view" => k.checkout \in late)
<1> USE BoundsAssumption, CheckoutsAssumption DEF CallType, Shape, NoCall, Kinds, Statuses, Grants, Cards
<1> DEFINE Goal == \E k \in CallType : Begin(h, k) /\ Shape(k) /\ (k.kind = "view" => k.checkout \in late)
<1>1. ASSUME NEW u \in Users, NEW c \in Checkouts, BeginPay(h, u, c)
      PROVE  Goal
  <2> DEFINE k == [NoCall EXCEPT !.kind = "pay", !.checkout = c, !.payer = u,
                                 !.balance = balance[u], !.card = card[u]]
  <2>1. k \in CallType /\ Shape(k) /\ k.kind = "pay"
    BY DEF TypeOK
  <2>2. Begin(h, k)
    BY <1>1 DEF BeginPay
  <2> QED BY <2>1, <2>2
<1>2. ASSUME NEW g \in Taps, BeginTap(h, g)
      PROVE  Goal
  <2> DEFINE c == bound[g]
             k == [NoCall EXCEPT !.kind = "tap", !.checkout = c, !.payer = bearer[g], !.grant = g,
                                 !.balance = balance[Seller[c]], !.status = status[c]]
  <2>1. c \in Checkouts /\ bearer[g] \in Users /\ Seller[c] \in Users
    BY <1>2 DEF BeginTap, TypeOK, CallsOK
  <2>2. k \in CallType /\ Shape(k) /\ k.kind = "tap"
    BY <2>1 DEF TypeOK
  <2>3. Begin(h, k)
    BY <1>2 DEF BeginTap
  <2> QED BY <2>2, <2>3
<1>3. ASSUME NEW g \in Challenges, NEW d \in Devices, BeginNfc(h, g, d)
      PROVE  Goal
  <2> DEFINE c == bound[g]
             k == [NoCall EXCEPT !.kind = "nfc", !.checkout = c, !.payer = holder[d], !.grant = g, !.device = d,
                                 !.balance = balance[Seller[c]], !.status = status[c]]
  <2>1. c \in Checkouts /\ holder[d] \in Users /\ Seller[c] \in Users
    BY <1>3 DEF BeginNfc, TypeOK
  <2>2. k \in CallType /\ Shape(k) /\ k.kind = "nfc"
    BY <2>1 DEF TypeOK
  <2>3. Begin(h, k)
    BY <1>3 DEF BeginNfc
  <2> QED BY <2>2, <2>3
<1>4. ASSUME NEW u \in Users, NEW d \in Devices, BeginRegister(h, u, d)
      PROVE  Goal
  <2> DEFINE k == [NoCall EXCEPT !.kind = "register", !.payer = u, !.device = d]
  <2>1. k \in CallType /\ Shape(k) /\ k.kind = "register"
    OBVIOUS
  <2>2. Begin(h, k)
    BY <1>4 DEF BeginRegister
  <2> QED BY <2>1, <2>2
<1>5. ASSUME NEW c \in Checkouts, BeginView(h, c)
      PROVE  Goal
  <2> DEFINE k == [NoCall EXCEPT !.kind = "view", !.checkout = c]
  <2>1. k \in CallType /\ Shape(k) /\ k.checkout \in late
    BY <1>5 DEF BeginView
  <2>2. Begin(h, k)
    BY <1>5 DEF BeginView
  <2> QED BY <2>1, <2>2
<1>6. ASSUME NEW g \in Passes, BeginDownload(h, g)
      PROVE  Goal
  <2> DEFINE k == [NoCall EXCEPT !.kind = "download", !.grant = g]
  <2>1. k \in CallType /\ Shape(k) /\ k.kind = "download"
    OBVIOUS
  <2>2. Begin(h, k)
    BY <1>6 DEF BeginDownload
  <2> QED BY <2>1, <2>2
<1> HIDE DEF Goal
<1>7. Goal
  BY <1>1, <1>2, <1>3, <1>4, <1>5, <1>6 DEF Arrive
<1>8. QED BY <1>7 DEF Goal

LEMMA EndsAreDone ==
  ASSUME NEW h \in Calls, Ends(h)
  PROVE  Done(h)
BY DEF Ends, ExpireUnpaid, Refuse, Settle, Decline, Register, View, Download, Abort, RollBack

LEMMA ManageKeepsCalls ==
  Manage => UNCHANGED <<pc, call, taken, holder>>
BY DEF Manage, CreateMerchant, ApproveMerchant, IssueCard, UpdateControls, RevokeDevice, CreateCheckout,
       Expire, CreateTapToken, CreateChallenge, CreatePass, accounts, devices, threads

LEMMA NextCases ==
  ASSUME Next
  PROVE  \/ \E h \in Calls : Arrive(h) \/ Take(h) \/ Ends(h)
         \/ Manage
BY DEF Next, Step, Ends

(* A device key, once registered, keeps its holder. *)
LEMMA HoldersStay ==
  ASSUME TypeOK, CallsOK, [Next]_vars, NEW d \in Devices, holder[d] # None
  PROVE  holder'[d] = holder[d]
<1>1. ASSUME NEW h \in Calls, Arrive(h) PROVE holder' = holder
  BY <1>1, Arrivals DEF Begin, devices
<1>2. ASSUME NEW h \in Calls, Take(h) PROVE holder' = holder
  BY <1>2 DEF Take, devices
<1>3. ASSUME NEW h \in Calls, Ends(h) PROVE holder'[d] = holder[d]
  <2>1. CASE Register(h)
    <3>1. call[h].device = d \/ holder'[d] = holder[d]
      BY <2>1 DEF Register, TypeOK
    <3>2. call[h].device = d => holder'[d] = holder[d]
      BY <2>1 DEF Register
    <3> QED BY <3>1, <3>2
  <2>2. CASE ~ Register(h)
    BY <1>3, <2>2 DEF Ends, ExpireUnpaid, Refuse, Settle, Decline, View, Download, Abort, devices
  <2> QED BY <2>1, <2>2
<1>4. CASE UNCHANGED vars
  BY <1>4 DEF vars, devices
<1>5. QED BY <1>1, <1>2, <1>3, <1>4, NextCases, ManageKeepsCalls

(* The arguments by which a call is known do not change while it runs. *)
SameCall(h) ==
  /\ call'[h].kind = call[h].kind /\ call'[h].checkout = call[h].checkout
  /\ call'[h].payer = call[h].payer /\ call'[h].grant = call[h].grant
  /\ call'[h].device = call[h].device

LEMMA CallEffects ==
  ASSUME TypeOK, CallsOK, [Next]_vars
  PROVE  /\ call' \in [Calls -> CallType] /\ taken' \in [Calls -> Nat]
         /\ pc' \in [Calls -> {"idle", "running", "done"}]
         /\ \A h \in Calls :
              \/ call'[h] = call[h] /\ taken'[h] = taken[h] /\ pc'[h] = pc[h]
              \/ /\ taken'[h] = 0 /\ Shape(call'[h]) /\ (pc'[h] # "running" => call'[h] = NoCall)
                 /\ Kind(h)' = "view" => call'[h].checkout \in late
              \/ Take(h)
<1> DEFINE Kept(g) == call'[g] = call[g] /\ taken'[g] = taken[g] /\ pc'[g] = pc[g]
           New(g)  == /\ taken'[g] = 0 /\ Shape(call'[g]) /\ (pc'[g] # "running" => call'[g] = NoCall)
                      /\ call'[g].kind = "view" => call'[g].checkout \in late
           Typed   == /\ call' \in [Calls -> CallType] /\ taken' \in [Calls -> Nat]
                      /\ pc' \in [Calls -> {"idle", "running", "done"}]
<1>0. NoCall \in CallType /\ Shape(NoCall) /\ NoCall.kind = "none"
  BY DEF NoCall, CallType, Shape, Kinds, Statuses, Cards
<1>1. ASSUME NEW h \in Calls, Arrive(h)
      PROVE  Typed /\ New(h) /\ \A g \in Calls \ {h} : Kept(g)
  <2>1. PICK k \in CallType : Begin(h, k) /\ Shape(k) /\ (k.kind = "view" => k.checkout \in late)
    BY <1>1, Arrivals
  <2>2. taken[h] = 0
    <3>1. call[h].kind = "none"
      BY <1>0, <2>1 DEF Begin, CallsOK
    <3>2. Rows(h) = <<>> /\ taken[h] <= Len(Rows(h)) /\ taken[h] \in Nat
      BY <3>1, NothingHeld DEF Kind, CallsOK, TypeOK
    <3> QED BY <3>2
  <2>3. /\ pc' = [pc EXCEPT ![h] = "running"] /\ call' = [call EXCEPT ![h] = k]
        /\ taken' = taken
    BY <2>1 DEF Begin
  <2>4. QED BY <2>1, <2>2, <2>3 DEF CallsOK, TypeOK
<1>2. ASSUME NEW h \in Calls, Take(h)
      PROVE  Typed /\ \A g \in Calls \ {h} : Kept(g)
  <2>1. card[call[h].payer] \in Cards \/ Kind(h) # "nfc"
    BY DEF CallsOK, Shape, Kind, TypeOK
  <2>2. call' \in [Calls -> CallType]
    <3>1. CASE call' = call
      BY <3>1 DEF CallsOK
    <3>2. CASE Kind(h) = "nfc" /\ call' = [call EXCEPT ![h].card = card[call[h].payer]]
      <4>1. [call[h] EXCEPT !.card = card[call[h].payer]] \in CallType
        BY <2>1, <3>2 DEF CallsOK, CallType
      <4> QED BY <3>2, <4>1 DEF CallsOK
    <3> QED BY <1>2, <3>1, <3>2 DEF Take
  <2>3. \A g \in Calls \ {h} : call'[g] = call[g]
    BY <1>2 DEF Take, CallsOK
  <2>4. QED BY <1>2, <2>2, <2>3 DEF Take, TypeOK
<1>3. ASSUME NEW h \in Calls, Ends(h)
      PROVE  Typed /\ New(h) /\ \A g \in Calls \ {h} : Kept(g)
  <2>1. Done(h)
    BY <1>3, EndsAreDone
  <2>2. QED BY <1>0, <2>1 DEF Done, CallsOK, TypeOK
<1>4. CASE UNCHANGED <<pc, call, taken>>
  BY <1>4 DEF CallsOK, TypeOK
<1>5. UNCHANGED vars => UNCHANGED <<pc, call, taken>>
  BY DEF vars, threads
<1> HIDE DEF Kept, New, Typed
<1>6. Typed /\ \A h \in Calls : Kept(h) \/ New(h) \/ Take(h)
  BY <1>1, <1>2, <1>3, <1>4, <1>5, NextCases, ManageKeepsCalls DEF Kept, Typed
<1>7. QED BY <1>6 DEF Kept, New, Typed, Kind

LEMMA TakeEffects ==
  ASSUME TypeOK, CallsOK, call' \in [Calls -> CallType], NEW h \in Calls, Take(h)
  PROVE  /\ SameCall(h) /\ Rows(h)' = Rows(h) /\ pc' = pc
         /\ taken'[h] = taken[h] + 1 /\ taken'[h] <= Len(Rows(h))
         /\ Held(h)' = Held(h) \cup {Wanted(h)}
<1>1. SameCall(h)
  BY DEF Take, SameCall, CallsOK, CallType
<1>2. Rows(h)' = Rows(h)
  <2>1. holder' = holder
    BY DEF Take, devices
  <2>2. QED BY <1>1, <2>1, RowsKept DEF SameCall, CallsOK
<1>3. taken'[h] = taken[h] + 1 /\ taken[h] \in Nat /\ pc' = pc
  BY DEF Take, TypeOK
<1>4. taken[h] < Len(Rows(h)) /\ Len(Rows(h)) \in Int
  <2>1. taken[h] < Len(Rows(h))
    BY DEF Take, Wants
  <2>2. Len(Rows(h)) \in Int
    <3>1. CASE IsPayment(h)
      BY <3>1, RowsOfPayment
    <3>2. CASE Kind(h) = "register"
      BY <3>2, RegisterRows
    <3>3. CASE Kind(h) \notin {"pay", "tap", "nfc", "register"}
      BY <3>3 DEF Rows
    <3> QED BY <3>1, <3>2, <3>3 DEF IsPayment
  <2> QED BY <2>1, <2>2
<1>5. Held(h)' = Held(h) \cup {Wanted(h)}
  <2>1. 1 .. taken'[h] = (1 .. taken[h]) \cup {taken[h] + 1}
    BY <1>3
  <2>2. Held(h)' = {Rows(h)[i] : i \in 1 .. taken'[h]}
    BY <1>2 DEF Held
  <2>3. QED BY <2>1, <2>2 DEF Held, Wanted
<1>6. QED BY <1>1, <1>2, <1>3, <1>4, <1>5

LEMMA HeldEffects ==
  ASSUME TypeOK, CallsOK, [Next]_vars, NEW h \in Calls
  PROVE  \/ Held(h)' = Held(h) /\ ~ Take(h)
         \/ Held(h)' = {} /\ taken'[h] = 0 /\ ~ Take(h)
         \/ Take(h) /\ Held(h)' = Held(h) \cup {Wanted(h)}
<1>1. call' \in [Calls -> CallType]
  BY CallEffects
<1>2. CASE Take(h)
  BY <1>1, <1>2, TakeEffects
<1>3. CASE ~ Take(h) /\ taken'[h] = 0
  BY <1>3 DEF Held
<1>4. CASE ~ Take(h) /\ call'[h] = call[h] /\ taken'[h] = taken[h]
  BY <1>1, <1>4, HoldersStay, HeldKept
<1>5. QED BY <1>2, <1>3, <1>4, CallEffects

LEMMA KeepsCallsOK ==
  ASSUME TypeOK, CallsOK, [Next]_vars
  PROVE  CallsOK'
<1>1. call' \in [Calls -> CallType]
  BY CallEffects
<1>2. ASSUME NEW h \in Calls
      PROVE  Shape(call'[h]) /\ taken'[h] <= Len(Rows(h)') /\ (pc'[h] # "running" => call'[h] = NoCall)
  <2>1. CASE Take(h)
    <3>1. SameCall(h) /\ Rows(h)' = Rows(h) /\ pc'[h] = "running" /\ taken'[h] <= Len(Rows(h))
      BY <1>1, <2>1, TakeEffects DEF Take, Wants
    <3>2. QED BY <3>1 DEF SameCall, Shape, CallsOK
  <2>2. CASE call'[h] = call[h] /\ taken'[h] = taken[h] /\ pc'[h] = pc[h]
    <3>1. taken'[h] <= Len(Rows(h)')
      BY <1>1, <2>2, HoldersStay, HeldKept
    <3>2. QED BY <2>2, <3>1 DEF CallsOK
  <2>3. CASE taken'[h] = 0 /\ Shape(call'[h]) /\ (pc'[h] # "running" => call'[h] = NoCall)
    <3>1. 0 <= Len(Rows(h)')
      BY DEF Rows
    <3>2. QED BY <2>3, <3>1
  <2>4. QED BY <2>1, <2>2, <2>3, CallEffects
<1>3. ASSUME NEW g \in Taps, bound'[g] # None
      PROVE  bearer'[g] \in Users
  <2>1. ASSUME NEW c \in Checkouts, NEW u \in Users, NEW t \in Taps, CreateTapToken(t, u, c)
        PROVE  bearer'[g] \in Users
    <3>1. g \in Grants
      BY DEF Grants
    <3>2. QED BY <1>3, <2>1, <3>1 DEF CreateTapToken, TypeOK, CallsOK
  <2>2. ASSUME NEW c \in Checkouts, NEW t \in Challenges, CreateChallenge(t, c)
        PROVE  bearer'[g] \in Users
    <3>1. t # g
      BY GrantsAssumption
    <3>2. QED BY <1>3, <2>2, <3>1 DEF CreateChallenge, TypeOK, CallsOK
  <2>3. CASE UNCHANGED <<bound, bearer>>
    BY <1>3, <2>3 DEF CallsOK
  <2>4. ASSUME NEW h \in Calls, Arrive(h)
        PROVE  UNCHANGED <<bound, bearer>>
    BY <2>4, Arrivals DEF Begin, grants
  <2>5. ASSUME NEW h \in Calls, Take(h) \/ Ends(h)
        PROVE  UNCHANGED <<bound, bearer>>
    BY <2>5 DEF Take, Ends, ExpireUnpaid, Refuse, Settle, Decline, Register, View, Download, Abort, grants
  <2>6. CASE Manage
    <3>1. \/ UNCHANGED <<bound, bearer>>
          \/ \E c \in Checkouts, u \in Users, t \in Taps : CreateTapToken(t, u, c)
          \/ \E c \in Checkouts, t \in Challenges : CreateChallenge(t, c)
      BY <2>6 DEF Manage, CreateMerchant, ApproveMerchant, IssueCard, UpdateControls, RevokeDevice,
                  CreateCheckout, Expire, CreatePass, grants
    <3>2. QED BY <2>1, <2>2, <2>3, <3>1
  <2>7. CASE UNCHANGED vars
    BY <2>3, <2>7 DEF vars, grants
  <2>8. QED BY <2>3, <2>4, <2>5, <2>6, <2>7, NextCases
<1>4. QED BY <1>1, <1>2, <1>3 DEF CallsOK, Kind

LEMMA KeepsLocksExclusive ==
  ASSUME TypeOK, CallsOK, LocksAreExclusive, [Next]_vars
  PROVE  LocksAreExclusive'
<1>1. SUFFICES ASSUME NEW g \in Calls, NEW h \in Calls, g # h
               PROVE  Held(g)' \cap Held(h)' = {}
  BY DEF LocksAreExclusive
<1>2. Held(g) \cap Held(h) = {}
  BY <1>1 DEF LocksAreExclusive
<1>3. ASSUME NEW x \in Calls, NEW y \in Calls, x # y, Take(x)
      PROVE  Held(y)' \cap Held(x)' \subseteq Held(y) \cap Held(x)
  <2>1. Wanted(x) \notin Held(y)
    BY <1>3 DEF Take, Free, Unlocked
  <2>2. ~ Take(y)
    <3>1. SUFFICES ASSUME Take(y) PROVE FALSE
      OBVIOUS
    <3>2. taken'[x] = taken[x] + 1 /\ taken'[x] = taken[x] /\ taken[x] \in Nat
      BY <1>3, <3>1 DEF Take, TypeOK
    <3>3. QED BY <3>2
  <2>3. QED BY <1>3, <2>1, <2>2, HeldEffects
<1>4. QED BY <1>1, <1>2, <1>3, HeldEffects

(* Every variable keeps its type: a payer is charged no more than they     *)
(* have, and a price is more than the merchant's fee.                      *)
LEMMA KeepsTypeOK ==
  ASSUME TypeOK, CallsOK, [Next]_vars
  PROVE  TypeOK'
<1> DEFINE Rest ==
  /\ merchant \in [Users -> {"none", "pending_review", "active"}]
  /\ card \in [Users -> Cards]
  /\ holder \in [Devices -> Users \cup {None}] /\ revoked \subseteq Devices
  /\ status \in [Checkouts -> Statuses]
  /\ payer \in [Checkouts -> Users \cup {None}]
  /\ late \subseteq Checkouts
  /\ bound \in [Grants -> Checkouts \cup {None}] /\ bearer \in [Taps -> Users \cup {None}]
  /\ links \subseteq Passes /\ used \subseteq Grants
  /\ balance \in [Users -> Nat]
  /\ charges \in [Checkouts -> [Users -> Nat]] /\ spentBy \in [Grants -> Nat]
  /\ events \in Nat
<1>0. Rest /\ call \in [Calls -> CallType] /\ \A h \in Calls : Shape(call[h])
  BY DEF TypeOK, CallsOK, Statuses
<1>1. call' \in [Calls -> CallType] /\ taken' \in [Calls -> Nat]
      /\ pc' \in [Calls -> {"idle", "running", "done"}]
  BY CallEffects
<1>2. ASSUME UNCHANGED <<accounts, devices, sales, late, grants, balance, history, events>>
      PROVE  Rest'
  BY <1>0, <1>2 DEF accounts, devices, sales, grants, history
<1>3. ASSUME NEW h \in Calls, Arrive(h) PROVE Rest'
  BY <1>2, <1>3, Arrivals DEF Begin
<1>4. ASSUME NEW h \in Calls, Take(h) PROVE Rest'
  BY <1>2, <1>4 DEF Take
<1>5. ASSUME NEW h \in Calls, Ends(h) PROVE Rest'
  <2>1. CASE Refuse(h) \/ Decline(h) \/ Abort(h)
    BY <1>2, <2>1 DEF Refuse, Decline, Abort
  <2>2. CASE ExpireUnpaid(h)
    <3>1. call[h].grant \in Grants \cup {None} /\ status' \in [Checkouts -> Statuses]
      BY <1>0, <2>2 DEF ExpireUnpaid, CallType, Statuses
    <3>2. used' \subseteq Grants
      BY <1>0, <2>2, <3>1 DEF ExpireUnpaid
    <3>3. UNCHANGED <<accounts, devices, payer, late, bound, bearer, links, balance, history, events>>
      BY <2>2 DEF ExpireUnpaid
    <3>4. QED BY <1>0, <3>1, <3>2, <3>3 DEF accounts, devices, history
  <2>3. CASE View(h)
    BY <1>0, <2>3 DEF View, Statuses, accounts, devices, grants, history
  <2>4. CASE Download(h)
    <3>1. call[h].grant \in Grants
      BY <1>0, <2>4 DEF Download, Shape, Kind
    <3>2. QED BY <1>0, <2>4, <3>1 DEF Download, accounts, devices, sales, history
  <2>5. CASE Register(h)
    <3>1. call[h].payer \in Users
      BY <1>0, <2>5 DEF Register, Shape, Kind
    <3>2. QED BY <1>0, <2>5, <3>1 DEF Register, accounts, sales, grants, history
  <2>6. CASE Settle(h)
    <3> DEFINE c == call[h].checkout
               p == call[h].payer
               s == Seller[c]
    <3>1. c \in Checkouts /\ p \in Users /\ s \in Users /\ call[h].grant \in Grants \cup {None}
      BY <1>0, <2>6, CheckoutsAssumption DEF Settle, IsPayment, Shape, Kind, CallType
    <3>2. Price[c] \in Nat /\ Price[c] >= 2 /\ Total(c) = Price[c] + 1 /\ Net(c) = Price[c] - 1
      BY <3>1, CheckoutsAssumption DEF Total, Net, USER_FEE_CENTS, MERCHANT_FEE_CENTS
    <3>3. PayerBalance(h) \in Nat /\ SellerBalance(h) \in Nat
      BY <1>0, <3>1 DEF PayerBalance, SellerBalance, CallType
    <3>4. PayerBalance(h) - Total(c) \in Nat /\ SellerBalance(h) + Net(c) \in Nat
      BY <2>6, <3>2, <3>3 DEF Settle, Affords
    <3>5. balance' = [balance EXCEPT ![p] = PayerBalance(h) - Total(c), ![s] = SellerBalance(h) + Net(c)]
      BY <2>6 DEF Settle
    <3>6. balance' \in [Users -> Nat]
      BY <1>0, <3>1, <3>4, <3>5
    <3>7. status' \in [Checkouts -> Statuses] /\ payer' \in [Checkouts -> Users \cup {None}]
          /\ charges' \in [Checkouts -> [Users -> Nat]]
      BY <1>0, <2>6, <3>1 DEF Settle, Statuses
    <3>8. used' \subseteq Grants /\ spentBy' \in [Grants -> Nat]
      BY <1>0, <2>6, <3>1 DEF Settle
    <3>9. UNCHANGED <<accounts, devices, late, bound, bearer, links, events>>
      BY <2>6 DEF Settle
    <3>10. QED BY <1>0, <3>6, <3>7, <3>8, <3>9 DEF accounts, devices
  <2>7. QED BY <1>5, <2>1, <2>2, <2>3, <2>4, <2>5, <2>6 DEF Ends
<1>6. ASSUME Manage PROVE Rest'
  <2>1. \A u \in Users : CreateMerchant(u) \/ ApproveMerchant(u) => Rest'
    BY <1>0 DEF CreateMerchant, ApproveMerchant, devices, sales, grants, history
  <2>2. ASSUME NEW u \in Users, NEW k \in Controls, IssueCard(u, k) \/ UpdateControls(u, k)
        PROVE  Rest'
    <3>1. card' \in [Users -> Cards] /\ events' \in Nat
      <4>1. k \in Cards
        BY DEF Cards
      <4>2. card' = [card EXCEPT ![u] = k] /\ (events' = events \/ events' = events + 1)
        BY <2>2 DEF IssueCard, UpdateControls
      <4>3. QED BY <1>0, <4>1, <4>2
    <3>2. UNCHANGED <<merchant, devices, sales, late, grants, balance, history>>
      BY <2>2 DEF IssueCard, UpdateControls
    <3>3. QED BY <1>0, <3>1, <3>2 DEF devices, sales, grants, history
  <2>3. \A d \in Devices : RevokeDevice(d) => Rest'
    BY <1>0 DEF RevokeDevice, accounts, sales, grants, history
  <2>4. \A c \in Checkouts : CreateCheckout(c) \/ Expire(c) => Rest'
    BY <1>0 DEF CreateCheckout, Expire, Statuses, accounts, devices, sales, grants, history
  <2>5. ASSUME NEW c \in Checkouts, NEW u \in Users, NEW g \in Taps, CreateTapToken(g, u, c)
        PROVE  Rest'
    <3>1. bound' \in [Grants -> Checkouts \cup {None}] /\ bearer' \in [Taps -> Users \cup {None}]
      BY <1>0, <2>5 DEF CreateTapToken
    <3>2. QED BY <1>0, <2>5, <3>1 DEF CreateTapToken, accounts, devices, sales, history
  <2>6. \A c \in Checkouts, g \in Challenges : CreateChallenge(g, c) => Rest'
    BY <1>0 DEF CreateChallenge, accounts, devices, sales, history
  <2>7. \A g \in Passes, u \in Users : CreatePass(g, u) => Rest'
    BY <1>0 DEF CreatePass, accounts, devices, sales, history
  <2> HIDE DEF Rest
  <2>8. QED BY <1>6, <2>1, <2>2, <2>3, <2>4, <2>5, <2>6, <2>7 DEF Manage
<1>7. ASSUME UNCHANGED vars PROVE Rest'
  BY <1>2, <1>7 DEF vars
<1>8. Rest'
  <2> HIDE DEF Rest
  <2>1. QED BY <1>3, <1>4, <1>5, <1>6, <1>7, NextCases
<1>9. \A h \in Calls : Kind(h)' \in Kinds
  BY <1>1 DEF Kind, CallType
<1>10. QED BY <1>1, <1>8, <1>9 DEF TypeOK, Statuses, Kinds

----------------------------------------------------------------------------
(* Grants *)

LEMMA GrantRow ==
  ASSUME CallsOK, NEW h \in Calls, call[h].grant # None
  PROVE  /\ Kind(h) \in {"tap", "nfc", "download"} /\ call[h].grant \in Grants
         /\ Len(Rows(h)) >= 1 /\ Rows(h)[1] = <<"grant", call[h].grant>>
<1>1. Kind(h) \in {"tap", "nfc", "download"} /\ call[h].grant \in Grants
  <2>1. Shape(call[h]) /\ call[h].kind \in Kinds
    BY DEF CallsOK, CallType
  <2>2. QED BY <2>1 DEF Shape, Kinds, Kind
<1>2. CASE Kind(h) = "download"
  BY <1>1, <1>2 DEF Rows
<1>3. CASE Kind(h) # "download"
  <2>1. Before(h) \in {1, 2}
    BY <1>1, <1>3 DEF Before
  <2>2. IsPayment(h)
    BY <1>1, <1>3 DEF IsPayment
  <2>3. Len(Rows(h)) = Before(h) + 5 /\ Rows(h)[1] = <<"grant", call[h].grant>>
    BY <2>1, <2>2, RowsOfPayment
  <2>4. QED BY <1>1, <2>1, <2>3
<1>4. QED BY <1>2, <1>3

(* A call that has its grant's row locked holds it. *)
LEMMA GrantHeld ==
  ASSUME TypeOK, CallsOK, NEW h \in Calls, call[h].grant # None, taken[h] >= 1
  PROVE  <<"grant", call[h].grant>> \in Held(h)
<1>1. 1 \in 1 .. taken[h]
  BY DEF TypeOK
<1>2. QED BY <1>1, GrantRow DEF Held

(* Only a call that holds its grant's row uses the grant up. *)
LEMMA GrantEffects ==
  ASSUME TypeOK, CallsOK, [Next]_vars
  PROVE  \/ used' = used /\ spentBy' = spentBy
         \/ \E h \in Calls :
              /\ Done(h) /\ (call[h].grant # None => taken[h] >= 1)
              /\ used' = used \cup ({call[h].grant} \ {None})
              /\ \/ spentBy' = spentBy
                 \/ spentBy' = [g \in Grants |-> spentBy[g] + (IF g = call[h].grant THEN 1 ELSE 0)]
<1> DEFINE Uses(h) ==
             /\ Done(h) /\ (call[h].grant # None => taken[h] >= 1)
             /\ used' = used \cup ({call[h].grant} \ {None})
             /\ \/ spentBy' = spentBy
                \/ spentBy' = [g \in Grants |-> spentBy[g] + (IF g = call[h].grant THEN 1 ELSE 0)]
           Same == used' = used /\ spentBy' = spentBy
<1>1. ASSUME NEW h \in Calls, ExpireUnpaid(h) PROVE Uses(h)
  <2>1. call[h].grant # None => taken[h] >= 1
    <3>1. SUFFICES ASSUME call[h].grant # None, ~ (taken[h] >= 1) PROVE FALSE
      OBVIOUS
    <3>2. taken[h] = 0
      BY <3>1 DEF TypeOK
    <3>3. Wanted(h) = <<"grant", call[h].grant>>
      BY <3>1, <3>2, GrantRow DEF Wanted
    <3>4. QED BY <1>1, <3>3 DEF ExpireUnpaid
  <2>2. QED BY <1>1, <2>1 DEF ExpireUnpaid, history
<1>2. ASSUME NEW h \in Calls, Settle(h) PROVE Uses(h)
  <2>1. call[h].grant # None => taken[h] >= 1
    <3>1. taken[h] = Len(Rows(h))
      <4>1. taken[h] \in Nat /\ taken[h] <= Len(Rows(h)) /\ ~ (taken[h] < Len(Rows(h)))
        BY <1>2 DEF Settle, AllLocked, Wants, TypeOK, CallsOK
      <4>2. Len(Rows(h)) \in Int
        BY <1>2, RowsOfPayment DEF Settle
      <4>3. QED BY <4>1, <4>2
    <3>2. QED BY <3>1, GrantRow
  <2>2. Done(h) /\ used' = used \cup ({call[h].grant} \ {None})
    BY <1>2 DEF Settle
  <2>3. spentBy' = [g \in Grants |-> spentBy[g] + (IF g = call[h].grant THEN 1 ELSE 0)]
    BY <1>2 DEF Settle
  <2>4. QED BY <2>1, <2>2, <2>3
<1>3. ASSUME NEW h \in Calls, Download(h) PROVE Uses(h)
  <2>1. call[h].grant \in Grants /\ call[h].grant # None
    BY <1>3, GrantsAssumption DEF Download, CallsOK, Shape, Kind
  <2>2. taken[h] >= 1
    <3>1. ~ (taken[h] < 1) /\ taken[h] \in Nat
      BY <1>3 DEF Download, AllLocked, Wants, TypeOK, Rows
    <3>2. QED BY <3>1
  <2>3. spentBy' = [g \in Grants |-> spentBy[g] + (IF g = call[h].grant THEN 1 ELSE 0)]
    <3>1. spentBy \in [Grants -> Nat]
      BY DEF TypeOK
    <3>2. spentBy' = [spentBy EXCEPT ![call[h].grant] = @ + 1]
      BY <1>3 DEF Download
    <3>3. \A g \in Grants : spentBy[g] + 0 = spentBy[g]
      BY <3>1
    <3>4. QED BY <2>1, <3>1, <3>2, <3>3
  <2>4. QED BY <1>3, <2>1, <2>2, <2>3 DEF Download
<1>4. ASSUME NEW h \in Calls, Arrive(h) PROVE Same
  BY <1>4, Arrivals DEF Begin, grants, history
<1>5. ASSUME NEW h \in Calls, Take(h) PROVE Same
  BY <1>5 DEF Take, grants, history
<1>6. ASSUME NEW h \in Calls, Refuse(h) \/ Decline(h) \/ Register(h) \/ View(h) \/ Abort(h) PROVE Same
  BY <1>6 DEF Refuse, Decline, Register, View, Abort, grants, history
<1>7. ASSUME Manage PROVE Same
  BY <1>7 DEF Manage, CreateMerchant, ApproveMerchant, IssueCard, UpdateControls, RevokeDevice,
              CreateCheckout, Expire, CreateTapToken, CreateChallenge, CreatePass, grants, history
<1>8. ASSUME UNCHANGED vars PROVE Same
  BY <1>8 DEF vars, grants, history
<1> HIDE DEF Uses, Same
<1>9. Same \/ \E h \in Calls : Uses(h)
  BY <1>1, <1>2, <1>3, <1>4, <1>5, <1>6, <1>7, <1>8, NextCases DEF Ends
<1>10. QED BY <1>9 DEF Uses, Same

LEMMA KeepsGrantsFresh ==
  ASSUME TypeOK, CallsOK, LocksAreExclusive, GrantsAreFresh, [Next]_vars
  PROVE  GrantsAreFresh'
<1>1. ASSUME NEW h \in Calls, call'[h].grant # None, taken'[h] >= 1
      PROVE  call'[h].grant \notin used'
  <2>1. CASE Take(h)
    <3>1. used' = used
      BY <2>1 DEF Take, grants
    <3>2. SameCall(h)
      BY <2>1, CallEffects, TakeEffects
    <3>3. call[h].grant # None
      BY <1>1, <3>2 DEF SameCall
    <3>4. CASE taken[h] = 0
      <4>1. Wanted(h) = <<"grant", call[h].grant>> /\ Kind(h) # "register"
        BY <3>3, <3>4, GrantRow DEF Wanted
      <4>2. call[h].grant \notin used
        BY <2>1, <4>1 DEF Take, Admits
      <4>3. QED BY <3>1, <3>2, <4>2 DEF SameCall
    <3>5. CASE taken[h] >= 1
      BY <3>1, <3>2, <3>3, <3>5 DEF SameCall, GrantsAreFresh
    <3>6. QED BY <3>4, <3>5 DEF TypeOK
  <2>2. CASE call'[h] = call[h] /\ taken'[h] = taken[h] /\ ~ Take(h)
    <3>1. call[h].grant \notin used
      BY <1>1, <2>2 DEF GrantsAreFresh
    <3>2. SUFFICES ASSUME used' # used PROVE call[h].grant \notin used'
      BY <2>2, <3>1
    <3>3. PICK g \in Calls : /\ Done(g) /\ (call[g].grant # None => taken[g] >= 1)
                             /\ used' = used \cup ({call[g].grant} \ {None})
      BY <3>2, GrantEffects
    <3>4. g # h
      BY <1>1, <3>3 DEF Done, TypeOK
    <3>5. call[g].grant # None
      BY <3>2, <3>3
    <3>6. <<"grant", call[g].grant>> \in Held(g) /\ <<"grant", call[h].grant>> \in Held(h)
      BY <1>1, <2>2, <3>3, <3>5, GrantHeld
    <3>7. <<"grant", call[g].grant>> # <<"grant", call[h].grant>>
      BY <3>4, <3>6 DEF LocksAreExclusive
    <3>8. QED BY <3>1, <3>3, <3>7
  <2>3. QED BY <1>1, <2>1, <2>2, CallEffects
<1>2. ASSUME NEW g \in Grants
      PROVE  spentBy'[g] = 0 \/ (spentBy'[g] = 1 /\ g \in used')
  <2>1. spentBy[g] = 0 \/ (spentBy[g] = 1 /\ g \in used)
    BY DEF GrantsAreFresh
  <2>2. CASE spentBy' = spentBy /\ used \subseteq used'
    BY <2>1, <2>2
  <2>3. ASSUME NEW h \in Calls, call[h].grant # None => taken[h] >= 1,
               used' = used \cup ({call[h].grant} \ {None}),
               spentBy' = [x \in Grants |-> spentBy[x] + (IF x = call[h].grant THEN 1 ELSE 0)]
        PROVE  spentBy'[g] = 0 \/ (spentBy'[g] = 1 /\ g \in used')
    <3>1. CASE g = call[h].grant
      <4>1. g # None
        BY GrantsAssumption
      <4>2. g \notin used
        BY <2>3, <3>1, <4>1 DEF GrantsAreFresh
      <4>3. QED BY <2>1, <2>3, <3>1, <4>1, <4>2
    <3>2. CASE g # call[h].grant
      BY <2>1, <2>3, <3>2
    <3>3. QED BY <3>1, <3>2
  <2>4. QED BY <2>2, <2>3, GrantEffects
<1>3. QED BY <1>1, <1>2 DEF GrantsAreFresh

----------------------------------------------------------------------------
(* Checkouts *)

(* The checkout of a payment that is past its lock, and of a view, is held. *)
LEMMA CheckoutHeld ==
  ASSUME TypeOK, CallsOK, NEW h \in Calls,
         \/ IsPayment(h) /\ taken[h] > Before(h)
         \/ Kind(h) = "view" /\ taken[h] >= 1
  PROVE  <<"checkout", call[h].checkout>> \in Held(h)
<1>1. CASE IsPayment(h) /\ taken[h] > Before(h)
  <2>1. Before(h) \in 0 .. 2 /\ Rows(h)[Before(h) + 1] = <<"checkout", call[h].checkout>>
    BY <1>1, RowsOfPayment
  <2>2. Before(h) + 1 \in 1 .. taken[h]
    BY <1>1, <2>1 DEF TypeOK
  <2>3. QED BY <2>1, <2>2 DEF Held
<1>2. CASE Kind(h) = "view" /\ taken[h] >= 1
  <2>1. Rows(h)[1] = <<"checkout", call[h].checkout>> /\ 1 \in 1 .. taken[h]
    BY <1>2 DEF Rows, TypeOK
  <2>2. QED BY <2>1 DEF Held
<1>3. QED BY <1>1, <1>2

(* A payment that wants the merchant's row has locked the checkout's. *)
LEMMA WantsMerchant ==
  ASSUME TypeOK, CallsOK, NEW h \in Calls, Wants(h), Wanted(h)[1] = "merchant"
  PROVE  IsPayment(h) /\ taken[h] = Before(h) + 1
<1>1. taken[h] \in Nat /\ taken[h] < Len(Rows(h))
  BY DEF TypeOK, Wants
<1>2. IsPayment(h)
  <2>1. Kind(h) \in Kinds
    BY DEF CallsOK, CallType, Kind
  <2>2. Kind(h) # "register"
    <3>1. SUFFICES ASSUME Kind(h) = "register" PROVE FALSE
      OBVIOUS
    <3>2. taken[h] \in {0, 1}
      <4>1. Len(Rows(h)) = 1 \/ Len(Rows(h)) = 2
        BY <3>1, RegisterRows
      <4>2. ASSUME NEW i \in Nat, NEW n, i < n, n = 1 \/ n = 2 PROVE i \in {0, 1}
        BY <4>2
      <4>3. QED BY <1>1, <4>1, <4>2
    <3>3. Len(Rows(h)) = 1 \/ Rows(h)[2] = <<"device", call[h].device>>
      BY <3>1, RegisterRows
    <3>4. Rows(h)[1] = <<"card", call[h].payer>>
      BY <3>1, RegisterRows
    <3>5. QED BY <1>1, <3>2, <3>3, <3>4 DEF Wanted
  <2>3. Kind(h) # "view"
    BY <1>1 DEF Rows, Wanted
  <2>4. Kind(h) # "download"
    BY <1>1 DEF Rows, Wanted
  <2>5. Kind(h) # "none"
    BY <1>1 DEF Rows
  <2>6. QED BY <2>1, <2>2, <2>3, <2>4, <2>5 DEF IsPayment, Kinds
<1>3. taken[h] = Before(h) + 1
  <2> DEFINE n == Before(h)
             i == taken[h] + 1
  <2>1. n \in 0 .. 2 /\ i \in 1 .. n + 5
    BY <1>1, <1>2, RowsOfPayment
  <2>2. Rows(h)[i][1] = "merchant"
    BY DEF Wanted
  <2>3. i # n + 1 /\ i # n + 3 /\ i # n + 4 /\ i # n + 5
    BY <1>2, <2>2, RowsOfPayment
  <2>4. n >= 1 => i # 1
    BY <1>2, <2>2, RowsOfPayment
  <2>5. n = 2 => i # 2
    BY <1>2, <2>2, RowsOfPayment
  <2>6. QED BY <1>1, <2>1, <2>3, <2>4, <2>5
<1>4. QED BY <1>2, <1>3

LEMMA SettleRows ==
  ASSUME TypeOK, CallsOK, NEW h \in Calls, IsPayment(h), AllLocked(h)
  PROVE  taken[h] = Before(h) + 5 /\ Before(h) \in 0 .. 2
<1>1. taken[h] \in Nat /\ taken[h] <= Len(Rows(h)) /\ ~ (taken[h] < Len(Rows(h)))
  BY DEF AllLocked, Wants, TypeOK, CallsOK
<1>2. QED BY <1>1, RowsOfPayment

(* Who changes the state of a checkout: one that creates it, or a call     *)
(* that holds its row.                                                     *)
LEMMA CheckoutEffects ==
  ASSUME TypeOK, CallsOK, ExpiredIsLate, [Next]_vars
  PROVE  /\ late \subseteq late'
         /\ \/ status' = status /\ payer' = payer /\ charges' = charges
            \/ /\ UNCHANGED <<payer, charges>>
               /\ \E c \in Checkouts : status[c] = "none" /\ status' = [status EXCEPT ![c] = "open"]
            \/ \E h \in Calls :
                 LET c == call[h].checkout
                 IN  /\ Done(h) /\ c \in Checkouts /\ <<"checkout", c>> \in Held(h)
                     /\ \/ Settle(h)
                        \/ /\ status' = [status EXCEPT ![c] = "expired"] /\ c \in late
                           /\ UNCHANGED <<payer, charges>>
<1> DEFINE Same == status' = status /\ payer' = payer /\ charges' = charges
           Created == /\ UNCHANGED <<payer, charges>>
                      /\ \E c \in Checkouts : status[c] = "none" /\ status' = [status EXCEPT ![c] = "open"]
           By(h) == LET c == call[h].checkout
                    IN  /\ Done(h) /\ c \in Checkouts /\ <<"checkout", c>> \in Held(h)
                        /\ \/ Settle(h)
                           \/ /\ status' = [status EXCEPT ![c] = "expired"] /\ c \in late
                              /\ UNCHANGED <<payer, charges>>
<1>1. ASSUME NEW h \in Calls, ExpireUnpaid(h) PROVE By(h) /\ late' = late
  <2>1. IsPayment(h) /\ taken[h] = Before(h) + 1
    BY <1>1, WantsMerchant DEF ExpireUnpaid
  <2>2. Before(h) \in 0 .. 2
    BY <2>1, RowsOfPayment
  <2>3. <<"checkout", call[h].checkout>> \in Held(h)
    BY <2>1, <2>2, CheckoutHeld
  <2>4. call[h].checkout \in Checkouts
    BY <2>1 DEF CallsOK, Shape, IsPayment, Kind
  <2>5. QED BY <1>1, <2>3, <2>4 DEF ExpireUnpaid, TimeUp, history
<1>2. ASSUME NEW h \in Calls, View(h) PROVE By(h) /\ late' = late
  <2>1. Kind(h) = "view" /\ call[h].checkout \in Checkouts /\ call[h].checkout \in late
    BY <1>2 DEF View, CallsOK, Shape, Kind, ExpiredIsLate
  <2>2. ~ (taken[h] < 1) /\ taken[h] \in Nat
    BY <1>2, <2>1 DEF View, AllLocked, Wants, TypeOK, Rows
  <2>3. <<"checkout", call[h].checkout>> \in Held(h)
    BY <2>1, <2>2, CheckoutHeld
  <2>4. QED BY <1>2, <2>1, <2>3 DEF View, history
<1>3. ASSUME NEW h \in Calls, Settle(h) PROVE By(h) /\ late' = late
  <2>1. IsPayment(h) /\ taken[h] = Before(h) + 5 /\ Before(h) \in 0 .. 2
    BY <1>3, SettleRows DEF Settle
  <2>2. <<"checkout", call[h].checkout>> \in Held(h)
    BY <2>1, CheckoutHeld
  <2>3. call[h].checkout \in Checkouts
    BY <2>1 DEF CallsOK, Shape, IsPayment, Kind
  <2>4. late' = late /\ Done(h)
    BY <1>3 DEF Settle
  <2>5. QED BY <1>3, <2>2, <2>3, <2>4
<1>4. ASSUME NEW h \in Calls, Arrive(h) PROVE Same /\ late' = late
  BY <1>4, Arrivals DEF Begin, sales, history
<1>5. ASSUME NEW h \in Calls, Take(h) PROVE Same /\ late' = late
  BY <1>5 DEF Take, sales, history
<1>6. ASSUME NEW h \in Calls, Refuse(h) \/ Decline(h) \/ Register(h) \/ Download(h) \/ Abort(h)
      PROVE  Same /\ late' = late
  BY <1>6 DEF Refuse, Decline, Register, Download, Abort, sales, history
<1>7. ASSUME Manage PROVE (Same \/ Created) /\ late \subseteq late'
  BY <1>7 DEF Manage, CreateMerchant, ApproveMerchant, IssueCard, UpdateControls, RevokeDevice,
              CreateCheckout, Expire, CreateTapToken, CreateChallenge, CreatePass, sales, history
<1>8. ASSUME UNCHANGED vars PROVE Same /\ late' = late
  BY <1>8 DEF vars, sales, history
<1> HIDE DEF Same, Created, By
<1>9. late \subseteq late' /\ (Same \/ Created \/ \E h \in Calls : By(h))
  BY <1>1, <1>2, <1>3, <1>4, <1>5, <1>6, <1>7, <1>8, NextCases DEF Ends
<1>10. QED BY <1>9 DEF Same, Created, By

LEMMA KeepsExpiredIsLate ==
  ASSUME TypeOK, CallsOK, ExpiredIsLate, [Next]_vars
  PROVE  ExpiredIsLate'
<1>1. ASSUME NEW c \in Checkouts, status'[c] = "expired"
      PROVE  c \in late'
  <2>1. CASE status[c] = "expired"
    BY <2>1, CheckoutEffects DEF ExpiredIsLate
  <2>2. CASE status[c] # "expired"
    <3>1. ASSUME NEW h \in Calls, Settle(h), call[h].checkout \in Checkouts
          PROVE  FALSE
      BY <1>1, <2>2, <3>1 DEF Settle, TypeOK
    <3>2. c \in late /\ late \subseteq late'
      BY <1>1, <2>2, <3>1, CheckoutEffects DEF TypeOK
    <3>3. QED BY <3>2
  <2>3. QED BY <2>1, <2>2
<1>2. ASSUME NEW h \in Calls, Kind(h)' = "view"
      PROVE  call'[h].checkout \in late'
  <2>1. late \subseteq late'
    BY CheckoutEffects
  <2>2. CASE Take(h)
    <3>1. SameCall(h)
      BY <2>2, CallEffects, TakeEffects
    <3>2. QED BY <1>2, <2>1, <3>1 DEF SameCall, Kind, ExpiredIsLate
  <2>3. CASE call'[h] = call[h]
    BY <1>2, <2>1, <2>3 DEF Kind, ExpiredIsLate
  <2>4. QED BY <1>2, <2>1, <2>2, <2>3, CallEffects
<1>3. QED BY <1>1, <1>2 DEF ExpiredIsLate

(* The rows of a payment that are locked, one by one *)
LEMMA PastHolds ==
  ASSUME TypeOK, CallsOK, NEW h \in Calls
  PROVE  /\ Past(h, 2) => taken[h] > Before(h)
         /\ Past(h, 3) => <<"card", call[h].payer>> \in Held(h)
<1>1. ASSUME IsPayment(h) PROVE Before(h) \in 0 .. 2 /\ taken[h] \in Nat
                               /\ Rows(h)[Before(h) + 3] = <<"card", call[h].payer>>
  BY <1>1, RowsOfPayment DEF TypeOK
<1>2. ASSUME Past(h, 2) PROVE taken[h] > Before(h)
  BY <1>1, <1>2 DEF Past
<1>3. ASSUME Past(h, 3) PROVE <<"card", call[h].payer>> \in Held(h)
  <2>1. Before(h) + 3 \in 1 .. taken[h]
    BY <1>1, <1>3 DEF Past
  <2>2. QED BY <1>1, <1>3, <2>1 DEF Past, Held
<1>4. QED BY <1>2, <1>3

----------------------------------------------------------------------------
(* What a payer has spent *)

Sales(u)  == {c \in Checkouts : status[c] = "completed" /\ payer[c] = u}
Totals    == [c \in Checkouts |-> Total(c)]

LEMMA SpentIs ==
  ASSUME NEW u
  PROVE  /\ Spent(u) = SumFunctionOnSet(Totals, Sales(u)) /\ Spent(u)' = SumFunctionOnSet(Totals, Sales(u)')
         /\ Sales(u) \subseteq Checkouts /\ Sales(u)' \subseteq Checkouts
BY DEF Spent, Sales, Totals, Total

LEMMA TotalsNat ==
  /\ IsFiniteSet(Checkouts)
  /\ \A c \in Checkouts : Totals[c] = Total(c) /\ Total(c) \in Nat
<1>1. \A c \in Checkouts : Price[c] \in Nat
  BY CheckoutsAssumption
<1>2. QED BY <1>1, FiniteAssumption DEF Totals, Total, USER_FEE_CENTS

(* Fewer sales make no greater sum. *)
LEMMA SpentShrinks ==
  ASSUME NEW u, Sales(u)' \subseteq Sales(u)
  PROVE  Spent(u) \in Nat /\ Spent(u)' \in Nat /\ Spent(u)' <= Spent(u)
<1>1. IsFiniteSet(Sales(u)) /\ IsFiniteSet(Sales(u)')
  BY SpentIs, TotalsNat, FS_Subset
<1>2. \A c \in Sales(u) : Totals[c] \in Nat
  BY SpentIs, TotalsNat
<1>3. 0 <= SumFunctionOnSet(Totals, Sales(u)')
      /\ SumFunctionOnSet(Totals, Sales(u)') <= SumFunctionOnSet(Totals, Sales(u))
  BY <1>1, <1>2, SumMonotone
<1>4. SumFunctionOnSet(Totals, Sales(u)) \in Int /\ SumFunctionOnSet(Totals, Sales(u)') \in Int
  BY <1>1, <1>2, SumInt
<1>5. QED BY <1>3, <1>4, SpentIs

(* One more sale adds its total, or nothing if it was counted before. *)
LEMMA SpentGrows ==
  ASSUME NEW u, NEW c \in Checkouts, Sales(u)' \subseteq Sales(u) \cup {c}
  PROVE  Spent(u) \in Nat /\ Spent(u)' \in Nat /\ Spent(u)' <= Spent(u) + Total(c)
<1>1. IsFiniteSet(Sales(u)) /\ IsFiniteSet(Sales(u) \cup {c})
  BY SpentIs, TotalsNat, FS_Subset, FS_AddElement
<1>2. \A d \in Sales(u) \cup {c} : Totals[d] \in Nat
  BY SpentIs, TotalsNat
<1>3. 0 <= SumFunctionOnSet(Totals, Sales(u)')
      /\ SumFunctionOnSet(Totals, Sales(u)') <= SumFunctionOnSet(Totals, Sales(u) \cup {c})
  BY <1>1, <1>2, SumMonotone
<1>4. SumFunctionOnSet(Totals, Sales(u) \cup {c}) <= SumFunctionOnSet(Totals, Sales(u)) + Total(c)
  <2>1. Total(c) \in Nat /\ Totals[c] = Total(c)
    BY TotalsNat
  <2>2. SumFunctionOnSet(Totals, Sales(u)) \in Int
    BY <1>1, <1>2, SumInt
  <2>3. CASE c \in Sales(u)
    <3>1. Sales(u) \cup {c} = Sales(u)
      BY <2>3
    <3>2. \A m, n : m \in Int /\ n \in Nat => m <= m + n
      OBVIOUS
    <3>3. SumFunctionOnSet(Totals, Sales(u)) <= SumFunctionOnSet(Totals, Sales(u)) + Total(c)
      BY <2>1, <2>2, <3>2
    <3>4. QED BY <3>1, <3>3
  <2>4. CASE c \notin Sales(u)
    <3>1. SumFunctionOnSet(Totals, Sales(u) \cup {c}) = SumFunctionOnSet(Totals, Sales(u)) + Totals[c]
      BY <1>1, <1>2, <2>4, SumAdd
    <3>2. QED BY <2>1, <2>2, <3>1
  <2>5. QED BY <2>3, <2>4
<1>5. /\ SumFunctionOnSet(Totals, Sales(u)) \in Int /\ SumFunctionOnSet(Totals, Sales(u)') \in Int
      /\ 0 <= SumFunctionOnSet(Totals, Sales(u))
  <2>1. IsFiniteSet(Sales(u)') /\ Sales(u) \in SUBSET Sales(u)
    BY SpentIs, TotalsNat, FS_Subset
  <2>2. \A d \in Sales(u)' : Totals[d] \in Int
    BY SpentIs, TotalsNat
  <2>3. 0 <= SumFunctionOnSet(Totals, Sales(u))
    BY <1>1, <1>2, <2>1, SumMonotone
  <2>4. QED BY <1>1, <1>2, <2>1, <2>2, <2>3, SumInt
<1>6. Total(c) \in Nat /\ SumFunctionOnSet(Totals, Sales(u) \cup {c}) \in Int
  BY <1>1, <1>2, TotalsNat, SumInt
<1>7. ASSUME NEW a, NEW b, NEW m, NEW t, a \in Int, b \in Int, m \in Int, t \in Nat,
             0 <= a, 0 <= b, b <= m, m <= a + t
      PROVE  a \in Nat /\ b \in Nat /\ b <= a + t
  BY <1>7
<1>8. /\ SumFunctionOnSet(Totals, Sales(u)) \in Nat /\ SumFunctionOnSet(Totals, Sales(u)') \in Nat
      /\ SumFunctionOnSet(Totals, Sales(u)') <= SumFunctionOnSet(Totals, Sales(u)) + Total(c)
  BY <1>3, <1>4, <1>5, <1>6, <1>7
<1>9. QED BY <1>8, SpentIs

(* Only a payer's own settlement adds to what the payer has spent. *)
LEMMA SpentEffects ==
  ASSUME TypeOK, CallsOK, ExpiredIsLate, [Next]_vars, NEW u \in Users
  PROVE  \/ Sales(u)' \subseteq Sales(u)
         \/ \E h \in Calls : /\ Settle(h) /\ call[h].payer = u /\ call[h].checkout \in Checkouts
                             /\ Sales(u)' \subseteq Sales(u) \cup {call[h].checkout}
<1>1. ASSUME NEW h \in Calls, call[h].checkout \in Checkouts, Settle(h)
      PROVE  \/ Sales(u)' \subseteq Sales(u)
             \/ call[h].payer = u /\ Sales(u)' \subseteq Sales(u) \cup {call[h].checkout}
  BY <1>1 DEF Settle, Sales, TypeOK
<1>2. ASSUME NEW c \in Checkouts, payer' = payer,
             status' = [status EXCEPT ![c] = "open"] \/ status' = [status EXCEPT ![c] = "expired"]
      PROVE  Sales(u)' \subseteq Sales(u)
  BY <1>2 DEF Sales, TypeOK
<1>3. status' = status /\ payer' = payer => Sales(u)' \subseteq Sales(u)
  BY DEF Sales
<1>4. QED BY <1>1, <1>2, <1>3, CheckoutEffects

----------------------------------------------------------------------------
(* What a payment has checked stays true while it holds the rows. *)

LEMMA EndedHoldsNothing ==
  ASSUME TypeOK, NEW h \in Calls, Done(h)
  PROVE  taken'[h] = 0 /\ \A n \in {2, 3} : ~ Past(h, n)'
<1>1. taken'[h] = 0
  BY DEF Done, TypeOK
<1>2. Before(h)' \in Nat
  BY DEF Before
<1>3. QED BY <1>1, <1>2 DEF Past

(* The step that makes a payment pass a row is the one that checks it. *)
LEMMA Passing ==
  ASSUME TypeOK, CallsOK, call' \in [Calls -> CallType], NEW h \in Calls, Take(h)
  PROVE  /\ Past(h, 2)' => IsPayment(h) /\ (Past(h, 2) \/ (Payable(h) /\ ~ TimeUp(h)
                                               /\ Seller[call[h].checkout] # call[h].payer))
         /\ Past(h, 3)' => IsPayment(h) /\ (Past(h, 3) \/ WithinLimits(h))
<1>1. SameCall(h) /\ taken'[h] = taken[h] + 1 /\ taken[h] \in Nat
  BY TakeEffects DEF TypeOK
<1>2. (IsPayment(h)' <=> IsPayment(h)) /\ Before(h)' = Before(h)
  BY <1>1 DEF SameCall, IsPayment, Before, Kind
<1>3. SUFFICES ASSUME IsPayment(h)
               PROVE  /\ Past(h, 2)' => Past(h, 2) \/ (Payable(h) /\ ~ TimeUp(h)
                                               /\ Seller[call[h].checkout] # call[h].payer)
                      /\ Past(h, 3)' => Past(h, 3) \/ WithinLimits(h)
  BY <1>2 DEF Past
<1>4. Before(h) \in 0 .. 2 /\ Kind(h) # "register"
  BY <1>3, RowsOfPayment DEF IsPayment
<1>5. ASSUME NEW n \in {2, 3}, Past(h, n)', ~ Past(h, n)
      PROVE  Wanted(h) = Rows(h)[Before(h) + n]
  <2>1. taken[h] + 1 = Before(h) + n
    BY <1>1, <1>2, <1>3, <1>4, <1>5 DEF Past
  <2>2. QED BY <2>1 DEF Wanted
<1>6. ASSUME Past(h, 2)', ~ Past(h, 2)
      PROVE  Payable(h) /\ ~ TimeUp(h) /\ Seller[call[h].checkout] # call[h].payer
  <2>1. Wanted(h)[1] = "merchant"
    BY <1>3, <1>5, <1>6, RowsOfPayment
  <2>2. QED BY <1>4, <2>1 DEF Take, Admits
<1>7. ASSUME Past(h, 3)', ~ Past(h, 3)
      PROVE  WithinLimits(h)
  <2>1. Wanted(h)[1] = "card"
    BY <1>3, <1>5, <1>7, RowsOfPayment
  <2>2. QED BY <1>4, <2>1 DEF Take, Admits
<1>8. QED BY <1>6, <1>7

(* The card a payment is checked against has controls a member has set. *)
LEMMA LimitIsSet ==
  ASSUME TypeOK, CallsOK, NEW h \in Calls, IsPayment(h), WithinLimits(h)
  PROVE  \E k \in Controls : Spent(call[h].payer) + Total(call[h].checkout) <= k.daily
<1>1. call[h].payer \in Users /\ call[h].card \in Cards
  BY DEF CallsOK, CallType, Shape, IsPayment, Kind
<1>2. CardSeen(h) \in Cards
  BY <1>1 DEF CardSeen, TypeOK
<1>3. CardSeen(h) \in Controls
  BY <1>2 DEF Cards, NoCard, WithinLimits
<1>4. QED BY <1>3 DEF WithinLimits

LEMMA KeepsChecked ==
  ASSUME TypeOK, CallsOK, LocksAreExclusive, ExpiredIsLate, Checked, [Next]_vars
  PROVE  Checked'
<1>0. call' \in [Calls -> CallType]
  BY CallEffects
<1>1. ASSUME NEW h \in Calls, Past(h, 2)'
      PROVE  Seller[call'[h].checkout] # call'[h].payer /\ status'[call'[h].checkout] # "expired"
  <2>1. CASE Take(h)
    <3>1. SameCall(h) /\ status' = status
      BY <1>0, <2>1, TakeEffects DEF Take, sales
    <3>2. call[h].checkout \in Checkouts
      BY <1>0, <1>1, <2>1, Passing DEF CallsOK, Shape, IsPayment, Kind
    <3>3. Seller[call[h].checkout] # call[h].payer /\ status[call[h].checkout] # "expired"
      BY <1>0, <1>1, <2>1, <3>2, Passing DEF Checked, TimeUp, ExpiredIsLate
    <3>4. QED BY <3>1, <3>3 DEF SameCall
  <2>2. CASE call'[h] = call[h] /\ taken'[h] = taken[h]
    <3> DEFINE c == call[h].checkout
    <3>1. Past(h, 2)
      BY <1>1, <2>2 DEF Past, IsPayment, Before, Kind
    <3>2. Seller[c] # call[h].payer /\ status[c] # "expired" /\ c \in Checkouts
      BY <3>1 DEF Checked, Past, CallsOK, Shape, IsPayment, Kind
    <3>3. <<"checkout", c>> \in Held(h)
      BY <3>1, PastHolds, CheckoutHeld DEF Past
    <3>4. ASSUME NEW g \in Calls, Done(g), <<"checkout", call[g].checkout>> \in Held(g)
          PROVE  call[g].checkout # c
      <4>1. g # h
        BY <1>1, <3>4, EndedHoldsNothing
      <4>2. <<"checkout", call[g].checkout>> # <<"checkout", c>>
        BY <3>3, <3>4, <4>1 DEF LocksAreExclusive
      <4>3. QED BY <4>2
    <3>5. status'[c] # "expired"
      <4>1. CASE status' = status
        BY <3>2, <4>1
      <4>2. ASSUME NEW d \in Checkouts, status' = [status EXCEPT ![d] = "open"]
            PROVE  status'[c] # "expired"
        BY <3>2, <4>2 DEF TypeOK
      <4>3. ASSUME NEW g \in Calls, Done(g), <<"checkout", call[g].checkout>> \in Held(g),
                   Settle(g) \/ status' = [status EXCEPT ![call[g].checkout] = "expired"]
            PROVE  status'[c] # "expired"
        BY <3>2, <3>4, <4>3 DEF TypeOK, Settle
      <4>4. QED BY <4>1, <4>2, <4>3, CheckoutEffects
    <3>6. QED BY <2>2, <3>2, <3>5
  <2>3. CASE taken'[h] = 0
    <3>1. Before(h)' \in Nat
      BY DEF Before
    <3>2. QED BY <1>1, <2>3, <3>1 DEF Past
  <2>4. QED BY <2>1, <2>2, <2>3, CallEffects
<1>2. ASSUME NEW h \in Calls, Past(h, 3)'
      PROVE  \E k \in Controls : Spent(call[h].payer)' + Total(call'[h].checkout) <= k.daily
  <2>0. ASSUME NEW u, NEW c, \E k \in Controls : Spent(u) + Total(c) <= k.daily,
               Sales(u)' \subseteq Sales(u), c \in Checkouts
        PROVE  \E k \in Controls : Spent(u)' + Total(c) <= k.daily
    <3>1. PICK k \in Controls : Spent(u) + Total(c) <= k.daily
      BY <2>0
    <3>2. Spent(u) \in Nat /\ Spent(u)' \in Nat /\ Spent(u)' <= Spent(u)
      BY <2>0, SpentShrinks
    <3>3. Total(c) \in Nat /\ k.daily \in Nat
      BY <2>0, TotalsNat, ControlsAssumption
    <3>4. QED BY <3>1, <3>2, <3>3
  <2>1. CASE Take(h)
    <3>1. SameCall(h) /\ status' = status /\ payer' = payer
      BY <1>0, <2>1, TakeEffects DEF Take, sales
    <3>2. call[h].checkout \in Checkouts /\ IsPayment(h)
      BY <1>0, <1>2, <2>1, Passing DEF CallsOK, Shape, IsPayment, Kind
    <3>3. \E k \in Controls : Spent(call[h].payer) + Total(call[h].checkout) <= k.daily
      BY <1>0, <1>2, <2>1, <3>2, Passing, LimitIsSet DEF Checked
    <3>4. \E k \in Controls : Spent(call[h].payer)' + Total(call[h].checkout) <= k.daily
      <4>1. \A u : Spent(u)' = Spent(u)
        BY <3>1 DEF Spent
      <4>2. QED BY <3>1, <3>3, <4>1 DEF Spent, SameCall
    <3>5. QED BY <3>1, <3>4 DEF SameCall
  <2>2. CASE call'[h] = call[h] /\ taken'[h] = taken[h]
    <3>1. Past(h, 3)
      BY <1>2, <2>2 DEF Past, IsPayment, Before, Kind
    <3> PICK u : u = call[h].payer
      OBVIOUS
    <3>2. /\ \E k \in Controls : Spent(u) + Total(call[h].checkout) <= k.daily
          /\ u \in Users /\ call[h].checkout \in Checkouts
      BY <3>1 DEF Checked, Past, CallsOK, Shape, IsPayment, Kind
    <3>3. ASSUME NEW g \in Calls, Settle(g) PROVE call[g].payer # u
      <4>1. IsPayment(g) /\ Past(g, 3) /\ Done(g)
        <5>1. taken[g] = Before(g) + 5 /\ Before(g) \in 0 .. 2 /\ IsPayment(g) /\ Done(g)
          BY <3>3, SettleRows DEF Settle
        <5>2. QED BY <5>1 DEF Past
      <4>2. g # h
        BY <1>2, <4>1, EndedHoldsNothing
      <4>3. <<"card", call[g].payer>> \in Held(g) /\ <<"card", u>> \in Held(h)
        BY <3>1, <4>1, PastHolds
      <4>4. <<"card", call[g].payer>> # <<"card", u>>
        BY <4>2, <4>3 DEF LocksAreExclusive
      <4>5. QED BY <4>4
    <3>4. Sales(u)' \subseteq Sales(u)
      BY <3>2, <3>3, SpentEffects
    <3>5. QED BY <2>0, <2>2, <3>2, <3>4
  <2>3. CASE taken'[h] = 0
    <3>1. Before(h)' \in Nat
      BY DEF Before
    <3>2. QED BY <1>2, <2>3, <3>1 DEF Past
  <2>4. QED BY <2>1, <2>2, <2>3, CallEffects
<1>3. QED BY <1>1, <1>2 DEF Checked

----------------------------------------------------------------------------
(* The limits *)

Active(u) == {d \in Devices : holder[d] = u /\ d \notin revoked}

LEMMA KeepsSpent ==
  ASSUME TypeOK, CallsOK, ExpiredIsLate, Checked, [Next]_vars, NEW u \in Users,
         Spent(u) = 0 \/ \E k \in Controls : Spent(u) <= k.daily
  PROVE  Spent(u)' = 0 \/ \E k \in Controls : Spent(u)' <= k.daily
<1>1. CASE Sales(u)' \subseteq Sales(u)
  <2>1. Spent(u) \in Nat /\ Spent(u)' \in Nat /\ Spent(u)' <= Spent(u)
    BY <1>1, SpentShrinks
  <2>2. \A k \in Controls : k.daily \in Nat
    BY ControlsAssumption
  <2>3. CASE Spent(u) = 0
    BY <2>1, <2>3
  <2>4. CASE \E k \in Controls : Spent(u) <= k.daily
    BY <2>1, <2>2, <2>4
  <2>5. QED BY <2>3, <2>4
<1>2. ASSUME NEW h \in Calls, Settle(h), call[h].payer = u,
             Sales(u)' \subseteq Sales(u) \cup {call[h].checkout}, call[h].checkout \in Checkouts
      PROVE  \E k \in Controls : Spent(u)' <= k.daily
  <2>1. PICK c \in Checkouts : c = call[h].checkout
    BY <1>2
  <2>2. Past(h, 3)
    <3>1. taken[h] = Before(h) + 5 /\ Before(h) \in 0 .. 2 /\ IsPayment(h)
      BY <1>2, SettleRows DEF Settle
    <3>2. QED BY <3>1 DEF Past
  <2>3. PICK k \in Controls : Spent(u) + Total(c) <= k.daily
    BY <1>2, <2>1, <2>2 DEF Checked
  <2>4. Spent(u) \in Nat /\ Spent(u)' \in Nat /\ Spent(u)' <= Spent(u) + Total(c)
    BY <1>2, <2>1, SpentGrows
  <2>5. Total(c) \in Nat /\ k.daily \in Nat
    BY TotalsNat, ControlsAssumption
  <2>6. QED BY <2>3, <2>4, <2>5
<1>3. QED BY <1>1, <1>2, SpentEffects

LEMMA ActiveIs ==
  ASSUME NEW u
  PROVE  IsFiniteSet(Active(u)) /\ IsFiniteSet(Active(u)')
BY FiniteAssumption, FS_Subset DEF Active

(* Revocation is for good, and a key that is registered stays where it is. *)
LEMMA DeviceEffects ==
  ASSUME TypeOK, CallsOK, [Next]_vars, NEW u \in Users
  PROVE  \/ Active(u)' \subseteq Active(u)
         \/ /\ Cardinality(Active(u)) < NFC_MAX_ACTIVE_DEVICES
            /\ \E d \in Devices : Active(u)' \subseteq Active(u) \cup {d}
<1> DEFINE Same == holder' = holder /\ revoked \subseteq revoked'
<1>1. ASSUME NEW h \in Calls, Register(h)
      PROVE  \/ Active(u)' \subseteq Active(u)
             \/ /\ Cardinality(Active(u)) < NFC_MAX_ACTIVE_DEVICES
                /\ \E d \in Devices : Active(u)' \subseteq Active(u) \cup {d}
  <2>1. PICK d \in Devices : d = call[h].device
    BY <1>1 DEF Register, CallsOK, Shape, Kind
  <2>2. PICK p \in Users : p = call[h].payer
    BY <1>1 DEF Register, CallsOK, Shape, Kind
  <2>3. revoked' = revoked
    BY <1>1 DEF Register
  <2>4. CASE holder[d] = None /\ MayAddDevice(p) /\ p = u
    <3>1. holder' = [holder EXCEPT ![d] = p]
      BY <1>1, <2>1, <2>2, <2>4 DEF Register
    <3>2. Cardinality(Active(u)) < NFC_MAX_ACTIVE_DEVICES
      BY <2>4 DEF MayAddDevice, Active
    <3>3. Active(u)' \subseteq Active(u) \cup {d}
      BY <2>3, <3>1 DEF Active, TypeOK
    <3>4. QED BY <3>2, <3>3
  <2>5. CASE holder[d] = None /\ MayAddDevice(p) /\ p # u
    <3>1. holder' = [holder EXCEPT ![d] = p]
      BY <1>1, <2>1, <2>2, <2>5 DEF Register
    <3>2. Active(u)' \subseteq Active(u)
      BY <2>3, <2>5, <3>1 DEF Active, TypeOK
    <3>3. QED BY <3>2
  <2>6. CASE ~ (holder[d] = None /\ MayAddDevice(p))
    <3>1. holder' = holder
      BY <1>1, <2>1, <2>2, <2>6 DEF Register
    <3>2. QED BY <2>3, <3>1 DEF Active
  <2>7. QED BY <2>4, <2>5, <2>6
<1>2. Same => Active(u)' \subseteq Active(u)
  BY DEF Active
<1>3. ASSUME NEW h \in Calls, Arrive(h) PROVE Same
  BY <1>3, Arrivals DEF Begin, devices
<1>4. ASSUME NEW h \in Calls, Take(h) PROVE Same
  BY <1>4 DEF Take, devices
<1>5. ASSUME NEW h \in Calls, Ends(h), ~ Register(h) PROVE Same
  BY <1>5 DEF Ends, ExpireUnpaid, Refuse, Settle, Decline, View, Download, Abort, devices
<1>6. ASSUME Manage PROVE Same
  BY <1>6 DEF Manage, CreateMerchant, ApproveMerchant, IssueCard, UpdateControls, RevokeDevice,
              CreateCheckout, Expire, CreateTapToken, CreateChallenge, CreatePass, devices
<1>7. ASSUME UNCHANGED vars PROVE Same
  BY <1>7 DEF vars, devices
<1> HIDE DEF Same
<1>8. QED BY <1>1, <1>2, <1>3, <1>4, <1>5, <1>6, <1>7, NextCases

LEMMA KeepsDevicesCapped ==
  ASSUME TypeOK, CallsOK, [Next]_vars, NEW u \in Users,
         Cardinality(Active(u)) <= NFC_MAX_ACTIVE_DEVICES
  PROVE  Cardinality(Active(u)') <= NFC_MAX_ACTIVE_DEVICES
<1>1. /\ IsFiniteSet(Active(u)) /\ IsFiniteSet(Active(u)') /\ Cardinality(Active(u)) \in Nat
      /\ Cardinality(Active(u)') \in Nat /\ NFC_MAX_ACTIVE_DEVICES \in Nat
  BY ActiveIs, FS_CardinalityType, BoundsAssumption
<1>2. CASE Active(u)' \subseteq Active(u)
  <2>1. Cardinality(Active(u)') <= Cardinality(Active(u))
    BY <1>1, <1>2, FS_Subset
  <2>2. QED BY <1>1, <2>1
<1>3. ASSUME Cardinality(Active(u)) < NFC_MAX_ACTIVE_DEVICES, NEW d \in Devices,
             Active(u)' \subseteq Active(u) \cup {d}
      PROVE  Cardinality(Active(u)') <= NFC_MAX_ACTIVE_DEVICES
  <2>1. /\ IsFiniteSet(Active(u) \cup {d}) /\ Cardinality(Active(u) \cup {d}) \in Nat
        /\ Cardinality(Active(u) \cup {d}) <= Cardinality(Active(u)) + 1
    <3>1. IsFiniteSet(Active(u) \cup {d})
          /\ (Cardinality(Active(u) \cup {d}) = Cardinality(Active(u)) + 1
                \/ Cardinality(Active(u) \cup {d}) = Cardinality(Active(u)))
      BY <1>1, FS_AddElement
    <3>2. QED BY <1>1, <3>1
  <2>2. Cardinality(Active(u)') <= Cardinality(Active(u) \cup {d})
    BY <1>3, <2>1, FS_Subset
  <2>3. QED BY <1>1, <1>3, <2>1, <2>2
<1>4. QED BY <1>2, <1>3, DeviceEffects

----------------------------------------------------------------------------

LEMMA InitInv == Init => Inv
<1> SUFFICES ASSUME Init PROVE Inv
  OBVIOUS
<1>1. NoCall \in CallType /\ Shape(NoCall) /\ NoCall.kind = "none" /\ NoCall.grant = None
  BY DEF NoCall, CallType, Shape, Kinds, Statuses, Cards
<1>2. \A h \in Calls : call[h] = NoCall /\ taken[h] = 0 /\ Kind(h) = "none" /\ Rows(h) = <<>> /\ Held(h) = {}
  <2> TAKE h \in Calls
  <2>1. call[h] = NoCall /\ taken[h] = 0 /\ Kind(h) = "none"
    BY <1>1 DEF Init, Kind
  <2>2. QED BY <2>1, NothingHeld
<1>3. TypeOK
  BY <1>2, UsersAssumption, DevicesAssumption, StartAssumption DEF Init, TypeOK
<1>4. CallsOK
  BY <1>1, <1>2, UsersAssumption, GrantsAssumption DEF Init, CallsOK, Grants
<1>5. LocksAreExclusive
  BY <1>2 DEF LocksAreExclusive
<1>6. GrantsAreFresh
  BY <1>2 DEF Init, GrantsAreFresh
<1>7. ExpiredIsLate
  BY <1>2 DEF Init, ExpiredIsLate
<1>8. Checked
  BY <1>2 DEF Checked, Past, IsPayment
<1>9. ASSUME NEW u \in Users
      PROVE  /\ Spent(u) = 0
             /\ Cardinality({d \in Devices : holder[d] = u /\ d \notin revoked}) <= NFC_MAX_ACTIVE_DEVICES
  <2>1. {c \in Checkouts : status[c] = "completed" /\ payer[c] = u} = {}
    BY DEF Init
  <2>2. Spent(u) = 0
    BY <2>1, SumEmpty DEF Spent
  <2>3. {d \in Devices : holder[d] = u /\ d \notin revoked} = {d \in Devices : Devices0[d] = u}
    BY DEF Init
  <2>4. QED BY <2>2, <2>3, StartAssumption
<1>10. QED BY <1>3, <1>4, <1>5, <1>6, <1>7, <1>8, <1>9 DEF Inv, LimitsHold

LEMMA NextInv == Inv /\ [Next]_vars => Inv'
<1> SUFFICES ASSUME Inv, [Next]_vars PROVE Inv'
  OBVIOUS
<1>1. TypeOK /\ CallsOK /\ LocksAreExclusive /\ GrantsAreFresh /\ ExpiredIsLate /\ Checked
  BY DEF Inv, LimitsHold
<1>2. /\ TypeOK' /\ CallsOK' /\ LocksAreExclusive' /\ GrantsAreFresh' /\ ExpiredIsLate' /\ Checked'
  BY <1>1, KeepsTypeOK, KeepsCallsOK, KeepsLocksExclusive, KeepsGrantsFresh, KeepsExpiredIsLate, KeepsChecked
<1>3. ASSUME NEW u \in Users
      PROVE  /\ (Spent(u) = 0 \/ \E k \in Controls : Spent(u) <= k.daily)'
             /\ (Cardinality({d \in Devices : holder[d] = u /\ d \notin revoked})
                   <= NFC_MAX_ACTIVE_DEVICES)'
  <2>1. Spent(u) = 0 \/ \E k \in Controls : Spent(u) <= k.daily
    BY DEF Inv, LimitsHold
  <2>2. Cardinality(Active(u)) <= NFC_MAX_ACTIVE_DEVICES
    BY DEF Inv, LimitsHold, Active
  <2>3. Cardinality(Active(u)') <= NFC_MAX_ACTIVE_DEVICES
    BY <1>1, <2>2, KeepsDevicesCapped
  <2>4. QED BY <1>1, <2>1, <2>3, KeepsSpent DEF Active
<1>4. LimitsHold'
  BY <1>2, <1>3 DEF LimitsHold
<1>5. QED BY <1>2, <1>4 DEF Inv

(* In every behaviour: the calls are well formed, no row is locked twice,  *)
(* what a call has checked still holds, and the limits hold.               *)
THEOREM InvHolds == Spec => []Inv
BY InitInv, NextInv, PTL DEF Spec

(* Purchases that run at once do not exceed a card's daily limit, and no   *)
(* card has more active devices than the cap (_settle, register_device).   *)
THEOREM LimitsAreKept == Spec => []LimitsHold
<1>1. Inv => LimitsHold
  BY DEF Inv
<1>2. QED BY <1>1, InvHolds, PTL

(* A tap token, a challenge or a pass link authorises at most one          *)
(* settlement or download (accept_tap, authorize_nfc_checkout,             *)
(* download_apple_wallet_pass).                                            *)
THEOREM GrantsAreSingleUse == Spec => []GrantsAreSpentOnce
<1>1. Inv => GrantsAreSpentOnce
  BY DEF Inv, GrantsAreFresh, GrantsAreSpentOnce
<1>2. QED BY <1>1, InvHolds, PTL

(* A checkout that was seen expired is never charged (_settle,             *)
(* get_checkout).                                                          *)
THEOREM ExpiredIsNotCharged == Spec => NoChargeAfterExpiry
<1>1. ASSUME Inv, [Next]_vars, NEW c \in Checkouts, status[c] = "expired"
      PROVE  charges'[c] = charges[c]
  <2>1. TypeOK /\ CallsOK /\ ExpiredIsLate /\ Checked
    BY <1>1 DEF Inv, LimitsHold
  <2>2. ASSUME NEW h \in Calls, Settle(h) PROVE charges'[c] = charges[c]
    <3>1. taken[h] = Before(h) + 5 /\ Before(h) \in 0 .. 2 /\ IsPayment(h)
      BY <2>1, <2>2, SettleRows DEF Settle
    <3>2. status[call[h].checkout] # "expired"
      BY <2>1, <3>1 DEF Past, Checked
    <3>3. call[h].checkout # c
      BY <1>1, <3>2
    <3>4. QED BY <2>1, <2>2, <3>3 DEF Settle, TypeOK
  <2>3. QED BY <1>1, <2>1, <2>2, CheckoutEffects
<1>2. Inv /\ [Next]_vars => [\A c \in Checkouts : status[c] = "expired" => charges'[c] = charges[c]]_vars
  BY <1>1
<1>3. QED BY <1>2, InvHolds, PTL DEF Spec, NoChargeAfterExpiry

----------------------------------------------------------------------------
(* Deadlocks: a payment locks its rows in the order of their ranks, so     *)
(* that of all rows payments wait for, the one of the highest rank is held *)
(* by nobody who waits.                                                    *)

Rank(r) == CASE r[1] = "grant" -> 1 [] r[1] = "device" -> 2 [] r[1] = "checkout" -> 3
             [] r[1] = "merchant" -> 4 [] r[1] = "card" -> 5 [] OTHER -> 6 + r[2]

LEMMA RanksAre ==
  ASSUME CallsOK, NEW h \in Calls, IsPayment(h)
  PROVE  LET n == Before(h)
             p == call[h].payer
             s == Seller[call[h].checkout]
             w(i) == Rank(Rows(h)[i])
         IN  /\ n \in 0 .. 2 /\ Len(Rows(h)) = n + 5 /\ p \in Nat /\ s \in Nat
             /\ (n >= 1 => w(1) = 1) /\ (n = 2 => w(2) = 2)
             /\ w(n + 1) = 3 /\ w(n + 2) = 4 /\ w(n + 3) = 5
             /\ w(n + 4) = 6 + (IF p < s THEN p ELSE s)
             /\ w(n + 5) = 6 + (IF p < s THEN s ELSE p)
<1>1. call[h].payer \in Nat /\ Seller[call[h].checkout] \in Nat
  BY UsersAssumption, CheckoutsAssumption DEF CallsOK, Shape, IsPayment, Kind
<1>2. /\ \A x : Rank(<<"grant", x>>) = 1 /\ Rank(<<"device", x>>) = 2 /\ Rank(<<"checkout", x>>) = 3
      /\ \A x : Rank(<<"merchant", x>>) = 4 /\ Rank(<<"card", x>>) = 5 /\ Rank(<<"user", x>>) = 6 + x
  BY DEF Rank
<1>3. QED BY <1>1, <1>2, RowsOfPayment

LEMMA RankGrows ==
  ASSUME TypeOK, CallsOK, Checked, NEW h \in Calls, IsPayment(h), Wants(h)
  PROVE  /\ Rank(Wanted(h)) \in Nat
         /\ \A r \in Held(h) : Rank(r) < Rank(Wanted(h))
<1> DEFINE n == Before(h)
           p == call[h].payer
           s == Seller[call[h].checkout]
           j == taken[h] + 1
<1>1. n \in 0 .. 2 /\ p \in Nat /\ s \in Nat /\ taken[h] \in Nat /\ j \in 1 .. n + 5
  BY RanksAre DEF Wants, TypeOK
<1>2. j = n + 5 => p # s
  <2>1. SUFFICES ASSUME j = n + 5 PROVE Past(h, 2)
    BY DEF Checked
  <2>2. QED BY <1>1, <2>1 DEF Past
<1>3. \A i \in 1 .. j : Rank(Rows(h)[i]) \in Nat /\ (i < j => Rank(Rows(h)[i]) < Rank(Rows(h)[j]))
  <2> DEFINE w(i) == Rank(Rows(h)[i])
             lo == IF p < s THEN p ELSE s
             hi == IF p < s THEN s ELSE p
  <2>1. /\ (n >= 1 => w(1) = 1) /\ (n = 2 => w(2) = 2)
        /\ w(n + 1) = 3 /\ w(n + 2) = 4 /\ w(n + 3) = 5
        /\ w(n + 4) = 6 + lo /\ w(n + 5) = 6 + hi
    BY RanksAre
  <2>2. lo \in Nat /\ hi \in Nat /\ (p # s => lo < hi)
    BY <1>1
  <2> DEFINE Grows == \A i \in 1 .. j : w(i) \in Nat /\ (i < j => w(i) < w(j))
  <2> SUFFICES Grows
    OBVIOUS
  <2> HIDE DEF w, lo, hi, n, p, s, j
  <2>3. ASSUME n = 0 PROVE Grows
    <3>1. w(1) = 3 /\ w(2) = 4 /\ w(3) = 5 /\ w(4) = 6 + lo /\ w(5) = 6 + hi /\ j \in 1 .. 5 /\ (j = 5 => lo < hi)
      BY <1>1, <1>2, <2>1, <2>2, <2>3
    <3>2. QED BY <2>2, <3>1
  <2>4. ASSUME n = 1 PROVE Grows
    <3>1. /\ w(1) = 1 /\ w(2) = 3 /\ w(3) = 4 /\ w(4) = 5 /\ w(5) = 6 + lo /\ w(6) = 6 + hi
          /\ j \in 1 .. 6 /\ (j = 6 => lo < hi)
      BY <1>1, <1>2, <2>1, <2>2, <2>4
    <3>2. QED BY <2>2, <3>1
  <2>5. ASSUME n = 2 PROVE Grows
    <3>1. /\ w(1) = 1 /\ w(2) = 2 /\ w(3) = 3 /\ w(4) = 4 /\ w(5) = 5 /\ w(6) = 6 + lo /\ w(7) = 6 + hi
          /\ j \in 1 .. 7 /\ (j = 7 => lo < hi)
      BY <1>1, <1>2, <2>1, <2>2, <2>5
    <3>2. QED BY <2>2, <3>1
  <2> HIDE DEF Grows
  <2>6. QED BY <1>1, <2>3, <2>4, <2>5
<1>4. ASSUME NEW r \in Held(h) PROVE Rank(r) < Rank(Wanted(h))
  <2>1. PICK i \in 1 .. taken[h] : r = Rows(h)[i]
    BY DEF Held
  <2>2. i \in 1 .. j /\ i < j
    BY <1>1, <2>1
  <2>3. QED BY <1>3, <2>1, <2>2 DEF Wanted
<1>5. j \in 1 .. j
  BY <1>1
<1>6. QED BY <1>3, <1>4, <1>5 DEF Wanted

(* A finite set of numbers that is not empty has a greatest one. *)
LEMMA MaximumExists ==
  ASSUME NEW S, IsFiniteSet(S), S # {}, NEW f, \A x \in S : f[x] \in Nat
  PROVE  \E x \in S : \A y \in S : ~ (f[x] < f[y])
<1> DEFINE B == {T \in SUBSET S : T # {} /\ \A x \in T : \E y \in T : f[x] < f[y]}
<1>1. SUFFICES ASSUME B # {} PROVE FALSE
  <2>1. \/ B # {}
        \/ \E x \in S : \A y \in S : ~ (f[x] < f[y])
    OBVIOUS
  <2>2. QED BY <1>1, <2>1
<1>2. PICK T \in B : \A U \in SUBSET T : U # T => U \notin B
  <2> HIDE DEF B
  <2>1. B \subseteq SUBSET S
    BY DEF B
  <2> QED BY <1>1, <2>1, SmallestSet
<1>3. PICK x \in T : TRUE
  OBVIOUS
<1>4. PICK y \in T : f[x] < f[y]
  BY <1>3
<1>5. y \in T \ {x} /\ T \ {x} \in SUBSET S /\ T \ {x} # T
  BY <1>3, <1>4
<1>6. PICK z \in T \ {x} : \A u \in T \ {x} : ~ (f[z] < f[u])
  BY <1>2, <1>5
<1>7. f[z] < f[x]
  BY <1>6
<1>8. f[z] < f[y]
  BY <1>4, <1>7
<1>9. QED BY <1>5, <1>6, <1>8

(* "Stable primary-key order": payments alone never deadlock, also when    *)
(* two merchants pay each other (_settle).                                 *)
THEOREM PaymentsDoNotDeadlock == Spec => []NoPaymentDeadlock
<1>1. ASSUME Inv, NEW S \in SUBSET {h \in Calls : IsPayment(h)}, S # {}, Deadlocked(S)
      PROVE  FALSE
  <2>1. TypeOK /\ CallsOK /\ Checked
    BY <1>1 DEF Inv, LimitsHold
  <2>2. \A h \in S : h \in Calls /\ IsPayment(h) /\ Wants(h) /\ \E g \in S : Wanted(h) \in Held(g)
    BY <1>1 DEF Deadlocked
  <2> DEFINE f == [h \in S |-> Rank(Wanted(h))]
  <2>3. \A h \in S : f[h] \in Nat
    BY <2>1, <2>2, RankGrows
  <2>4. IsFiniteSet(S)
    BY FiniteAssumption, FS_Subset
  <2>5. PICK h \in S : \A g \in S : ~ (f[h] < f[g])
    <3> HIDE DEF f
    <3> QED BY <1>1, <2>3, <2>4, MaximumExists
  <2>6. PICK g \in S : Wanted(h) \in Held(g)
    BY <2>2
  <2>7. Rank(Wanted(h)) < Rank(Wanted(g))
    BY <2>1, <2>2, <2>6, RankGrows
  <2>8. QED BY <2>5, <2>7
<1>2. Inv => NoPaymentDeadlock
  BY <1>1 DEF NoPaymentDeadlock
<1>3. QED BY <1>2, InvHolds, PTL

LEMMA WantsAnother ==
  ASSUME TypeOK, CallsOK, Checked, NEW h \in Calls, Wants(h)
  PROVE  Wanted(h) \notin Held(h)
<1>1. taken[h] \in Nat /\ taken[h] < Len(Rows(h)) /\ Kind(h) \in Kinds
  BY DEF TypeOK, Wants, CallsOK, CallType, Kind
<1>2. CASE IsPayment(h)
  <2>1. SUFFICES ASSUME Wanted(h) \in Held(h) PROVE FALSE
    OBVIOUS
  <2>2. Rank(Wanted(h)) \in Nat /\ Rank(Wanted(h)) < Rank(Wanted(h))
    BY <1>2, <2>1, RankGrows
  <2>3. QED BY <2>2
<1>3. CASE Kind(h) = "register"
  <2>1. /\ Len(Rows(h)) = 1 \/ (Len(Rows(h)) = 2 /\ Rows(h)[2] = <<"device", call[h].device>>)
        /\ Rows(h)[1] = <<"card", call[h].payer>>
    BY <1>3, RegisterRows
  <2>2. CASE taken[h] = 0
    BY <2>2 DEF Held
  <2>3. CASE taken[h] # 0
    <3>0. ASSUME NEW i \in Nat, NEW n, i < n, i # 0, n = 1 \/ n = 2 PROVE i = 1 /\ n = 2
      BY <3>0
    <3>1. taken[h] = 1 /\ Rows(h)[2] = <<"device", call[h].device>>
      <4>1. Len(Rows(h)) = 1 \/ Len(Rows(h)) = 2
        BY <2>1
      <4>2. taken[h] = 1 /\ Len(Rows(h)) = 2
        BY <1>1, <2>3, <3>0, <4>1
      <4>3. QED BY <2>1, <4>2
    <3>2. Held(h) = {<<"card", call[h].payer>>} /\ Wanted(h) = <<"device", call[h].device>>
      BY <2>1, <3>1 DEF Held, Wanted
    <3>3. QED BY <3>2
  <2>4. QED BY <2>2, <2>3
<1>4. CASE Kind(h) \in {"view", "download", "none"}
  <2>1. taken[h] = 0
    BY <1>1, <1>4 DEF Rows
  <2>2. QED BY <2>1 DEF Held
<1>5. QED BY <1>1, <1>2, <1>3, <1>4 DEF Kinds, IsPayment

(* No lock outlives its request: while requests are under way one of them  *)
(* can go on, or they are deadlocked and the database ends one (get_db).   *)
THEOREM SomeCallGoesOn == Spec => []NoCallIsStuck
<1>1. ASSUME Inv,
             LET Running == {h \in Calls : pc[h] = "running"}
             IN  Running # {} /\ \A h \in Running : ~ AllLocked(h) /\ ~ Free(h)
      PROVE  LET Running == {h \in Calls : pc[h] = "running"}
             IN  \E S \in (SUBSET Running) \ {{}} : Deadlocked(S)
  <2> DEFINE Running == {h \in Calls : pc[h] = "running"}
  <2>1. TypeOK /\ CallsOK /\ Checked
    BY <1>1 DEF Inv, LimitsHold
  <2>2. ASSUME NEW h \in Running
        PROVE  Wants(h) /\ \E g \in Running \ {h} : Wanted(h) \in Held(g)
    <3>1. Wants(h) /\ h \in Calls
      BY <1>1, <2>2 DEF AllLocked
    <3>2. PICK g \in Calls : Wanted(h) \in Held(g)
      BY <1>1, <2>2 DEF Free, Unlocked
    <3>3. g # h
      BY <2>1, <3>1, <3>2, WantsAnother
    <3>4. pc[g] = "running"
      <4>1. SUFFICES ASSUME pc[g] # "running" PROVE Held(g) = {}
        BY <3>2
      <4>2. Kind(g) = "none"
        BY <2>1, <4>1 DEF CallsOK, NoCall, Kind
      <4>3. taken[g] \in Nat /\ taken[g] <= Len(Rows(g)) /\ Rows(g) = <<>>
        BY <2>1, <4>2, NothingHeld DEF CallsOK, TypeOK
      <4>4. taken[g] = 0
        BY <4>3
      <4>5. QED BY <4>4, NothingHeld
    <3>5. QED BY <3>1, <3>2, <3>3, <3>4
  <2>3. Deadlocked(Running)
    BY <2>2 DEF Deadlocked
  <2>4. QED BY <1>1, <2>3
<1>2. Inv => NoCallIsStuck
  BY <1>1 DEF NoCallIsStuck
<1>3. QED BY <1>2, InvHolds, PTL
=============================================================================
