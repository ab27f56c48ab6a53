--------------------------- MODULE AccountProofs ---------------------------
(***************************************************************************)
(* What Onboarding and Accounts guarantee for every value of their         *)
(* constants: a merchant's account and a member's.                         *)
(*                                                                         *)
(* Onboarding.  Inv adds to the properties what remains true of a call in  *)
(* progress, whatever commits before it does (Waiting): a save can only    *)
(* take a form out of its decision, a key that is being revoked exists,    *)
(* and a live key that is being minted has been earned, since a            *)
(* verification stays in the log.  A mint has passed the limit when it     *)
(* began, so the keys and the mints under way stay below the limit and the *)
(* number of calls (Room).                                                 *)
(*                                                                         *)
(* Accounts.  A link that is not marked used has not been used, and the    *)
(* calls that are about to use it count with its uses (LinksOK); the same  *)
(* goes for claims of a referral, and no copy of a balance that a call     *)
(* holds exceeds what the audit rows explain (ClaimsOK).                   *)
(***************************************************************************)
EXTENDS Onboarding, Accounts, FiniteSetTheorems, SequenceTheorems, TLAPS

CallType ==
  [op : {"idle", "sweep"}]
    \cup [op : {"save", "submit"}, seen : KybType \cup {None}, new : KybType]
    \cup [op : {"mint"}, mode : {"test", "live"}] \cup [op : {"revoke"}, key : Keys]
    \cup [op : {"payout"}, seen : PayoutType \cup {None}, new : PayoutType]

Earned == merchant = "active" /\ \E i \in DOMAIN audit.decisions : audit.decisions[i] = "verified"

Waiting ==
  \A c \in Calls :
    /\ call[c].op \in {"save", "submit"} =>
         /\ call[c].new.status \in {"draft", "submitted"}
         /\ call[c].seen # None => kyb # None
    /\ call[c].op = "sweep" => kyb # None
    /\ call[c].op = "payout" /\ call[c].seen # None => payout # None
    /\ call[c].op = "revoke" => keys[call[c].key] # "none"
    /\ call[c].op = "mint" /\ call[c].mode = "live" => Earned

Minting == {c \in Calls : call[c].op = "mint"}
Room == Cardinality(ActiveKeys) + Cardinality(Minting) < MaxKeys + Cardinality(Calls)

Inv == /\ TypeOK /\ call \in [Calls -> CallType]
       /\ ActionsAreLogged /\ LiveKeysAreEarned /\ Waiting /\ Room

LEMMA CallFields ==
  ASSUME call \in [Calls -> CallType], NEW c \in Calls
  PROVE  /\ call[c].op \in {"save", "submit"} =>
              call[c].seen \in KybType \cup {None} /\ call[c].new \in KybType
         /\ call[c].op = "payout" =>
              call[c].seen \in PayoutType \cup {None} /\ call[c].new \in PayoutType
         /\ call[c].op = "mint" => call[c].mode \in {"test", "live"}
         /\ call[c].op = "revoke" => call[c].key \in Keys
BY DEF CallType

LEMMA IdleFields == Idle \in CallType /\ Idle.op = "idle"
BY DEF Idle, CallType

(* A row that a commit merges into keeps its type, and its status changes  *)
(* only to the one the call has set.                                       *)
LEMMA MergedForm ==
  ASSUME NEW r \in KybType, NEW s \in KybType, NEW n \in KybType
  PROVE  Merge(r, s, n) \in KybType /\ Merge(r, s, n).status \in {r.status, n.status}
<1>1. DOMAIN r = {"risk", "license", "complete", "status"}
  BY DEF KybType
<1>2. Merge(r, s, n) = [risk |-> IF n.risk # s.risk THEN n.risk ELSE r.risk,
                        license |-> IF n.license # s.license THEN n.license ELSE r.license,
                        complete |-> IF n.complete # s.complete THEN n.complete ELSE r.complete,
                        status |-> IF n.status # s.status THEN n.status ELSE r.status]
  BY <1>1 DEF Merge
<1>3. QED BY <1>2 DEF KybType

LEMMA MergedPayout ==
  ASSUME NEW r \in PayoutType, NEW s \in PayoutType, NEW n \in PayoutType
  PROVE  Merge(r, s, n) \in PayoutType
<1>1. DOMAIN r = {"auto", "address"}
  BY DEF PayoutType
<1>2. Merge(r, s, n) = [auto |-> IF n.auto # s.auto THEN n.auto ELSE r.auto,
                        address |-> IF n.address # s.address THEN n.address ELSE r.address]
  BY <1>1 DEF Merge
<1>3. QED BY <1>2 DEF PayoutType

LEMMA Counts ==
  /\ IsFiniteSet(ActiveKeys) /\ Cardinality(ActiveKeys) \in Nat
  /\ IsFiniteSet(Minting) /\ Cardinality(Minting) \in Nat
  /\ Cardinality(Calls) \in Nat /\ Cardinality(Minting) <= Cardinality(Calls)
BY FiniteAssumption, FS_Subset, FS_CardinalityType DEF ActiveKeys, Minting

LEMMA InitInv == Init => Inv
<1> SUFFICES ASSUME Init PROVE Inv
  OBVIOUS
<1>1. TypeOK
  BY BoundsAssumption DEF Init, TypeOK, Days
<1>2. call \in [Calls -> CallType] /\ \A c \in Calls : call[c].op = "idle"
  BY IdleFields DEF Init
<1>3. ActionsAreLogged /\ LiveKeysAreEarned
  BY DEF Init, ActionsAreLogged, LiveKeysAreEarned
<1>4. Waiting
  BY <1>2 DEF Waiting
<1>5. Room
  <2>1. ActiveKeys = {} /\ Minting = {}
    BY <1>2 DEF Init, ActiveKeys, Minting
  <2>2. QED BY <2>1, BoundsAssumption, Counts, FS_EmptySet DEF Room
<1>6. QED BY <1>1, <1>2, <1>3, <1>4, <1>5 DEF Inv

(* A call that only waits changes what Waiting says of itself, and the     *)
(* room if it is a mint.                                                   *)
LEMMA BeginInv ==
  ASSUME Inv, NEW c \in Calls, NEW r \in CallType, Begin(c, r),
         UNCHANGED <<merchant, kyb, keys, payout, audit, today>>,
         r.op \in {"save", "submit"} =>
           r.new.status \in {"draft", "submitted"} /\ (r.seen # None => kyb # None),
         r.op = "sweep" => kyb # None,
         r.op = "payout" /\ r.seen # None => payout # None,
         r.op = "revoke" => keys[r.key] # "none",
         r.op = "mint" => BelowLimit /\ (r.mode = "live" => Earned)
  PROVE  Inv'
<1>1. TypeOK' /\ ActionsAreLogged' /\ LiveKeysAreEarned'
  BY DEF Inv, TypeOK, ActionsAreLogged, LiveKeysAreEarned
<1>2. call' \in [Calls -> CallType] /\ call'[c] = r /\ \A d \in Calls \ {c} : call'[d] = call[d]
  BY DEF Inv, Begin
<1>3. Waiting'
  BY <1>2 DEF Inv, Waiting, Earned
<1>4. Room'
  <2>1. ActiveKeys' = ActiveKeys
    BY DEF ActiveKeys
  <2>2. CASE r.op = "mint"
    <3>1. Minting' \subseteq Calls /\ Cardinality(Minting') <= Cardinality(Calls) /\ Cardinality(Minting') \in Nat
      BY FiniteAssumption, FS_Subset, FS_CardinalityType DEF Minting
    <3>2. Cardinality(ActiveKeys) < MaxKeys
      BY <2>2 DEF BelowLimit
    <3>3. QED BY <2>1, <3>1, <3>2, Counts, BoundsAssumption DEF Room
  <2>3. CASE r.op # "mint"
    <3>1. Minting' = Minting
      BY <1>2, <2>3, IdleFields DEF Minting, Begin
    <3>2. QED BY <2>1, <3>1 DEF Inv, Room
  <2>4. QED BY <2>2, <2>3
<1>5. QED BY <1>1, <1>2, <1>3, <1>4 DEF Inv

LEMMA LoadInv ==
  ASSUME Inv, NEW c \in Calls,
         \/ LoadSubmit(c) \/ LoadSweep(c)
         \/ \E f \in Forms : LoadSave(c, f)
         \/ \E m \in {"test", "live"} : LoadMint(c, m)
         \/ \E k \in Keys : LoadRevoke(c, k)
         \/ \E p \in Preferences \cup {Defaults} : LoadPayout(c, p)
  PROVE  Inv'
<1>1. TypeOK /\ ActionsAreLogged
  BY DEF Inv
<1>2. ASSUME NEW f \in Forms, LoadSave(c, f) PROVE Inv'
  <2> DEFINE r == [op |-> "save", seen |-> kyb, new |-> Fill(f, "draft")]
  <2>1. Fill(f, "draft") \in KybType /\ Fill(f, "draft").status = "draft"
    BY FormsAssumption DEF Fill, KybType, FormType, Statuses
  <2>2. /\ r \in CallType /\ r.op = "save" /\ r.new.status = "draft" /\ r.seen = kyb
    BY <1>1, <2>1 DEF CallType, TypeOK
  <2>3. Begin(c, r) /\ UNCHANGED <<merchant, kyb, keys, payout, audit, today>>
    BY <1>2 DEF LoadSave
  <2> HIDE DEF r
  <2>4. QED BY <2>2, <2>3, BeginInv
<1>3. CASE LoadSubmit(c)
  <2> DEFINE r == [op |-> "submit", seen |-> kyb, new |-> [kyb EXCEPT !.status = "submitted"]]
  <2>1. kyb \in KybType
    BY <1>1, <1>3 DEF LoadSubmit, TypeOK
  <2>2. [kyb EXCEPT !.status = "submitted"] \in KybType
        /\ [kyb EXCEPT !.status = "submitted"].status = "submitted"
    BY <2>1 DEF KybType, Statuses, Locked
  <2>3. r \in CallType /\ r.op = "submit" /\ r.new.status = "submitted" /\ r.seen = kyb
    BY <2>1, <2>2 DEF CallType
  <2>4. Begin(c, r) /\ UNCHANGED <<merchant, kyb, keys, payout, audit, today>>
    BY <1>3 DEF LoadSubmit
  <2> HIDE DEF r
  <2>5. QED BY <2>3, <2>4, BeginInv
<1>4. CASE LoadSweep(c)
  <2> DEFINE r == [op |-> "sweep"]
  <2>1. r \in CallType /\ r.op = "sweep"
    BY DEF CallType
  <2>2. Begin(c, r) /\ UNCHANGED <<merchant, kyb, keys, payout, audit, today>> /\ kyb # None
    BY <1>4 DEF LoadSweep
  <2> HIDE DEF r
  <2>3. QED BY <2>1, <2>2, BeginInv
<1>5. ASSUME NEW m \in {"test", "live"}, LoadMint(c, m) PROVE Inv'
  <2> DEFINE r == [op |-> "mint", mode |-> m]
  <2>1. r \in CallType /\ r.op = "mint" /\ r.mode = m
    BY DEF CallType
  <2>2. Begin(c, r) /\ UNCHANGED <<merchant, kyb, keys, payout, audit, today>> /\ BelowLimit
    BY <1>5 DEF LoadMint
  <2>3. m = "live" => Earned
    <3> SUFFICES ASSUME m = "live" PROVE Earned
      OBVIOUS
    <3>1. kyb # None /\ kyb.status = "verified" /\ merchant = "active"
      BY <1>5 DEF LoadMint, MayMint
    <3>2. audit.decisions # <<>> /\ audit.decisions[Len(audit.decisions)] = "verified"
      BY <1>1, <3>1 DEF ActionsAreLogged, Verdicts
    <3>3. audit.decisions \in Seq(Verdicts) /\ Len(audit.decisions) \in DOMAIN audit.decisions
      BY <1>1, <3>2 DEF TypeOK
    <3>4. QED BY <3>1, <3>2, <3>3 DEF Earned
  <2> HIDE DEF r
  <2>4. QED BY <2>1, <2>2, <2>3, BeginInv
<1>6. ASSUME NEW k \in Keys, LoadRevoke(c, k) PROVE Inv'
  <2> DEFINE r == [op |-> "revoke", key |-> k]
  <2>1. r \in CallType /\ r.op = "revoke" /\ r.key = k
    BY DEF CallType
  <2>2. Begin(c, r) /\ UNCHANGED <<merchant, kyb, keys, payout, audit, today>> /\ keys[k] # "none"
    BY <1>6 DEF LoadRevoke, ActiveKeys
  <2> HIDE DEF r
  <2>3. QED BY <2>1, <2>2, BeginInv
<1>7. ASSUME NEW p \in Preferences \cup {Defaults}, LoadPayout(c, p) PROVE Inv'
  <2> DEFINE r == [op |-> "payout", seen |-> payout, new |-> p]
  <2>1. p \in PayoutType
    <3>1. Defaults \in PayoutType
      BY DEF Defaults, PayoutType
    <3>2. QED BY <3>1, FormsAssumption
  <2>2. r \in CallType /\ r.op = "payout" /\ r.seen = payout
    BY <1>1, <2>1 DEF CallType, TypeOK
  <2>3. Begin(c, r) /\ UNCHANGED <<merchant, kyb, keys, payout, audit, today>>
    BY <1>7 DEF LoadPayout
  <2> HIDE DEF r
  <2>4. QED BY <2>2, <2>3, BeginInv
<1>8. QED BY <1>2, <1>3, <1>4, <1>5, <1>6, <1>7

(* A call that ends leaves the others waiting.                             *)
LEMMA Ended ==
  ASSUME Inv, NEW c \in Calls, End(c)
  PROVE  /\ call' \in [Calls -> CallType]
         /\ \A d \in Calls : call'[d].op = "idle" \/ (d # c /\ call'[d] = call[d])
         /\ Minting' \subseteq Minting /\ Cardinality(Minting') <= Cardinality(Minting)
         /\ Cardinality(Minting') \in Nat
         /\ call[c].op = "mint" => Cardinality(Minting') = Cardinality(Minting) - 1
<1>1. call' \in [Calls -> CallType] /\ call'[c] = Idle /\ \A d \in Calls \ {c} : call'[d] = call[d]
  BY IdleFields DEF Inv, End
<1>2. Minting' = Minting \ {c}
  BY <1>1, IdleFields DEF Minting
<1>3. Cardinality(Minting') <= Cardinality(Minting) /\ Cardinality(Minting') \in Nat
  BY <1>2, Counts, FS_Subset, FS_CardinalityType
<1>4. call[c].op = "mint" => Cardinality(Minting') = Cardinality(Minting) - 1
  <2>1. call[c].op = "mint" => c \in Minting
    BY DEF Minting
  <2>2. IsFiniteSet(Minting)
    BY Counts
  <2>3. QED BY <1>2, <2>1, <2>2, FS_RemoveElement
<1>5. QED BY <1>1, <1>2, <1>3, <1>4, IdleFields

(* The end of a call that has written the form or the preferences          *)
LEMMA RowInv ==
  ASSUME Inv, NEW c \in Calls, End(c), UNCHANGED <<merchant, keys, audit, today>>,
         kyb' \in KybType \cup {None}, kyb # None => kyb' # None,
         kyb' # None /\ kyb'.status \in Verdicts => kyb # None /\ kyb.status = kyb'.status,
         payout' \in PayoutType \cup {None}, payout # None => payout' # None
  PROVE  Inv'
<1>1. TypeOK' /\ LiveKeysAreEarned'
  BY DEF Inv, TypeOK, LiveKeysAreEarned
<1>2. ActionsAreLogged'
  BY DEF Inv, ActionsAreLogged
<1>3. Waiting'
  <2>1. \A d \in Calls : call'[d].op = "idle" \/ call'[d] = call[d]
    BY Ended
  <2>2. QED BY <2>1 DEF Inv, Waiting, Earned
<1>4. Room'
  BY Ended, Counts, BoundsAssumption DEF Inv, Room, ActiveKeys
<1>5. QED BY <1>1, <1>2, <1>3, <1>4, Ended DEF Inv

LEMMA CommitKybInv == ASSUME Inv, NEW c \in Calls, CommitKyb(c) PROVE Inv'
<1> DEFINE s == call[c].seen
           n == call[c].new
<1>1. /\ s \in KybType \cup {None} /\ n \in KybType /\ n.status \in {"draft", "submitted"}
      /\ s # None => kyb # None
      /\ kyb \in KybType \cup {None} /\ payout \in PayoutType \cup {None}
  BY CallFields DEF Inv, TypeOK, Waiting, CommitKyb
<1>2. End(c) /\ UNCHANGED <<merchant, keys, payout, audit, today>>
  BY DEF CommitKyb
<1>3. n # None /\ \A r \in KybType : r # None
  BY <1>1, NoneAssumption
<1>4. CASE s # None
  <2>1. kyb' = Merge(kyb, s, n)
    BY <1>4 DEF CommitKyb
  <2>2. kyb' \in KybType /\ kyb'.status \in {kyb.status, n.status}
    BY <1>1, <1>4, <2>1, MergedForm
  <2>3. QED BY <1>1, <1>2, <1>3, <1>4, <2>2, RowInv DEF Verdicts
<1>5. CASE s = None
  <2>1. kyb' = IF kyb = None THEN n ELSE kyb
    BY <1>5 DEF CommitKyb
  <2>2. QED BY <1>1, <1>2, <1>3, <2>1, RowInv DEF Verdicts
<1>6. QED BY <1>4, <1>5

LEMMA CommitSweepInv == ASSUME Inv, NEW c \in Calls, CommitSweep(c) PROVE Inv'
<1>1. kyb \in KybType /\ payout \in PayoutType \cup {None}
  BY DEF Inv, TypeOK, Waiting, CommitSweep
<1>2. kyb' = [kyb EXCEPT !.status = "expired"] /\ End(c) /\ UNCHANGED <<merchant, keys, payout, audit, today>>
  BY DEF CommitSweep
<1>3. kyb' \in KybType /\ kyb'.status = "expired"
  BY <1>1, <1>2 DEF KybType, Statuses
<1>4. QED BY <1>1, <1>2, <1>3, NoneAssumption, RowInv DEF Verdicts

LEMMA CommitPayoutInv == ASSUME Inv, NEW c \in Calls, CommitPayout(c) PROVE Inv'
<1> DEFINE s == call[c].seen
           n == call[c].new
<1>1. /\ s \in PayoutType \cup {None} /\ n \in PayoutType /\ (s # None => payout # None)
      /\ kyb \in KybType \cup {None} /\ payout \in PayoutType \cup {None}
  BY CallFields DEF Inv, TypeOK, Waiting, CommitPayout
<1>2. End(c) /\ UNCHANGED <<merchant, kyb, keys, audit, today>>
  BY DEF CommitPayout
<1>3. \A r \in PayoutType : r # None
  BY NoneAssumption
<1>4. CASE s # None
  <2>1. payout' = Merge(payout, s, n)
    BY <1>4 DEF CommitPayout
  <2>2. payout' \in PayoutType
    BY <1>1, <1>4, <2>1, MergedPayout
  <2>3. QED BY <1>1, <1>2, <1>3, <2>2, RowInv
<1>5. CASE s = None
  <2>1. payout' = IF payout = None THEN n ELSE payout
    BY <1>5 DEF CommitPayout
  <2>2. QED BY <1>1, <1>2, <1>3, <2>1, RowInv
<1>6. QED BY <1>4, <1>5

LEMMA CommitMintInv == ASSUME Inv, NEW c \in Calls, NEW k \in Keys, CommitMint(c, k) PROVE Inv'
<1> DEFINE m == call[c].mode
<1>1. /\ TypeOK /\ ActionsAreLogged /\ LiveKeysAreEarned /\ Waiting /\ Room
      /\ call \in [Calls -> CallType] /\ call[c].op = "mint" /\ keys[k] = "none"
      /\ m \in {"test", "live"} /\ (m = "live" => Earned)
  BY CallFields DEF Inv, CommitMint, Waiting
<1>2. /\ keys' = [keys EXCEPT ![k] = m] /\ audit' = [audit EXCEPT !.created = @ \cup {k}]
      /\ End(c) /\ UNCHANGED <<merchant, kyb, payout, today>>
  BY DEF CommitMint
<1>3. /\ audit'.decisions = audit.decisions /\ audit'.created = audit.created \cup {k}
      /\ audit'.revoked = audit.revoked
      /\ audit' \in [decisions : Seq(Verdicts), created : SUBSET Keys, revoked : SUBSET Keys]
  BY <1>1, <1>2 DEF TypeOK
<1>4. /\ keys' \in [Keys -> {"none", "test", "live", "revoked"}] /\ keys'[k] = m
      /\ \A j \in Keys \ {k} : keys'[j] = keys[j]
  BY <1>1, <1>2 DEF TypeOK
<1>5. TypeOK'
  BY <1>1, <1>2, <1>3, <1>4 DEF TypeOK
<1>6. ActionsAreLogged'
  BY <1>1, <1>2, <1>3, <1>4 DEF ActionsAreLogged
<1>7. Earned => Earned'
  BY <1>2, <1>3 DEF Earned
<1>8. LiveKeysAreEarned'
  BY <1>1, <1>4, <1>7 DEF LiveKeysAreEarned, Earned
<1>9. Waiting'
  <2>1. \A d \in Calls : call'[d].op = "idle" \/ call'[d] = call[d]
    BY <1>2, Ended
  <2>2. \A j \in Keys : keys[j] # "none" => keys'[j] # "none"
    BY <1>1, <1>4
  <2>3. \A d \in Calls : call[d].op = "revoke" => call[d].key \in Keys
    BY <1>1, CallFields
  <2>4. QED BY <1>1, <1>2, <1>7, <2>1, <2>2, <2>3 DEF Waiting
<1>10. Room'
  <2>1. ActiveKeys' = ActiveKeys \cup {k} /\ k \notin ActiveKeys
    BY <1>1, <1>4 DEF ActiveKeys
  <2>2. Cardinality(ActiveKeys') = Cardinality(ActiveKeys) + 1
    BY <2>1, Counts, FS_AddElement
  <2>3. Cardinality(Minting') = Cardinality(Minting) - 1
    BY <1>1, <1>2, Ended
  <2>4. QED BY <1>1, <2>2, <2>3, Counts, BoundsAssumption DEF Room
<1>11. QED BY <1>2, <1>5, <1>6, <1>8, <1>9, <1>10, Ended DEF Inv

LEMMA CommitRevokeInv == ASSUME Inv, NEW c \in Calls, CommitRevoke(c) PROVE Inv'
<1> DEFINE k == call[c].key
<1>1. /\ TypeOK /\ ActionsAreLogged /\ LiveKeysAreEarned /\ Waiting /\ Room
      /\ call \in [Calls -> CallType] /\ call[c].op = "revoke" /\ k \in Keys /\ keys[k] # "none"
  BY CallFields DEF Inv, CommitRevoke, Waiting
<1>2. /\ keys' = [keys EXCEPT ![k] = "revoked"] /\ audit' = [audit EXCEPT !.revoked = @ \cup {k}]
      /\ End(c) /\ UNCHANGED <<merchant, kyb, payout, today>>
  BY DEF CommitRevoke
<1>3. /\ audit'.decisions = audit.decisions /\ audit'.created = audit.created
      /\ audit'.revoked = audit.revoked \cup {k}
      /\ audit' \in [decisions : Seq(Verdicts), created : SUBSET Keys, revoked : SUBSET Keys]
  BY <1>1, <1>2 DEF TypeOK
<1>4. /\ keys' \in [Keys -> {"none", "test", "live", "revoked"}] /\ keys'[k] = "revoked"
      /\ \A j \in Keys \ {k} : keys'[j] = keys[j]
  BY <1>1, <1>2 DEF TypeOK
<1>5. TypeOK'
  BY <1>1, <1>2, <1>3, <1>4 DEF TypeOK
<1>6. ActionsAreLogged'
  BY <1>1, <1>2, <1>3, <1>4 DEF ActionsAreLogged
<1>7. Earned => Earned'
  BY <1>2, <1>3 DEF Earned
<1>8. LiveKeysAreEarned'
  BY <1>1, <1>4, <1>7 DEF LiveKeysAreEarned, Earned
<1>9. Waiting'
  <2>1. \A d \in Calls : call'[d].op = "idle" \/ call'[d] = call[d]
    BY <1>2, Ended
  <2>2. \A j \in Keys : keys[j] # "none" => keys'[j] # "none"
    BY <1>1, <1>4
  <2>3. \A d \in Calls : call[d].op = "revoke" => call[d].key \in Keys
    BY <1>1, CallFields
  <2>4. QED BY <1>1, <1>2, <1>7, <2>1, <2>2, <2>3 DEF Waiting
<1>10. Room'
  <2>1. ActiveKeys' \subseteq ActiveKeys
    BY <1>1, <1>4 DEF ActiveKeys
  <2>2. Cardinality(ActiveKeys') <= Cardinality(ActiveKeys) /\ Cardinality(ActiveKeys') \in Nat
    BY <2>1, Counts, FS_Subset, FS_CardinalityType
  <2>3. QED BY <1>1, <1>2, <2>2, Counts, Ended, BoundsAssumption DEF Room
<1>11. QED BY <1>2, <1>5, <1>6, <1>8, <1>9, <1>10, Ended DEF Inv

(* A decision is the last entry of the log, and the log only grows.        *)
LEMMA DecideInv ==
  ASSUME Inv, NEW verdict \in Verdicts, NEW from, Decide(verdict, from),
         merchant' \in {merchant, "active"}
  PROVE  Inv'
<1> DEFINE D == audit.decisions
<1>1. /\ TypeOK /\ ActionsAreLogged /\ LiveKeysAreEarned /\ Waiting /\ Room
      /\ call \in [Calls -> CallType] /\ D \in Seq(Verdicts) /\ kyb \in KybType
  BY DEF Inv, TypeOK, Decide
<1>2. /\ kyb' = [kyb EXCEPT !.status = verdict] /\ audit' = [audit EXCEPT !.decisions = Append(@, verdict)]
      /\ UNCHANGED <<keys, payout, call, today>>
  BY DEF Decide
<1>3. kyb' \in KybType /\ kyb'.status = verdict /\ kyb' # None
  <2>1. kyb' \in KybType /\ kyb'.status = verdict
    BY <1>1, <1>2 DEF KybType, Statuses, Locked, Verdicts
  <2>2. QED BY <2>1, NoneAssumption
<1>4. /\ audit'.decisions = Append(D, verdict) /\ audit'.created = audit.created
      /\ audit'.revoked = audit.revoked
  BY <1>1, <1>2 DEF TypeOK
<1>5. /\ Append(D, verdict) \in Seq(Verdicts) /\ Len(Append(D, verdict)) = Len(D) + 1
      /\ Append(D, verdict)[Len(D) + 1] = verdict
      /\ \A i \in 1 .. Len(D) : Append(D, verdict)[i] = D[i]
  BY <1>1, AppendProperties
<1>6. Append(D, verdict) # <<>> /\ \A i \in DOMAIN D : i \in DOMAIN Append(D, verdict) /\ Append(D, verdict)[i] = D[i]
  BY <1>1, <1>5
<1>7. TypeOK'
  BY <1>1, <1>2, <1>3, <1>5 DEF TypeOK
<1>8. ActionsAreLogged'
  BY <1>1, <1>2, <1>3, <1>4, <1>5, <1>6 DEF ActionsAreLogged
<1>9. Earned => Earned'
  BY <1>4, <1>6 DEF Earned
<1>10. LiveKeysAreEarned'
  BY <1>1, <1>2, <1>9 DEF LiveKeysAreEarned, Earned
<1>11. Waiting'
  BY <1>1, <1>2, <1>3, <1>9 DEF Waiting
<1>12. Room'
  BY <1>1, <1>2 DEF Room, ActiveKeys, Minting
<1>13. QED BY <1>1, <1>2, <1>7, <1>8, <1>10, <1>11, <1>12 DEF Inv

(* The account is only ever activated.                                     *)
LEMMA AccountInv ==
  ASSUME Inv, CreateMerchant \/ ApproveMerchant \/ AutoActivate \/ Tick \/ UNCHANGED vars
  PROVE  Inv'
<1>1. UNCHANGED <<kyb, keys, payout, audit, call>> /\ today' \in Days
      /\ merchant' \in {"none", "pending_review", "active"} /\ (merchant = "active" => merchant' = "active")
  BY BoundsAssumption DEF Inv, TypeOK, Days, CreateMerchant, ApproveMerchant, AutoActivate, Tick, vars
<1>2. TypeOK' /\ ActionsAreLogged'
  BY <1>1 DEF Inv, TypeOK, ActionsAreLogged
<1>3. LiveKeysAreEarned' /\ (Earned => Earned')
  BY <1>1 DEF Inv, LiveKeysAreEarned, Earned
<1>4. Waiting'
  BY <1>1, <1>3 DEF Inv, Waiting
<1>5. Room'
  BY <1>1 DEF Inv, Room, ActiveKeys, Minting
<1>6. QED BY <1>1, <1>2, <1>3, <1>4, <1>5 DEF Inv

LEMMA NextInv == Inv /\ [Next]_vars => Inv'
<1> SUFFICES ASSUME Inv, [Next]_vars PROVE Inv'
  OBVIOUS
<1>1. CASE CreateMerchant \/ ApproveMerchant \/ AutoActivate \/ Tick \/ UNCHANGED vars
  BY <1>1, AccountInv
<1>2. CASE AutoApproveKyb
  BY <1>2, DecideInv DEF AutoApproveKyb, Verdicts
<1>3. ASSUME NEW v \in Verdicts, DecideKyb(v) PROVE Inv'
  BY <1>3, DecideInv DEF DecideKyb
<1>4. ASSUME NEW c \in Calls,
             \/ LoadSubmit(c) \/ LoadSweep(c)
             \/ \E f \in Forms : LoadSave(c, f)
             \/ \E m \in {"test", "live"} : LoadMint(c, m)
             \/ \E k \in Keys : LoadRevoke(c, k)
             \/ \E p \in Preferences \cup {Defaults} : LoadPayout(c, p)
      PROVE Inv'
  BY <1>4, LoadInv
<1>5. ASSUME NEW c \in Calls,
             CommitKyb(c) \/ CommitSweep(c) \/ CommitRevoke(c) \/ CommitPayout(c)
               \/ \E k \in Keys : CommitMint(c, k)
      PROVE Inv'
  BY <1>5, CommitKybInv, CommitSweepInv, CommitRevokeInv, CommitPayoutInv, CommitMintInv
<1>6. QED BY <1>1, <1>2, <1>3, <1>4, <1>5 DEF Next

(* Inv is an inductive invariant of the specification.                     *)
LEMMA Invariance == Spec => []Inv
BY InitInv, NextInv, PTL DEF Spec

(* Every table keeps its type.                                             *)
THEOREM TypeCorrectness == Spec => []TypeOK
<1>1. Inv => TypeOK
  BY DEF Inv
<1>2. QED BY <1>1, Invariance, PTL

(* The audit log tells what the merchant's form was last decided to be and *)
(* what every key is, whatever overlapping saves write over the row.       *)
THEOREM TheLogIsTrue == Spec => []ActionsAreLogged
<1>1. Inv => ActionsAreLogged
  BY DEF Inv
<1>2. QED BY <1>1, Invariance, PTL

(* create_api_key reads the verification before it writes the key; still   *)
(* no live key exists without a logged verification and an active account. *)
THEOREM LiveKeysNeedVerification == Spec => []LiveKeysAreEarned
<1>1. Inv => LiveKeysAreEarned
  BY DEF Inv
<1>2. QED BY <1>1, Invariance, PTL

(* Overlapping requests pass the limit on active keys by less than their   *)
(* number.                                                                 *)
THEOREM KeysAreLimited == Spec => []KeyLimitHolds
<1>1. Inv => KeyLimitHolds
  BY Counts, BoundsAssumption DEF Inv, Room, KeyLimitHolds
<1>2. QED BY <1>1, Invariance, PTL

----------------------------------------------------------------------------

(* The calls that are about to use a link, or to claim a referral *)
LinkUses(l) == {c \in Requests : request[c].kind \in {"reset", "verify"} /\ request[c].link = l}
Referrals(u) == {c \in Requests : request[c].kind = "refer" /\ request[c].user = u}

(* Who has no row has no name. *)
RowsOK == \A u \in Users \ rows : name[u] = Null /\ handle[u] = Null

(* What a call has for its arguments, and when *)
RequestsOK ==
  \A c \in Requests :
    /\ request[c].kind = "none" <=> pc[c] \in {"idle", "done"}
    /\ request[c].kind # "none" => request[c].user \in Users
    /\ request[c].kind \in Kinds => request[c].user \in rows
    /\ request[c].kind \in {"reset", "verify"} =>
         /\ request[c].link \in Links
         /\ link[request[c].link].kind = request[c].kind /\ link[request[c].link].user = request[c].user
         /\ link[request[c].link].status # "none"
    /\ pc[c] = "found" => /\ request[c].kind = "refer" /\ request[c].code \in Codes
                          /\ request[c].inviter \in rows \ {request[c].user}

(* A link is unused until it is marked, and every further use of it was    *)
(* begun beside another.                                                   *)
LinksOK ==
  \A l \in Links :
    /\ link[l].status # "none" => link[l].user \in Users /\ link[l].kind # "none"
    /\ link[l].status # "used" => uses[l] = 0
    /\ uses[l] + Cardinality(LinkUses(l)) <= 1 + overlaps[l]
    /\ link[l].status = "used" /\ link[l].kind = "reset" => password[link[l].user] # Null

(* The same of claims; the copies of balances are no greater than what the *)
(* audit rows explain.                                                     *)
ClaimsOK ==
  /\ \A u \in Users :
       /\ referredBy[u] = Null => claims[u] = 0
       /\ claims[u] + Cardinality(Referrals(u)) <= 1 + overlaps[u]
       /\ balance[u] <= Bonus * bonuses[u] /\ count[u] <= bonuses[u]
  /\ \A c \in Requests :
       /\ request[c].kind \in Kinds => request[c].balance <= Bonus * bonuses[request[c].user]
       /\ pc[c] = "found" => /\ request[c].invBalance <= Bonus * bonuses[request[c].inviter]
                             /\ request[c].invCount <= bonuses[request[c].inviter]

DirectoryInv == AccountsTypeOK /\ RowsOK /\ RequestsOK /\ NamesAreOwn /\ LinksOK /\ ClaimsOK

(* The database's pattern match finds at least the name itself. *)
LEMMA Unmatched ==
  ASSUME NEW n, NEW u, Matches(n) \subseteq {u}
  PROVE  \A v \in rows : v # u => name[v] # n
BY DEF Matches, Like

LEMMA Ungenerated ==
  ASSUME NEW n, Generated(n)
  PROVE  \A v \in rows : name[v] # n
BY DEF Generated, Matches, Like

(* A row of its own *)
LEMMA EnrolNames ==
  ASSUME DirectoryInv, NEW u \in Users, NEW n \in Names, u \notin rows, Enrol(u, n)
  PROVE  /\ rows' \subseteq Users /\ name' \in [Users -> Names \cup {Null}] /\ handle' \in [Users -> Names \cup {Null}]
         /\ RowsOK' /\ NamesAreOwn'
<1>1. /\ rows' = rows \cup {u} /\ name' = [name EXCEPT ![u] = n] /\ handle' = [handle EXCEPT ![u] = n]
      /\ \A v \in rows : name[v] # n
      /\ \A v \in Users \ {u} : handle[v] # n
  BY Ungenerated DEF Enrol, Conflict
<1>2. /\ name \in [Users -> Names \cup {Null}] /\ handle \in [Users -> Names \cup {Null}] /\ rows \subseteq Users
  BY DEF DirectoryInv, AccountsTypeOK
<1>3. n # Null
  BY NullAssumption
<1>4. \A v \in Users \ {u} : name[v] # n
  BY <1>1, <1>3 DEF DirectoryInv, RowsOK
<1>5. RowsOK'
  BY <1>1, <1>2 DEF DirectoryInv, RowsOK
<1>6. NamesAreOwn'
  <2>1. \A v \in Users : v # u => name'[v] = name[v] /\ handle'[v] = handle[v]
    BY <1>1, <1>2
  <2>2. name'[u] = n /\ handle'[u] = n
    BY <1>1, <1>2
  <2>3. \A v, w \in rows' : name'[v] = name'[w] /\ name'[v] # Null => v = w
    BY <1>1, <1>2, <1>4, <2>1, <2>2 DEF DirectoryInv, NamesAreOwn
  <2>4. \A v, w \in Users : handle'[v] # Null /\ handle'[v] \in {handle'[w], name'[w]} => v = w
    BY <1>1, <1>2, <1>4, <2>1, <2>2 DEF DirectoryInv, NamesAreOwn
  <2> QED BY <2>3, <2>4 DEF NamesAreOwn
<1> QED BY <1>1, <1>2, <1>5, <1>6

(* A name that nobody else has, for the handle at least *)
LEMMA RenameNames ==
  ASSUME DirectoryInv, NEW c \in Requests, NEW n \in Names, Rename(c, n)
  PROVE  /\ name' \in [Users -> Names \cup {Null}] /\ handle' \in [Users -> Names \cup {Null}]
         /\ RowsOK' /\ NamesAreOwn'
<1> DEFINE u == request[c].user
<1>1. /\ pc[c] = "loaded" /\ request[c].kind = "rename"
      /\ name' = name \/ name' = [name EXCEPT ![u] = n]
      /\ handle' = [handle EXCEPT ![u] = n] /\ rows' = rows
      /\ \A v \in rows : v # u => name[v] # n
      /\ \A v \in Users \ {u} : handle[v] # n
  BY Unmatched DEF Rename, Conflict, Renamed
<1>2. /\ name \in [Users -> Names \cup {Null}] /\ handle \in [Users -> Names \cup {Null}] /\ rows \subseteq Users
  BY DEF DirectoryInv, AccountsTypeOK
<1>3. u \in rows
  BY <1>1 DEF DirectoryInv, RequestsOK, Kinds
<1> HIDE DEF u
<1>4. n # Null
  BY NullAssumption
<1>5. \A v \in Users \ {u} : name[v] # n
  BY <1>1, <1>4 DEF DirectoryInv, RowsOK
<1>6. RowsOK'
  BY <1>1, <1>2, <1>3 DEF DirectoryInv, RowsOK
<1>7. NamesAreOwn'
  <2>1. \A v \in Users : v # u => name'[v] = name[v] /\ handle'[v] = handle[v]
    BY <1>1, <1>2
  <2>2. name'[u] \in {name[u], n} /\ handle'[u] = n
    BY <1>1, <1>2, <1>3
  <2>3. \A v, w \in rows' : name'[v] = name'[w] /\ name'[v] # Null => v = w
    BY <1>1, <1>2, <1>5, <2>1, <2>2 DEF DirectoryInv, NamesAreOwn
  <2>4. \A v, w \in Users : handle'[v] # Null /\ handle'[v] \in {handle'[w], name'[w]} => v = w
    <3> SUFFICES ASSUME NEW v \in Users, NEW w \in Users, handle'[v] # Null, handle'[v] \in {handle'[w], name'[w]},
                        v # w
                 PROVE  FALSE
      OBVIOUS
    <3>1. CASE v = u
      BY <1>1, <1>5, <2>1, <2>2, <3>1
    <3>2. CASE w = u
      BY <1>1, <2>1, <2>2, <3>2 DEF DirectoryInv, NamesAreOwn
    <3>3. CASE v # u /\ w # u
      BY <2>1, <3>3 DEF DirectoryInv, NamesAreOwn
    <3> QED BY <3>1, <3>2, <3>3
  <2> QED BY <2>3, <2>4 DEF NamesAreOwn
<1> QED BY <1>1, <1>2, <1>3, <1>6, <1>7

(* The names given at start-up *)
LEMMA BackfillNames ==
  ASSUME DirectoryInv, NEW new \in [{u \in rows : name[u] = Null} -> Names], Backfilled(new),
         rows' = rows
  PROVE  /\ name' \in [Users -> Names \cup {Null}] /\ handle' \in [Users -> Names \cup {Null}]
         /\ RowsOK' /\ NamesAreOwn'
<1> DEFINE called == [u \in Users |-> IF u \in DOMAIN new THEN new[u] ELSE name[u]]
<1>1. /\ \A u \in DOMAIN new : Generated(new[u])
      /\ \A u, v \in DOMAIN new : new[u] = new[v] => u = v
      /\ name' = called
      /\ handle' = [u \in Users |-> IF u \in rows THEN called[u] ELSE handle[u]]
  BY DEF Backfilled
<1>2. /\ name \in [Users -> Names \cup {Null}] /\ handle \in [Users -> Names \cup {Null}] /\ rows \subseteq Users
      /\ DOMAIN new = {u \in rows : name[u] = Null}
  BY DEF DirectoryInv, AccountsTypeOK
<1>3. \A u \in DOMAIN new, v \in rows : name[v] # new[u]
  BY <1>1, Ungenerated
<1>4. \A u \in Users : /\ u \in DOMAIN new => called[u] = new[u] /\ new[u] \in Names
                       /\ u \notin DOMAIN new => called[u] = name[u]
  BY <1>2
<1>5. /\ \A u \in Users : name'[u] = called[u] /\ name'[u] \in Names \cup {Null}
      /\ \A u \in rows : handle'[u] = called[u]
      /\ \A u \in Users \ rows : handle'[u] = Null /\ name'[u] = Null
  BY <1>1, <1>2, <1>4 DEF DirectoryInv, RowsOK
<1>6. \A u, v \in rows : called[u] = called[v] /\ called[u] # Null => u = v
  <2> SUFFICES ASSUME NEW u \in rows, NEW v \in rows, called[u] = called[v], called[u] # Null PROVE u = v
    OBVIOUS
  <2> HIDE DEF called
  <2>1. CASE u \in DOMAIN new /\ v \in DOMAIN new
    BY <1>1, <1>2, <1>4, <2>1
  <2>2. CASE u \notin DOMAIN new /\ v \notin DOMAIN new
    BY <1>2, <1>4, <2>2 DEF DirectoryInv, NamesAreOwn
  <2>3. CASE u \in DOMAIN new /\ v \notin DOMAIN new
    BY <1>2, <1>3, <1>4, <2>3
  <2>4. CASE u \notin DOMAIN new /\ v \in DOMAIN new
    BY <1>2, <1>3, <1>4, <2>4
  <2> QED BY <2>1, <2>2, <2>3, <2>4
<1>7. name' \in [Users -> Names \cup {Null}] /\ handle' \in [Users -> Names \cup {Null}]
  BY <1>1, <1>2, <1>4
<1> HIDE DEF called
<1>8. RowsOK'
  BY <1>5 DEF RowsOK
<1>9. NamesAreOwn'
  BY <1>2, <1>5, <1>6 DEF NamesAreOwn
<1> QED BY <1>7, <1>8, <1>9

----------------------------------------------------------------------------
(* Calls in progress, counted *)

LEMMA CountsAre ==
  /\ \A l : IsFiniteSet(LinkUses(l)) /\ Cardinality(LinkUses(l)) \in Nat
  /\ \A u : IsFiniteSet(Referrals(u)) /\ Cardinality(Referrals(u)) \in Nat
<1>1. IsFiniteSet(Requests)
  BY RequestsAssumption
<1>2. \A l : LinkUses(l) \subseteq Requests /\ Referrals(l) \subseteq Requests
  BY DEF LinkUses, Referrals
<1>3. \A S \in SUBSET Requests : IsFiniteSet(S)
  BY <1>1, FS_Subset
<1> QED BY <1>2, <1>3, FS_CardinalityType

LEMMA NoCallIs ==
  /\ NoRequest.kind = "none"
  /\ NoRequest \in [kind : Kinds \cup {"reset", "verify", "none"}, user : Users \cup {Null},
                    link : Links \cup {Null}, name : Names \cup {Null},
                    code : Codes \cup {Null}, knew : Requests \cup {Deleted, Null},
                    inviter : Users \cup {Null}, balance : Nat, invBalance : Nat,
                    invCount : Nat]
BY DEF NoRequest, Kinds

(* A call that is over counts no more. *)
LEMMA FinishCounts ==
  ASSUME DirectoryInv, NEW c \in Requests, Finish(c)
  PROVE  /\ \A l : LinkUses(l)' = LinkUses(l) \ {c} /\ Referrals(l)' = Referrals(l) \ {c}
         /\ \A l : /\ Cardinality(LinkUses(l)') \in Nat
                   /\ Cardinality(LinkUses(l)') = Cardinality(LinkUses(l)) - (IF c \in LinkUses(l) THEN 1 ELSE 0)
         /\ \A u : /\ Cardinality(Referrals(u)') \in Nat
                   /\ Cardinality(Referrals(u)') = Cardinality(Referrals(u)) - (IF c \in Referrals(u) THEN 1 ELSE 0)
<1> DEFINE no == NoRequest
<1>1. request' = [request EXCEPT ![c] = no] /\ no.kind = "none"
  BY NoCallIs DEF Finish
<1> HIDE DEF no
<1>2. \A l : LinkUses(l)' = LinkUses(l) \ {c} /\ Referrals(l)' = Referrals(l) \ {c}
  BY <1>1 DEF LinkUses, Referrals, DirectoryInv, AccountsTypeOK
<1>3. \A S : IsFiniteSet(S) /\ Cardinality(S) \in Nat =>
        /\ Cardinality(S \ {c}) \in Nat
        /\ Cardinality(S \ {c}) = Cardinality(S) - (IF c \in S THEN 1 ELSE 0)
  BY FS_RemoveElement, FS_CardinalityType
<1> QED BY <1>2, <1>3, CountsAre

(* A call that begins counts from then on. *)
LEMMA BeginCounts ==
  ASSUME DirectoryInv, NEW c \in Requests, NEW z, request[c].kind = "none",
         request' = [request EXCEPT ![c] = z]
  PROVE  /\ \A l : LET new == z.kind \in {"reset", "verify"} /\ z.link = l IN
              Cardinality(LinkUses(l)') = Cardinality(LinkUses(l)) + (IF new THEN 1 ELSE 0)
         /\ \A u : LET new == z.kind = "refer" /\ z.user = u IN
              Cardinality(Referrals(u)') = Cardinality(Referrals(u)) + (IF new THEN 1 ELSE 0)
<1>1. \A S : IsFiniteSet(S) /\ c \notin S => Cardinality(S \cup {c}) = Cardinality(S) + 1
  BY FS_AddElement
<1>2. \A l : LinkUses(l)' = IF z.kind \in {"reset", "verify"} /\ z.link = l THEN LinkUses(l) \cup {c} ELSE LinkUses(l)
  BY DEF LinkUses, DirectoryInv, AccountsTypeOK
<1>3. \A u : Referrals(u)' = IF z.kind = "refer" /\ z.user = u THEN Referrals(u) \cup {c} ELSE Referrals(u)
  BY DEF Referrals, DirectoryInv, AccountsTypeOK
<1>4. \A l : c \notin LinkUses(l) /\ c \notin Referrals(l)
  BY DEF LinkUses, Referrals
<1> QED BY <1>1, <1>2, <1>3, <1>4, CountsAre

(* Who is alone with a link or a claim is the first in progress. *)
LEMMA AloneIs ==
  \A k : /\ ~ Using(k) => LinkUses(k) = {} /\ Referrals(k) = {}
         /\ LinkUses(k) = {} => Cardinality(LinkUses(k)) = 0
         /\ Referrals(k) = {} => Cardinality(Referrals(k)) = 0
<1>1. \A k : ~ Using(k) => LinkUses(k) = {} /\ Referrals(k) = {}
  BY DEF LinkUses, Referrals, Using
<1> QED BY <1>1, FS_EmptySet

----------------------------------------------------------------------------
(* Rows, names and wallets *)

LEMMA ProfileHolds ==
  ASSUME DirectoryInv, rows \subseteq rows', rows' \subseteq Users, wallets' \subseteq rows',
         name' \in [Users -> Names \cup {Null}], handle' \in [Users -> Names \cup {Null}],
         RowsOK', NamesAreOwn',
         UNCHANGED <<password, link, code, referredBy, count, balance, claims, bonuses, pc, request, uses, overlaps, events>>
  PROVE  DirectoryInv'
<1> USE DEF DirectoryInv
<1>1. AccountsTypeOK'
  BY DEF AccountsTypeOK
<1>2. RequestsOK'
  BY DEF RequestsOK
<1>3. LinksOK'
  BY DEF LinksOK, LinkUses
<1>4. ClaimsOK'
  BY DEF ClaimsOK, Referrals
<1> QED BY <1>1, <1>2, <1>3, <1>4

LEMMA RegisterHolds ==
  ASSUME DirectoryInv, NEW u \in Users, NEW n \in Names, Register(u, n) \/ RegisterRefused(u, n)
  PROVE  DirectoryInv'
<1>1. /\ UNCHANGED <<password, link, code, referredBy, count, balance, claims, bonuses, pc, request, uses, overlaps, events>>
      /\ wallets' \in {wallets, wallets \cup {u}}
      /\ u \notin rows /\ Enrol(u, n) /\ rows' = rows \cup {u}
  BY DEF Register, RegisterRefused, Enrol, referrals, requests
<1>2. wallets \subseteq rows /\ rows \subseteq Users
  BY DEF DirectoryInv, AccountsTypeOK
<1> QED BY <1>1, <1>2, EnrolNames, ProfileHolds

LEMMA CreateWalletHolds == ASSUME DirectoryInv, NEW u \in Users, CreateWallet(u) PROVE DirectoryInv'
<1>1. /\ UNCHANGED <<rows, name, handle>> /\ u \in rows /\ wallets' = wallets \cup {u}
      /\ UNCHANGED <<password, link, code, referredBy, count, balance, claims, bonuses, pc, request, uses, overlaps, events>>
  BY DEF CreateWallet, referrals, requests
<1>2. /\ name' \in [Users -> Names \cup {Null}] /\ handle' \in [Users -> Names \cup {Null}]
      /\ RowsOK' /\ NamesAreOwn'
  BY <1>1 DEF DirectoryInv, AccountsTypeOK, RowsOK, NamesAreOwn
<1>3. wallets \subseteq rows /\ rows \subseteq Users
  BY DEF DirectoryInv, AccountsTypeOK
<1> QED BY <1>1, <1>2, <1>3, ProfileHolds

LEMMA RestartHolds == ASSUME DirectoryInv, Restart PROVE DirectoryInv'
<1> USE DEF DirectoryInv
<1> DEFINE no == NoRequest
<1>1. /\ events' = events + 1
      /\ pc' = [c \in Requests |-> IF pc[c] = "idle" THEN "idle" ELSE "done"]
      /\ request' = [c \in Requests |-> no]
      /\ UNCHANGED <<rows, wallets, password, link, code, referredBy, count, balance, claims, bonuses, uses, overlaps>>
      /\ (\E new \in [{u \in rows : name[u] = Null} -> Names] : Backfilled(new)) \/ UNCHANGED <<name, handle>>
  BY DEF Restart, referrals, names
<1>2. /\ no.kind = "none"
      /\ no \in [kind : Kinds \cup {"reset", "verify", "none"}, user : Users \cup {Null},
                 link : Links \cup {Null}, name : Names \cup {Null},
                 code : Codes \cup {Null}, knew : Requests \cup {Deleted, Null},
                 inviter : Users \cup {Null}, balance : Nat, invBalance : Nat, invCount : Nat]
  BY NoCallIs
<1> HIDE DEF no
<1>3. /\ name' \in [Users -> Names \cup {Null}] /\ handle' \in [Users -> Names \cup {Null}]
      /\ RowsOK' /\ NamesAreOwn'
  <2>1. CASE UNCHANGED <<name, handle>>
    BY <1>1, <2>1 DEF AccountsTypeOK, RowsOK, NamesAreOwn
  <2> QED BY <1>1, <2>1, BackfillNames
<1>4. AccountsTypeOK'
  BY <1>1, <1>2, <1>3 DEF AccountsTypeOK
<1>5. RequestsOK'
  BY <1>1, <1>2 DEF RequestsOK, Kinds
<1>6. \A l : LinkUses(l)' = {} /\ Referrals(l)' = {}
  BY <1>1, <1>2 DEF LinkUses, Referrals
<1>7. /\ \A l : Cardinality(LinkUses(l)') = 0 /\ Cardinality(Referrals(l)') = 0
      /\ \A l : Cardinality(LinkUses(l)) \in Nat /\ Cardinality(Referrals(l)) \in Nat
  BY <1>6, CountsAre, FS_EmptySet
<1>8. LinksOK'
  <2>1. \A l \in Links : uses[l] \in Nat /\ overlaps[l] \in Nat
    BY DEF AccountsTypeOK
  <2>2. \A l \in Links : uses[l] + Cardinality(LinkUses(l)') <= 1 + overlaps[l]
    BY <1>7, <2>1 DEF LinksOK
  <2> QED BY <1>1, <2>2 DEF LinksOK
<1>9. ClaimsOK'
  <2>1. \A u \in Users : claims[u] \in Nat /\ overlaps[u] \in Nat
    BY DEF AccountsTypeOK
  <2>2. \A u \in Users : claims[u] + Cardinality(Referrals(u)') <= 1 + overlaps[u]
    BY <1>7, <2>1 DEF ClaimsOK
  <2>3. \A c \in Requests : request'[c].kind \notin Kinds /\ pc'[c] # "found"
    BY <1>1, <1>2 DEF Kinds
  <2> QED BY <1>1, <2>2, <2>3 DEF ClaimsOK
<1> QED BY <1>3, <1>4, <1>5, <1>8, <1>9

----------------------------------------------------------------------------
(* Links and passwords *)

Password == /\ password' \in [Users -> Requests \cup {Deleted, Null}]
            /\ \A u \in Users : password[u] # Null => password'[u] # Null

LEMMA SentHolds ==
  ASSUME DirectoryInv, NEW l \in Links, NEW u \in Users, NEW kind \in {"reset", "verify"},
         Sent(l, kind, u)
  PROVE  DirectoryInv'
<1> USE DEF DirectoryInv
<1> DEFINE z == [status |-> "sent", kind |-> kind, user |-> u]
<1>1. /\ link[l].status = "none" /\ u \in rows /\ link' = [link EXCEPT ![l] = z]
      /\ UNCHANGED <<rows, name, handle, wallets, password, code, referredBy, count, balance, claims, bonuses,
                     pc, request, uses, overlaps, events>>
  BY DEF Sent, profile, names, referrals, requests
<1>2. /\ z \in [status : {"none", "sent", "used"}, kind : {"none", "reset", "verify"}, user : Users \cup {Null}]
      /\ z.status = "sent" /\ z.user = u /\ z.kind # "none"
  OBVIOUS
<1> HIDE DEF z
<1>3. AccountsTypeOK'
  BY <1>1, <1>2 DEF AccountsTypeOK
<1>4. RowsOK' /\ NamesAreOwn'
  BY <1>1 DEF RowsOK, NamesAreOwn
<1>5. RequestsOK'
  BY <1>1, <1>2 DEF RequestsOK, AccountsTypeOK
<1>6. LinksOK'
  <2>1. \A k : Cardinality(LinkUses(k)') = Cardinality(LinkUses(k))
    BY <1>1 DEF LinkUses
  <2> QED BY <1>1, <1>2, <2>1 DEF LinksOK, AccountsTypeOK
<1>7. ClaimsOK'
  BY <1>1 DEF ClaimsOK, Referrals
<1> QED BY <1>3, <1>4, <1>5, <1>6, <1>7

(* A password, a name or a code is replaced, and maybe a call ends. *)
LEMMA PasswordHolds ==
  ASSUME DirectoryInv, Password, events' \in Nat,
         name' \in [Users -> Names \cup {Null}], handle' \in [Users -> Names \cup {Null}],
         RowsOK', NamesAreOwn', code' \in [Users -> Codes \cup {Null}],
         UNCHANGED <<rows, wallets, link, referredBy, count, balance, claims, bonuses,
                     uses, overlaps>>,
         UNCHANGED <<pc, request>> \/ \E c \in Requests : Finish(c)
  PROVE  DirectoryInv'
<1> USE DEF DirectoryInv
<1>2. CASE UNCHANGED <<pc, request>>
  <2>1. AccountsTypeOK'
    BY <1>2 DEF AccountsTypeOK, Password
  <2>2. RequestsOK' /\ ClaimsOK'
    BY <1>2 DEF RequestsOK, ClaimsOK, Referrals
  <2>3. LinksOK'
    <3>1. \A k : Cardinality(LinkUses(k)') = Cardinality(LinkUses(k))
      BY <1>2 DEF LinkUses
    <3> QED BY <3>1 DEF LinksOK, Password
  <2> QED BY <2>1, <2>2, <2>3
<1>3. ASSUME NEW c \in Requests, Finish(c) PROVE DirectoryInv'
  <2> DEFINE no == NoRequest
  <2>1. /\ pc' = [pc EXCEPT ![c] = "done"] /\ request' = [request EXCEPT ![c] = no]
    BY <1>3 DEF Finish
  <2>2. /\ no.kind = "none"
        /\ no \in [kind : Kinds \cup {"reset", "verify", "none"}, user : Users \cup {Null},
                   link : Links \cup {Null}, name : Names \cup {Null},
                   code : Codes \cup {Null}, knew : Requests \cup {Deleted, Null},
                   inviter : Users \cup {Null}, balance : Nat, invBalance : Nat, invCount : Nat]
    BY NoCallIs
  <2> HIDE DEF no
  <2>3. AccountsTypeOK'
    BY <2>1, <2>2 DEF AccountsTypeOK, Password
  <2>4. RequestsOK'
    BY <2>1, <2>2 DEF RequestsOK, AccountsTypeOK, Kinds
  <2>5. /\ \A l : /\ Cardinality(LinkUses(l)') \in Nat /\ Cardinality(Referrals(l)') \in Nat
                  /\ Cardinality(LinkUses(l)) \in Nat /\ Cardinality(Referrals(l)) \in Nat
                  /\ Cardinality(LinkUses(l)') <= Cardinality(LinkUses(l))
                  /\ Cardinality(Referrals(l)') <= Cardinality(Referrals(l))
    BY <1>3, FinishCounts, CountsAre
  <2>6. LinksOK'
    <3>1. \A l \in Links : uses[l] \in Nat /\ overlaps[l] \in Nat
      BY DEF AccountsTypeOK
    <3>2. \A l \in Links : uses[l] + Cardinality(LinkUses(l)') <= 1 + overlaps[l]
      BY <2>5, <3>1 DEF LinksOK
    <3> QED BY <3>2 DEF LinksOK, Password
  <2>7. ClaimsOK'
    <3>1. \A u \in Users : claims[u] \in Nat /\ overlaps[u] \in Nat
      BY DEF AccountsTypeOK
    <3>2. \A u \in Users : claims[u] + Cardinality(Referrals(u)') <= 1 + overlaps[u]
      BY <2>5, <3>1 DEF ClaimsOK
    <3>3. \A g \in Requests : /\ request'[g].kind \in Kinds => request'[g] = request[g]
                              /\ pc'[g] = "found" => pc[g] = "found" /\ request'[g] = request[g]
      BY <2>1, <2>2 DEF AccountsTypeOK, Kinds
    <3> QED BY <3>2, <3>3 DEF ClaimsOK
  <2> QED BY <2>3, <2>4, <2>6, <2>7
<1> QED BY <1>2, <1>3

LEMMA SecretsHold ==
  ASSUME DirectoryInv,
         \/ \E u \in Users : DeleteAccount(u)
         \/ \E c \in Requests : \/ ChangePassword(c) \/ Refuse(c)
                               \/ \E k \in Codes : CreateCode(c, k)
  PROVE  DirectoryInv'
<1>1. Deleted # Null /\ Null \notin Requests
  BY NullAssumption
<1>2. /\ password \in [Users -> Requests \cup {Deleted, Null}] /\ events \in Nat
      /\ code \in [Users -> Codes \cup {Null}]
  BY DEF DirectoryInv, AccountsTypeOK
<1>2a. UNCHANGED <<rows, name, handle>> =>
        /\ name' \in [Users -> Names \cup {Null}] /\ handle' \in [Users -> Names \cup {Null}]
        /\ RowsOK' /\ NamesAreOwn'
  BY DEF DirectoryInv, AccountsTypeOK, RowsOK, NamesAreOwn
<1>3. ASSUME NEW u \in Users, DeleteAccount(u) PROVE DirectoryInv'
  <2>1. /\ events' = events + 1 /\ password' = [password EXCEPT ![u] = Deleted]
        /\ UNCHANGED <<rows, name, handle, wallets, link, code, referredBy, count, balance, claims, bonuses,
                       uses, overlaps, pc, request>>
    BY <1>3 DEF DeleteAccount, profile, names, referrals, requests
  <2>2. Password /\ events' \in Nat
    BY <1>1, <1>2, <2>1 DEF Password
  <2> QED BY <1>2, <1>2a, <2>1, <2>2, PasswordHolds
<1>4. ASSUME NEW c \in Requests, ChangePassword(c) PROVE DirectoryInv'
  <2>1. /\ password' = [password EXCEPT ![request[c].user] = c] /\ Finish(c)
        /\ UNCHANGED <<rows, name, handle, wallets, link, code, referredBy, count, balance, claims, bonuses,
                       uses, overlaps, events>>
    BY <1>4 DEF ChangePassword, profile, names, referrals
  <2>2. Password /\ events' \in Nat
    BY <1>1, <1>2, <2>1 DEF Password
  <2> QED BY <1>2, <1>2a, <2>1, <2>2, PasswordHolds
<1>5. ASSUME NEW c \in Requests, Refuse(c) PROVE DirectoryInv'
  <2>1. /\ Finish(c)
        /\ UNCHANGED <<rows, name, handle, wallets, link, code, referredBy, count, balance, claims, bonuses,
                       password, uses, overlaps, events>>
    BY <1>5 DEF Refuse, profile, names, referrals
  <2>2. Password /\ events' \in Nat
    BY <1>2, <2>1 DEF Password
  <2> QED BY <1>2, <1>2a, <2>1, <2>2, PasswordHolds
<1>6. ASSUME NEW c \in Requests, NEW k \in Codes, CreateCode(c, k) PROVE DirectoryInv'
  <2>1. /\ code' = [code EXCEPT ![request[c].user] = k] /\ Finish(c)
        /\ UNCHANGED <<rows, name, handle, wallets, password, link, referredBy, count, balance, claims, bonuses,
                       uses, overlaps, events>>
    BY <1>6 DEF CreateCode, profile, names
  <2>2. Password /\ events' \in Nat /\ code' \in [Users -> Codes \cup {Null}]
    BY <1>2, <2>1 DEF Password
  <2> QED BY <1>2a, <2>1, <2>2, PasswordHolds
<1> QED BY <1>3, <1>4, <1>5, <1>6

LEMMA RenameHolds ==
  ASSUME DirectoryInv, NEW c \in Requests, NEW n \in Names, Rename(c, n)
  PROVE  DirectoryInv'
<1>1. /\ Finish(c)
      /\ UNCHANGED <<rows, wallets, password, link, code, referredBy, count, balance, claims, bonuses,
                     uses, overlaps, events>>
  BY DEF Rename, referrals
<1>2. Password /\ events' \in Nat /\ code' \in [Users -> Codes \cup {Null}]
  BY <1>1 DEF Password, DirectoryInv, AccountsTypeOK
<1> QED BY <1>1, <1>2, RenameNames, PasswordHolds

LEMMA FindLinkHolds ==
  ASSUME DirectoryInv, NEW c \in Requests, NEW l \in Links, FindLink(c, l)
  PROVE  DirectoryInv'
<1> USE DEF DirectoryInv
<1> DEFINE no == NoRequest
           z == [no EXCEPT !.kind = link[l].kind, !.link = l, !.user = link[l].user]
<1>1. /\ pc[c] = "idle" /\ link[l].status = "sent"
      /\ pc' = [pc EXCEPT ![c] = "loaded"] /\ request' = [request EXCEPT ![c] = z]
      /\ overlaps' = [overlaps EXCEPT ![l] = @ + (IF Using(l) THEN 1 ELSE 0)]
      /\ UNCHANGED <<rows, name, handle, wallets, password, link, code, referredBy, count, balance, claims, bonuses,
                     uses, events>>
  BY DEF FindLink, Usable, Overlapped, profile, names, referrals
<1>2. link[l].kind \in {"reset", "verify"} /\ link[l].user \in Users
  BY <1>1 DEF LinksOK, AccountsTypeOK
<1>3. no \in [kind : Kinds \cup {"reset", "verify", "none"}, user : Users \cup {Null},
              link : Links \cup {Null}, name : Names \cup {Null},
              code : Codes \cup {Null}, knew : Requests \cup {Deleted, Null},
              inviter : Users \cup {Null}, balance : Nat, invBalance : Nat, invCount : Nat]
  BY NoCallIs
<1> HIDE DEF no
<1>4. /\ z \in [kind : Kinds \cup {"reset", "verify", "none"}, user : Users \cup {Null},
                link : Links \cup {Null}, name : Names \cup {Null},
                code : Codes \cup {Null}, knew : Requests \cup {Deleted, Null},
                inviter : Users \cup {Null}, balance : Nat, invBalance : Nat, invCount : Nat]
      /\ z.kind = link[l].kind /\ z.link = l /\ z.user = link[l].user
  BY <1>2, <1>3
<1> HIDE DEF z
<1>5. request[c].kind = "none"
  BY <1>1 DEF RequestsOK
<1>6. overlaps' \in [Links \cup Users -> Nat] /\ \A k \in Links \cup Users : overlaps[k] <= overlaps'[k]
  BY <1>1 DEF AccountsTypeOK
<1>7. AccountsTypeOK'
  BY <1>1, <1>4, <1>6 DEF AccountsTypeOK
<1>8. RowsOK' /\ NamesAreOwn'
  BY <1>1 DEF RowsOK, NamesAreOwn
<1>9. RequestsOK'
  BY <1>1, <1>2, <1>4 DEF RequestsOK, AccountsTypeOK, Kinds
<1>10. /\ \A k : Cardinality(LinkUses(k)') = Cardinality(LinkUses(k)) + (IF k = l THEN 1 ELSE 0)
       /\ \A u : Cardinality(Referrals(u)') = Cardinality(Referrals(u))
       /\ \A k : Cardinality(LinkUses(k)) \in Nat /\ Cardinality(Referrals(k)) \in Nat
  <2>1. PICK y : y = z
    OBVIOUS
  <2>2. y.kind \in {"reset", "verify"} /\ y.kind # "refer" /\ y.link = l /\ request' = [request EXCEPT ![c] = y]
    BY <1>1, <1>2, <1>4, <2>1
  <2>3. /\ \A k : LET new == y.kind \in {"reset", "verify"} /\ y.link = k IN
            Cardinality(LinkUses(k)') = Cardinality(LinkUses(k)) + (IF new THEN 1 ELSE 0)
        /\ \A u : LET new == y.kind = "refer" /\ y.user = u IN
            Cardinality(Referrals(u)') = Cardinality(Referrals(u)) + (IF new THEN 1 ELSE 0)
    BY <1>5, <2>2, BeginCounts
  <2>4. \A u : Cardinality(Referrals(u)) \in Nat
    BY CountsAre
  <2> QED BY <2>2, <2>3, <2>4, CountsAre
<1>11. LinksOK'
  <2>1. uses[l] = 0 /\ uses[l] + Cardinality(LinkUses(l)) <= 1 + overlaps[l]
    BY <1>1 DEF LinksOK
  <2>2. overlaps[l] \in Nat
    BY DEF AccountsTypeOK
  <2>3. overlaps'[l] = overlaps[l] + (IF Using(l) THEN 1 ELSE 0)
    BY <1>1 DEF AccountsTypeOK
  <2>4. ~ Using(l) => Cardinality(LinkUses(l)) = 0
    BY AloneIs
  <2>5. uses[l] + Cardinality(LinkUses(l)') <= 1 + overlaps'[l]
    BY <1>10, <2>1, <2>2, <2>3, <2>4
  <2>6. ASSUME NEW k \in Links, k # l PROVE uses[k] + Cardinality(LinkUses(k)') <= 1 + overlaps'[k]
    <3>1. uses[k] \in Nat /\ overlaps[k] \in Nat /\ overlaps'[k] = overlaps[k]
      BY <1>1, <2>6 DEF AccountsTypeOK
    <3> QED BY <1>10, <2>6, <3>1 DEF LinksOK
  <2> QED BY <1>1, <2>5, <2>6 DEF LinksOK
<1>12. ClaimsOK'
  <2>1. \A u \in Users : claims[u] \in Nat /\ overlaps[u] \in Nat /\ overlaps'[u] \in Nat /\ overlaps[u] <= overlaps'[u]
    BY <1>6 DEF AccountsTypeOK
  <2>2. \A u \in Users : claims[u] + Cardinality(Referrals(u)') <= 1 + overlaps'[u]
    BY <1>10, <2>1 DEF ClaimsOK
  <2>3. \A g \in Requests : /\ request'[g].kind \in Kinds => request'[g] = request[g]
                            /\ pc'[g] = "found" => pc[g] = "found" /\ request'[g] = request[g]
    BY <1>1, <1>2, <1>4 DEF AccountsTypeOK, Kinds
  <2> QED BY <1>1, <2>2, <2>3 DEF ClaimsOK
<1> QED BY <1>7, <1>8, <1>9, <1>11, <1>12

(* The link is marked, and what it stands for done, in one commit. *)
LEMMA UseLinkHolds ==
  ASSUME DirectoryInv, NEW c \in Requests, ResetPassword(c) \/ VerifyMagicLink(c)
  PROVE  DirectoryInv'
<1> USE DEF DirectoryInv
<1> DEFINE l == request[c].link
           no == NoRequest
<1>1. /\ request[c].kind \in {"reset", "verify"} /\ pc[c] = "loaded" /\ Finish(c)
      /\ link' = [link EXCEPT ![l].status = "used"] /\ uses' = [uses EXCEPT ![l] = @ + 1]
      /\ pc' = [pc EXCEPT ![c] = "done"] /\ request' = [request EXCEPT ![c] = no]
      /\ \/ request[c].kind = "reset" /\ password' = [password EXCEPT ![request[c].user] = c]
         \/ request[c].kind = "verify" /\ password' = password
      /\ UNCHANGED <<rows, name, handle, wallets, code, referredBy, count, balance, claims, bonuses,
                     overlaps, events>>
  BY DEF ResetPassword, VerifyMagicLink, UseLink, Finish, profile, names, referrals
<1>2. /\ l \in Links /\ link[l].kind = request[c].kind /\ link[l].user = request[c].user
      /\ link[l].status # "none" /\ request[c].user \in Users
  BY <1>1 DEF RequestsOK
<1>3. /\ no.kind = "none"
      /\ no \in [kind : Kinds \cup {"reset", "verify", "none"}, user : Users \cup {Null},
                 link : Links \cup {Null}, name : Names \cup {Null},
                 code : Codes \cup {Null}, knew : Requests \cup {Deleted, Null},
                 inviter : Users \cup {Null}, balance : Nat, invBalance : Nat, invCount : Nat]
  BY NoCallIs
<1>4. c \in LinkUses(l) /\ \A k : k # l => c \notin LinkUses(k)
  BY <1>1 DEF LinkUses
<1> HIDE DEF no, l
<1> DEFINE used == [link[l] EXCEPT !.status = "used"]
<1>5. /\ used \in [status : {"none", "sent", "used"}, kind : {"none", "reset", "verify"}, user : Users \cup {Null}]
      /\ used.status = "used" /\ used.kind = link[l].kind /\ used.user = link[l].user
      /\ link' = [link EXCEPT ![l] = used]
  <2>1. link[l] \in [status : {"none", "sent", "used"}, kind : {"none", "reset", "verify"}, user : Users \cup {Null}]
    BY <1>2 DEF AccountsTypeOK
  <2>2. PICK r \in [status : {"none", "sent", "used"}, kind : {"none", "reset", "verify"}, user : Users \cup {Null}] : r = link[l]
    BY <2>1
  <2>3. link' = [link EXCEPT ![l] = used]
    BY <1>1
  <2> QED BY <2>2, <2>3
<1> HIDE DEF used
<1>6. Password /\ (request[c].kind = "reset" => password'[request[c].user] # Null)
  BY <1>1, <1>2, NullAssumption DEF Password, AccountsTypeOK
<1>7. uses' \in [Links -> Nat] /\ uses'[l] = uses[l] + 1 /\ \A k \in Links : k # l => uses'[k] = uses[k]
  BY <1>1, <1>2 DEF AccountsTypeOK
<1>8. AccountsTypeOK'
  BY <1>1, <1>2, <1>3, <1>5, <1>6, <1>7 DEF AccountsTypeOK, Password
<1>9. RowsOK' /\ NamesAreOwn'
  BY <1>1 DEF RowsOK, NamesAreOwn
<1>10. RequestsOK'
  BY <1>1, <1>2, <1>3, <1>5 DEF RequestsOK, AccountsTypeOK, Kinds
<1>11. /\ \A k : /\ Cardinality(LinkUses(k)) \in Nat /\ Cardinality(Referrals(k)) \in Nat
                 /\ Cardinality(LinkUses(k)') = Cardinality(LinkUses(k)) - (IF k = l THEN 1 ELSE 0)
                 /\ Cardinality(Referrals(k)') \in Nat /\ Cardinality(Referrals(k)') <= Cardinality(Referrals(k))
  BY <1>1, <1>4, FinishCounts, CountsAre
<1>12. LinksOK'
  <2>1. \A k \in Links : uses[k] \in Nat /\ overlaps[k] \in Nat
    BY DEF AccountsTypeOK
  <2>2. \A k \in Links : uses'[k] + Cardinality(LinkUses(k)') <= 1 + overlaps[k]
    BY <1>7, <1>11, <2>1 DEF LinksOK
  <2>3. \A k \in Links : k # l => link'[k] = link[k]
    BY <1>5 DEF AccountsTypeOK
  <2>4. link'[l] = used
    BY <1>2, <1>5 DEF AccountsTypeOK
  <2> SUFFICES ASSUME NEW k \in Links
               PROVE  /\ link'[k].status # "none" => link'[k].user \in Users /\ link'[k].kind # "none"
                      /\ link'[k].status # "used" => uses'[k] = 0
                      /\ link'[k].status = "used" /\ link'[k].kind = "reset" => password'[link'[k].user] # Null
    BY <1>1, <2>2 DEF LinksOK
  <2>5. CASE k = l
    BY <1>1, <1>2, <1>5, <1>6, <2>4, <2>5
  <2>6. CASE k # l
    BY <1>6, <1>7, <2>3, <2>6 DEF LinksOK, Password
  <2> QED BY <2>5, <2>6
<1>13. ClaimsOK'
  <2>1. \A u \in Users : claims[u] \in Nat /\ overlaps[u] \in Nat
    BY DEF AccountsTypeOK
  <2>2. \A u \in Users : claims[u] + Cardinality(Referrals(u)') <= 1 + overlaps[u]
    BY <1>11, <2>1 DEF ClaimsOK
  <2>3. \A g \in Requests : /\ request'[g].kind \in Kinds => request'[g] = request[g]
                            /\ pc'[g] = "found" => pc[g] = "found" /\ request'[g] = request[g]
    BY <1>1, <1>3 DEF AccountsTypeOK, Kinds
  <2> QED BY <1>1, <2>2, <2>3 DEF ClaimsOK
<1> QED BY <1>8, <1>9, <1>10, <1>12, <1>13

----------------------------------------------------------------------------
(* Codes and referrals *)

LEMMA BeginHolds ==
  ASSUME DirectoryInv, NEW c \in Requests, NEW u \in Users, NEW kind \in Kinds, BeginRequest(c, kind, u)
  PROVE  DirectoryInv'
<1> USE DEF DirectoryInv
<1> DEFINE no == NoRequest
           z == [no EXCEPT !.kind = kind, !.user = u, !.name = name[u], !.knew = password[u], !.balance = balance[u]]
<1>1. /\ pc[c] = "idle" /\ u \in rows /\ (kind = "refer" => referredBy[u] = Null)
      /\ pc' = [pc EXCEPT ![c] = "loaded"] /\ request' = [request EXCEPT ![c] = z]
      /\ overlaps' = IF kind = "refer" THEN [overlaps EXCEPT ![u] = @ + (IF Using(u) THEN 1 ELSE 0)] ELSE overlaps
      /\ UNCHANGED <<rows, name, handle, wallets, password, link, code, referredBy, count, balance, claims, bonuses,
                     uses, events>>
  BY DEF BeginRequest, Overlapped, profile, names, referrals
<1>2. /\ name[u] \in Names \cup {Null} /\ password[u] \in Requests \cup {Deleted, Null} /\ balance[u] \in Nat
  BY DEF AccountsTypeOK
<1>3. no \in [kind : Kinds \cup {"reset", "verify", "none"}, user : Users \cup {Null},
              link : Links \cup {Null}, name : Names \cup {Null},
              code : Codes \cup {Null}, knew : Requests \cup {Deleted, Null},
              inviter : Users \cup {Null}, balance : Nat, invBalance : Nat, invCount : Nat]
  BY NoCallIs
<1> HIDE DEF no
<1>4. /\ z \in [kind : Kinds \cup {"reset", "verify", "none"}, user : Users \cup {Null},
                link : Links \cup {Null}, name : Names \cup {Null},
                code : Codes \cup {Null}, knew : Requests \cup {Deleted, Null},
                inviter : Users \cup {Null}, balance : Nat, invBalance : Nat, invCount : Nat]
      /\ z.kind = kind /\ z.user = u /\ z.balance = balance[u]
  BY <1>2, <1>3
<1> HIDE DEF z
<1>5. request[c].kind = "none"
  BY <1>1 DEF RequestsOK
<1>6. overlaps' \in [Links \cup Users -> Nat] /\ \A k \in Links \cup Users : overlaps[k] <= overlaps'[k]
  BY <1>1 DEF AccountsTypeOK
<1>7. AccountsTypeOK'
  BY <1>1, <1>4, <1>6 DEF AccountsTypeOK
<1>8. RowsOK' /\ NamesAreOwn'
  BY <1>1 DEF RowsOK, NamesAreOwn
<1>9. RequestsOK'
  BY <1>1, <1>4 DEF RequestsOK, AccountsTypeOK, Kinds
<1>10. /\ \A k : Cardinality(LinkUses(k)') = Cardinality(LinkUses(k))
       /\ \A v : Cardinality(Referrals(v)') = Cardinality(Referrals(v)) + (IF kind = "refer" /\ v = u THEN 1 ELSE 0)
       /\ \A k : Cardinality(LinkUses(k)) \in Nat /\ Cardinality(Referrals(k)) \in Nat
  <2>1. PICK y : y = z
    OBVIOUS
  <2>2. y.kind = kind /\ y.kind \notin {"reset", "verify"} /\ y.user = u /\ request' = [request EXCEPT ![c] = y]
    BY <1>1, <1>4, <2>1 DEF Kinds
  <2>3. /\ \A k : LET new == y.kind \in {"reset", "verify"} /\ y.link = k IN
            Cardinality(LinkUses(k)') = Cardinality(LinkUses(k)) + (IF new THEN 1 ELSE 0)
        /\ \A v : LET new == y.kind = "refer" /\ y.user = v IN
            Cardinality(Referrals(v)') = Cardinality(Referrals(v)) + (IF new THEN 1 ELSE 0)
    BY <1>5, <2>2, BeginCounts
  <2> QED BY <2>2, <2>3, CountsAre
<1>11. LinksOK'
  <2>1. \A k \in Links : uses[k] \in Nat /\ overlaps[k] \in Nat /\ overlaps'[k] \in Nat /\ overlaps[k] <= overlaps'[k]
    BY <1>6 DEF AccountsTypeOK
  <2>2. \A k \in Links : uses[k] + Cardinality(LinkUses(k)') <= 1 + overlaps'[k]
    BY <1>10, <2>1 DEF LinksOK
  <2> QED BY <1>1, <2>2 DEF LinksOK
<1>12. ClaimsOK'
  <2>1. \A v \in Users : claims[v] \in Nat /\ overlaps[v] \in Nat /\ overlaps'[v] \in Nat /\ overlaps[v] <= overlaps'[v]
    BY <1>6 DEF AccountsTypeOK
  <2>2. \A v \in Users : claims[v] + Cardinality(Referrals(v)') <= 1 + overlaps'[v]
    <3> SUFFICES ASSUME NEW v \in Users PROVE claims[v] + Cardinality(Referrals(v)') <= 1 + overlaps'[v]
      OBVIOUS
    <3>1. CASE kind = "refer" /\ v = u
      <4>1. claims[u] = 0 /\ claims[u] + Cardinality(Referrals(u)) <= 1 + overlaps[u]
        BY <1>1, <3>1 DEF ClaimsOK
      <4>2. overlaps'[u] = overlaps[u] + (IF Using(u) THEN 1 ELSE 0)
        BY <1>1, <3>1 DEF AccountsTypeOK
      <4>3. ~ Using(u) => Cardinality(Referrals(u)) = 0
        BY AloneIs
      <4> QED BY <1>10, <2>1, <3>1, <4>1, <4>2, <4>3
    <3>2. CASE ~ (kind = "refer" /\ v = u)
      <4>1. claims[v] + Cardinality(Referrals(v)) <= 1 + overlaps[v]
        BY DEF ClaimsOK
      <4> QED BY <1>10, <2>1, <3>2, <4>1
    <3> QED BY <3>1, <3>2
  <2>3. /\ request'[c].kind = kind /\ request'[c].user = u /\ request'[c].balance = balance[u] /\ pc'[c] = "loaded"
        /\ \A g \in Requests : g # c => request'[g] = request[g] /\ pc'[g] = pc[g]
    BY <1>1, <1>4 DEF AccountsTypeOK
  <2>4. balance[u] <= Bonus * bonuses[u]
    BY DEF ClaimsOK
  <2>5. \A g \in Requests :
          /\ request'[g].kind \in Kinds => request'[g].balance <= Bonus * bonuses[request'[g].user]
          /\ pc'[g] = "found" => /\ request'[g].invBalance <= Bonus * bonuses[request'[g].inviter]
                                 /\ request'[g].invCount <= bonuses[request'[g].inviter]
    <3> SUFFICES ASSUME NEW g \in Requests
                 PROVE /\ request'[g].kind \in Kinds => request'[g].balance <= Bonus * bonuses[request'[g].user]
                       /\ pc'[g] = "found" => /\ request'[g].invBalance <= Bonus * bonuses[request'[g].inviter]
                                              /\ request'[g].invCount <= bonuses[request'[g].inviter]
      OBVIOUS
    <3>1. CASE g = c
      BY <2>3, <2>4, <3>1
    <3>2. CASE g # c
      BY <2>3, <3>2 DEF ClaimsOK
    <3> QED BY <3>1, <3>2
  <2> QED BY <1>1, <2>2, <2>5 DEF ClaimsOK
<1> QED BY <1>7, <1>8, <1>9, <1>11, <1>12

LEMMA FindInviterHolds ==
  ASSUME DirectoryInv, NEW c \in Requests, NEW i \in Users, FindInviter(c, i)
  PROVE  DirectoryInv'
<1> USE DEF DirectoryInv
<1> DEFINE CT == [kind : Kinds \cup {"reset", "verify", "none"}, user : Users \cup {Null},
                  link : Links \cup {Null}, name : Names \cup {Null},
                  code : Codes \cup {Null}, knew : Requests \cup {Deleted, Null},
                  inviter : Users \cup {Null}, balance : Nat, invBalance : Nat, invCount : Nat]
           z == [request[c] EXCEPT !.inviter = i, !.code = code[i], !.invBalance = balance[i], !.invCount = count[i]]
<1>1. /\ pc[c] = "loaded" /\ request[c].kind = "refer" /\ i \in rows \ {request[c].user} /\ code[i] # Null
      /\ pc' = [pc EXCEPT ![c] = "found"] /\ request' = [request EXCEPT ![c] = z]
      /\ UNCHANGED <<rows, name, handle, wallets, password, link, code, referredBy, count, balance, claims, bonuses,
                     uses, overlaps, events>>
  BY DEF FindInviter, profile, names, referrals
<1>2. code[i] \in Codes \cup {Null} /\ balance[i] \in Nat /\ count[i] \in Nat /\ request[c] \in CT
  BY DEF AccountsTypeOK
<1>3. /\ z \in CT /\ z.kind = request[c].kind /\ z.user = request[c].user /\ z.balance = request[c].balance
      /\ z.link = request[c].link /\ z.inviter = i /\ z.code = code[i] /\ z.invBalance = balance[i] /\ z.invCount = count[i]
  <2>1. PICK x \in CT : x = request[c]
    BY <1>2
  <2>2. PICK a \in Codes \cup {Null} : a = code[i]
    BY <1>2
  <2>3. PICK b \in Nat : b = balance[i]
    BY <1>2
  <2>4. PICK n \in Nat : n = count[i]
    BY <1>2
  <2> DEFINE y == [x EXCEPT !.inviter = i, !.code = a, !.invBalance = b, !.invCount = n]
  <2>5. z = y
    BY <2>1, <2>2, <2>3, <2>4
  <2>6. /\ y \in CT /\ y.kind = x.kind /\ y.user = x.user /\ y.balance = x.balance /\ y.link = x.link
        /\ y.inviter = i /\ y.code = a /\ y.invBalance = b /\ y.invCount = n
    OBVIOUS
  <2> HIDE DEF z, y
  <2> QED BY <2>1, <2>2, <2>3, <2>4, <2>5, <2>6
<1> HIDE DEF z
<1>4. AccountsTypeOK'
  BY <1>1, <1>3 DEF AccountsTypeOK
<1>5. RowsOK' /\ NamesAreOwn'
  BY <1>1 DEF RowsOK, NamesAreOwn
<1> HIDE DEF CT
<1>6. /\ request'[c] = z /\ pc'[c] = "found"
      /\ \A g \in Requests : g # c => request'[g] = request[g] /\ pc'[g] = pc[g]
  BY <1>1 DEF AccountsTypeOK
<1>7. RequestsOK'
  BY <1>1, <1>2, <1>3, <1>6 DEF RequestsOK
<1>8. \A k : LinkUses(k)' = LinkUses(k) /\ Referrals(k)' = Referrals(k)
  BY <1>3, <1>6 DEF LinkUses, Referrals
<1>9. LinksOK'
  BY <1>1, <1>8 DEF LinksOK
<1>10. ClaimsOK'
  <2>1. balance[i] <= Bonus * bonuses[i] /\ count[i] <= bonuses[i]
    BY DEF ClaimsOK
  <2>2. \A g \in Requests :
          /\ request'[g].kind \in Kinds => request'[g].balance <= Bonus * bonuses[request'[g].user]
          /\ pc'[g] = "found" => /\ request'[g].invBalance <= Bonus * bonuses[request'[g].inviter]
                                 /\ request'[g].invCount <= bonuses[request'[g].inviter]
    <3> SUFFICES ASSUME NEW g \in Requests
                 PROVE /\ request'[g].kind \in Kinds => request'[g].balance <= Bonus * bonuses[request'[g].user]
                       /\ pc'[g] = "found" => /\ request'[g].invBalance <= Bonus * bonuses[request'[g].inviter]
                                              /\ request'[g].invCount <= bonuses[request'[g].inviter]
      OBVIOUS
    <3>1. CASE g = c
      BY <1>3, <1>6, <2>1, <3>1 DEF ClaimsOK
    <3>2. CASE g # c
      BY <1>6, <3>2 DEF ClaimsOK
    <3> QED BY <3>1, <3>2
  <2>3. \A u \in Users :
          /\ referredBy'[u] = Null => claims'[u] = 0
          /\ claims'[u] + Cardinality(Referrals(u)') <= 1 + overlaps'[u]
          /\ balance'[u] <= Bonus * bonuses'[u] /\ count'[u] <= bonuses'[u]
    BY <1>1, <1>8 DEF ClaimsOK
  <2> QED BY <1>1, <2>2, <2>3 DEF ClaimsOK
<1> QED BY <1>4, <1>5, <1>7, <1>9, <1>10

LEMMA Times == ASSUME NEW b \in Nat, NEW n \in Nat PROVE b * n \in Nat /\ b * (n + 1) = b * n + b
OBVIOUS

LEMMA TimesGrows == ASSUME NEW b \in Nat, NEW n \in Nat, NEW m \in Nat, n <= m PROVE b * n <= b * m
OBVIOUS

(* The commit of a referral *)
LEMMA CommitReferralHolds ==
  ASSUME DirectoryInv, NEW c \in Requests, CommitReferral(c)
  PROVE  DirectoryInv'
<1> USE DEF DirectoryInv
<1> DEFINE u == request[c].user
           i == request[c].inviter
           no == NoRequest
<1>1. /\ pc[c] = "found" /\ Finish(c)
      /\ pc' = [pc EXCEPT ![c] = "done"] /\ request' = [request EXCEPT ![c] = no]
      /\ referredBy' = [referredBy EXCEPT ![u] = request[c].code]
      /\ count' = [count EXCEPT ![i] = request[c].invCount + 1]
      /\ balance' = [balance EXCEPT ![u] = request[c].balance + Bonus, ![i] = request[c].invBalance + Bonus]
      /\ claims' = [claims EXCEPT ![u] = @ + 1]
      /\ bonuses' = [bonuses EXCEPT ![u] = @ + 1, ![i] = @ + 1]
      /\ UNCHANGED <<rows, name, handle, wallets, password, link, code, uses, overlaps, events>>
  BY DEF CommitReferral, Marked, Paid, Finish, profile, names
<1>2. /\ request[c].kind = "refer" /\ u \in Users /\ i \in Users /\ i # u /\ request[c].code \in Codes
  BY <1>1 DEF RequestsOK, AccountsTypeOK
<1>3. /\ request[c].balance \in Nat /\ request[c].invBalance \in Nat /\ request[c].invCount \in Nat
      /\ request[c].balance <= Bonus * bonuses[u] /\ request[c].invBalance <= Bonus * bonuses[i]
      /\ request[c].invCount <= bonuses[i]
  BY <1>1, <1>2 DEF AccountsTypeOK, ClaimsOK, Kinds
<1>4. /\ no.kind = "none"
      /\ no \in [kind : Kinds \cup {"reset", "verify", "none"}, user : Users \cup {Null},
                 link : Links \cup {Null}, name : Names \cup {Null},
                 code : Codes \cup {Null}, knew : Requests \cup {Deleted, Null},
                 inviter : Users \cup {Null}, balance : Nat, invBalance : Nat, invCount : Nat]
  BY NoCallIs
<1>5. c \in Referrals(u) /\ \A v : v # u => c \notin Referrals(v)
  BY <1>2 DEF Referrals
<1> HIDE DEF no, u, i
<1>6. Bonus \in Nat /\ request[c].code # Null
  BY <1>2, NatAssumption, NullAssumption
<1>7. \A v \in Users : bonuses[v] \in Nat /\ balance[v] \in Nat /\ count[v] \in Nat /\ claims[v] \in Nat
                       /\ overlaps[v] \in Nat
  BY DEF AccountsTypeOK
<1>8. \A v \in Users : /\ bonuses'[v] = IF v \in {u, i} THEN bonuses[v] + 1 ELSE bonuses[v]
                       /\ claims'[v] = IF v = u THEN claims[v] + 1 ELSE claims[v]
                       /\ referredBy'[v] = IF v = u THEN request[c].code ELSE referredBy[v]
                       /\ count'[v] = IF v = i THEN request[c].invCount + 1 ELSE count[v]
                       /\ balance'[v] = IF v = i THEN request[c].invBalance + Bonus
                                        ELSE IF v = u THEN request[c].balance + Bonus ELSE balance[v]
  BY <1>1, <1>2 DEF AccountsTypeOK
<1>9. AccountsTypeOK'
  <2>1. referredBy' \in [Users -> Codes \cup {Null}]
    BY <1>1, <1>2 DEF AccountsTypeOK
  <2>2. count' \in [Users -> Nat] /\ claims' \in [Users -> Nat]
    BY <1>1, <1>2, <1>3 DEF AccountsTypeOK
  <2>3. balance' \in [Users -> Nat]
    <3>1. request[c].balance + Bonus \in Nat /\ request[c].invBalance + Bonus \in Nat
      BY <1>3, <1>6
    <3>2. balance \in [Users -> Nat]
      BY DEF AccountsTypeOK
    <3> QED BY <1>1, <3>1, <3>2
  <2>4. bonuses' \in [Users -> Nat]
    BY <1>1, <1>2 DEF AccountsTypeOK
  <2> QED BY <1>1, <1>4, <2>1, <2>2, <2>3, <2>4 DEF AccountsTypeOK
<1>10. RowsOK' /\ NamesAreOwn'
  BY <1>1 DEF RowsOK, NamesAreOwn
<1>11. RequestsOK'
  BY <1>1, <1>4 DEF RequestsOK, AccountsTypeOK, Kinds
<1>12. /\ \A k : /\ Cardinality(LinkUses(k)) \in Nat /\ Cardinality(Referrals(k)) \in Nat
                 /\ Cardinality(LinkUses(k)') \in Nat /\ Cardinality(LinkUses(k)') <= Cardinality(LinkUses(k))
                 /\ Cardinality(Referrals(k)') = Cardinality(Referrals(k)) - (IF k = u THEN 1 ELSE 0)
  BY <1>1, <1>5, FinishCounts, CountsAre
<1>13. LinksOK'
  <2>1. \A k \in Links : uses[k] \in Nat /\ overlaps[k] \in Nat
    BY DEF AccountsTypeOK
  <2>2. \A k \in Links : uses[k] + Cardinality(LinkUses(k)') <= 1 + overlaps[k]
    BY <1>12, <2>1 DEF LinksOK
  <2> QED BY <1>1, <2>2 DEF LinksOK
<1>14. ClaimsOK'
  <2>1. \A v \in Users : /\ referredBy'[v] = Null => claims'[v] = 0
                         /\ claims'[v] + Cardinality(Referrals(v)') <= 1 + overlaps'[v]
    BY <1>1, <1>6, <1>7, <1>8, <1>12 DEF ClaimsOK
  <2>2. \A v \in Users : /\ bonuses'[v] \in Nat /\ bonuses[v] <= bonuses'[v]
                         /\ Bonus * bonuses[v] \in Nat /\ Bonus * bonuses'[v] \in Nat
                         /\ Bonus * bonuses[v] <= Bonus * bonuses'[v]
                         /\ v \in {u, i} => Bonus * bonuses'[v] = Bonus * bonuses[v] + Bonus
    <3> SUFFICES ASSUME NEW v \in Users
                 PROVE  /\ bonuses'[v] \in Nat /\ bonuses[v] <= bonuses'[v]
                        /\ Bonus * bonuses[v] \in Nat /\ Bonus * bonuses'[v] \in Nat
                        /\ Bonus * bonuses[v] <= Bonus * bonuses'[v]
                        /\ v \in {u, i} => Bonus * bonuses'[v] = Bonus * bonuses[v] + Bonus
      OBVIOUS
    <3>1. PICK n \in Nat : n = bonuses[v]
      BY <1>7
    <3>2. PICK m \in Nat : m = bonuses'[v]
      BY <1>7, <1>8
    <3>3. m = IF v \in {u, i} THEN n + 1 ELSE n
      BY <1>8, <3>1, <3>2
    <3>4. Bonus * n \in Nat /\ Bonus * m \in Nat /\ Bonus * (n + 1) = Bonus * n + Bonus
      BY <1>6, Times
    <3>5. Bonus * n <= Bonus * m
      BY <1>6, <3>3, TimesGrows
    <3> QED BY <3>1, <3>2, <3>3, <3>4, <3>5
  <2>3. \A v \in Users : balance[v] <= Bonus * bonuses[v] /\ count[v] <= bonuses[v]
    BY DEF ClaimsOK
  <2>4. \A v \in Users : balance'[v] <= Bonus * bonuses'[v] /\ count'[v] <= bonuses'[v]
    <3> SUFFICES ASSUME NEW v \in Users PROVE balance'[v] <= Bonus * bonuses'[v] /\ count'[v] <= bonuses'[v]
      OBVIOUS
    <3>1. CASE v = i
      <4>1. Bonus * bonuses'[i] = Bonus * bonuses[i] + Bonus /\ Bonus * bonuses[i] \in Nat
            /\ bonuses'[i] = bonuses[i] + 1 /\ balance'[i] = request[c].invBalance + Bonus
            /\ count'[i] = request[c].invCount + 1 /\ bonuses[i] \in Nat
        BY <1>2, <1>7, <1>8, <2>2
      <4> HIDE DEF u
      <4>2. request[c].invBalance + Bonus <= Bonus * bonuses'[i]
        BY <4>1, <1>3, <1>6
      <4> QED BY <3>1, <4>1, <4>2, <1>3
    <3>2. CASE v = u
      <4>1. Bonus * bonuses'[u] = Bonus * bonuses[u] + Bonus /\ Bonus * bonuses[u] \in Nat
            /\ bonuses'[u] = bonuses[u] + 1 /\ balance'[u] = request[c].balance + Bonus
            /\ count'[u] = count[u] /\ bonuses[u] \in Nat /\ count[u] \in Nat
        BY <1>2, <1>7, <1>8, <2>2
      <4>2. request[c].balance + Bonus <= Bonus * bonuses'[u]
        BY <4>1, <1>3, <1>6
      <4> QED BY <1>2, <2>3, <3>2, <4>1, <4>2
    <3>3. CASE v \notin {u, i}
      BY <1>7, <1>8, <2>3, <3>3
    <3> QED BY <3>1, <3>2, <3>3
  <2>5. \A g \in Requests : /\ request'[g].kind \in Kinds => request'[g] = request[g] /\ request[g].user \in Users
                            /\ pc'[g] = "found" => /\ pc[g] = "found" /\ request'[g] = request[g]
                                                   /\ request[g].inviter \in Users
    BY <1>1, <1>4 DEF AccountsTypeOK, Kinds, RequestsOK
  <2>6. \A g \in Requests : request[g].balance \in Nat /\ request[g].invBalance \in Nat /\ request[g].invCount \in Nat
    BY DEF AccountsTypeOK
  <2>7. \A g \in Requests :
          /\ request'[g].kind \in Kinds => request'[g].balance <= Bonus * bonuses'[request'[g].user]
          /\ pc'[g] = "found" => /\ request'[g].invBalance <= Bonus * bonuses'[request'[g].inviter]
                                 /\ request'[g].invCount <= bonuses'[request'[g].inviter]
    <3> SUFFICES ASSUME NEW g \in Requests
                 PROVE /\ request'[g].kind \in Kinds => request'[g].balance <= Bonus * bonuses'[request'[g].user]
                       /\ pc'[g] = "found" => /\ request'[g].invBalance <= Bonus * bonuses'[request'[g].inviter]
                                              /\ request'[g].invCount <= bonuses'[request'[g].inviter]
      OBVIOUS
    <3>1. ASSUME request'[g].kind \in Kinds PROVE request'[g].balance <= Bonus * bonuses'[request'[g].user]
      <4>1. request[g].balance <= Bonus * bonuses[request[g].user]
        BY <2>5, <3>1 DEF ClaimsOK
      <4>2. PICK v \in Users : v = request[g].user
        BY <2>5, <3>1
      <4>3. request[g].balance <= Bonus * bonuses'[v]
        BY <4>1, <4>2, <2>2, <2>6
      <4> QED BY <2>5, <3>1, <4>2, <4>3
    <3>2. ASSUME pc'[g] = "found"
          PROVE request'[g].invBalance <= Bonus * bonuses'[request'[g].inviter] /\ request'[g].invCount <= bonuses'[request'[g].inviter]
      <4>1. request[g].invBalance <= Bonus * bonuses[request[g].inviter] /\ request[g].invCount <= bonuses[request[g].inviter]
        BY <2>5, <3>2 DEF ClaimsOK
      <4>2. PICK v \in Users : v = request[g].inviter
        BY <2>5, <3>2
      <4>3. request[g].invBalance <= Bonus * bonuses'[v] /\ request[g].invCount <= bonuses'[v]
        BY <4>1, <4>2, <2>2, <2>6, <1>7
      <4> QED BY <2>5, <3>2, <4>2, <4>3
    <3> QED BY <3>1, <3>2
  <2> QED BY <2>1, <2>4, <2>7 DEF ClaimsOK
<1> QED BY <1>9, <1>10, <1>11, <1>13, <1>14

----------------------------------------------------------------------------

LEMMA DirectoryInit == ASSUME AccountsInit PROVE DirectoryInv
<1> DEFINE no == NoRequest
<1>1. /\ rows = Legacy /\ wallets = Legacy
      /\ name = [u \in Users |-> IF u \in Legacy THEN FirstName[u] ELSE Null]
      /\ handle = [u \in Users |-> Null] /\ password = [u \in Users |-> Null]
      /\ link = [l \in Links |-> NoLink]
      /\ code = [u \in Users |-> Null] /\ referredBy = [u \in Users |-> Null]
      /\ count = [u \in Users |-> 0] /\ balance = [u \in Users |-> 0]
      /\ pc = [c \in Requests |-> "idle"] /\ request = [c \in Requests |-> no]
      /\ uses = [l \in Links |-> 0] /\ claims = [u \in Users |-> 0] /\ bonuses = [u \in Users |-> 0]
      /\ overlaps = [k \in Links \cup Users |-> 0] /\ events = 0
  BY DEF AccountsInit
<1>2. /\ no.kind = "none"
      /\ no \in [kind : Kinds \cup {"reset", "verify", "none"}, user : Users \cup {Null},
                 link : Links \cup {Null}, name : Names \cup {Null},
                 code : Codes \cup {Null}, knew : Requests \cup {Deleted, Null},
                 inviter : Users \cup {Null}, balance : Nat, invBalance : Nat, invCount : Nat]
  BY NoCallIs
<1> HIDE DEF no
<1>3. /\ Legacy \subseteq Users /\ FirstName \in [Legacy -> Names \cup {Null}]
      /\ \A u, v \in Legacy : FirstName[u] = FirstName[v] /\ FirstName[u] # Null => u = v
      /\ Bonus \in Nat
  BY UsersAssumption, FirstNamesAssumption, NatAssumption
<1>4. /\ NoLink \in [status : {"none", "sent", "used"}, kind : {"none", "reset", "verify"}, user : Users \cup {Null}]
      /\ NoLink.status = "none"
  BY DEF NoLink
<1>5. AccountsTypeOK
  BY <1>1, <1>2, <1>3, <1>4 DEF AccountsTypeOK
<1>6. RowsOK /\ NamesAreOwn
  BY <1>1, <1>3 DEF RowsOK, NamesAreOwn
<1>7. RequestsOK
  BY <1>1, <1>2 DEF RequestsOK, Kinds
<1>8. \A k : LinkUses(k) = {} /\ Referrals(k) = {}
  BY <1>1, <1>2 DEF LinkUses, Referrals
<1>9. \A k : Cardinality(LinkUses(k)) = 0 /\ Cardinality(Referrals(k)) = 0
  BY <1>8, FS_EmptySet
<1>10. LinksOK
  BY <1>1, <1>4, <1>9 DEF LinksOK
<1>11. ClaimsOK
  <2>1. Bonus * 0 = 0
    BY <1>3
  <2>2. \A c \in Requests : request[c].kind \notin Kinds /\ pc[c] # "found"
    BY <1>1, <1>2 DEF Kinds
  <2> QED BY <1>1, <1>9, <2>1, <2>2 DEF ClaimsOK
<1> QED BY <1>5, <1>6, <1>7, <1>10, <1>11 DEF DirectoryInv

LEMMA DirectoryNext == ASSUME DirectoryInv, [AccountsNext]_accountsVars PROVE DirectoryInv'
<1>1. ASSUME NEW c \in Requests, Step(c) PROVE DirectoryInv'
  <2>1. ASSUME NEW u \in Users, NEW k \in Kinds, BeginRequest(c, k, u) PROVE DirectoryInv'
    BY <2>1, BeginHolds
  <2>2. ASSUME NEW l \in Links, FindLink(c, l) PROVE DirectoryInv'
    BY <2>2, FindLinkHolds
  <2>3. ASSUME NEW n \in Names, Rename(c, n) PROVE DirectoryInv'
    BY <2>3, RenameHolds
  <2>4. CASE ResetPassword(c) \/ VerifyMagicLink(c)
    BY <2>4, UseLinkHolds
  <2>5. CASE ChangePassword(c) \/ Refuse(c)
    BY <2>5, SecretsHold
  <2>6. CASE CommitReferral(c)
    BY <2>6, CommitReferralHolds
  <2>7. ASSUME NEW k \in Codes, CreateCode(c, k) PROVE DirectoryInv'
    BY <2>7, SecretsHold
  <2>8. ASSUME NEW i \in Users, FindInviter(c, i) PROVE DirectoryInv'
    BY <2>8, FindInviterHolds
  <2> QED BY <1>1, <2>1, <2>2, <2>3, <2>4, <2>5, <2>6, <2>7, <2>8 DEF Step
<1>2. ASSUME NEW u \in Users, NEW n \in Names, Register(u, n) \/ RegisterRefused(u, n) PROVE DirectoryInv'
  BY <1>2, RegisterHolds
<1>3. ASSUME NEW u \in Users, CreateWallet(u) PROVE DirectoryInv'
  BY <1>3, CreateWalletHolds
<1>4. ASSUME NEW u \in Users, DeleteAccount(u) PROVE DirectoryInv'
  BY <1>4, SecretsHold
<1>5. ASSUME NEW u \in Users, NEW l \in Links, ForgotPassword(l, u) \/ RequestMagicLink(l, u)
      PROVE DirectoryInv'
  BY <1>5, SentHolds DEF ForgotPassword, RequestMagicLink
<1>6. CASE UNCHANGED accountsVars
  <2>1. UNCHANGED <<rows, name, handle, wallets, password, link, code, referredBy, count, balance, claims, bonuses,
                    pc, request, uses, overlaps, events>>
    BY <1>6 DEF accountsVars, profile, names, referrals, requests
  <2>2. Password /\ events' \in Nat /\ code' \in [Users -> Codes \cup {Null}]
        /\ name' \in [Users -> Names \cup {Null}] /\ handle' \in [Users -> Names \cup {Null}]
        /\ RowsOK' /\ NamesAreOwn'
    BY <2>1 DEF Password, DirectoryInv, AccountsTypeOK, RowsOK, NamesAreOwn
  <2> QED BY <2>1, <2>2, PasswordHolds
<1> QED BY <1>1, <1>2, <1>3, <1>4, <1>5, <1>6, RestartHolds DEF AccountsNext

----------------------------------------------------------------------------

(* In every behaviour: the rows, the links and the claims are in order. *)
THEOREM DirectoryInvariance == AccountsSpec => []DirectoryInv
<1>1. AccountsInit => DirectoryInv
  BY DirectoryInit
<1>2. DirectoryInv /\ [AccountsNext]_accountsVars => DirectoryInv'
  BY DirectoryNext
<1> QED BY <1>1, <1>2, PTL DEF AccountsSpec

(* No two users have the same username or payment handle, and nobody's     *)
(* handle is another's name, whatever registrations, renames and backfills *)
(* meet (register, update_username, ensure_all_user_profiles).             *)
THEOREM NamesStayOwn == AccountsSpec => []NamesAreOwn
<1>1. DirectoryInv => NamesAreOwn
  BY DEF DirectoryInv
<1> QED BY <1>1, DirectoryInvariance, PTL

(* A link works again only for a call that began beside another one, and   *)
(* no reset link is burnt for nothing (reset_password, verify_magic_link). *)
THEOREM LinksAreSingleUse == AccountsSpec => []LinksWorkOnce
<1>1. DirectoryInv => LinksWorkOnce
  <2> SUFFICES ASSUME DirectoryInv, NEW l \in Links
               PROVE  /\ uses[l] <= 1 + overlaps[l]
                      /\ link[l].status = "used" /\ link[l].kind = "reset" => password[link[l].user] # Null
    BY DEF LinksWorkOnce
  <2>1. uses[l] + Cardinality(LinkUses(l)) <= 1 + overlaps[l] /\ Cardinality(LinkUses(l)) \in Nat
    BY CountsAre DEF DirectoryInv, LinksOK
  <2>2. uses[l] \in Nat /\ overlaps[l] \in Nat
    BY DEF DirectoryInv, AccountsTypeOK
  <2> QED BY <2>1, <2>2 DEF DirectoryInv, LinksOK
<1> QED BY <1>1, DirectoryInvariance, PTL

(* An account is paid for a second referral only by a call that began      *)
(* beside the first, and every cent of a bonus has its audit row           *)
(* (use_referral, _pay_bonus).                                             *)
THEOREM ReferralsAreAccounted == AccountsSpec => []ReferralsAddUp
<1>1. DirectoryInv => ReferralsAddUp
  <2> SUFFICES ASSUME DirectoryInv, NEW u \in Users
               PROVE  claims[u] <= 1 + overlaps[u] /\ balance[u] <= Bonus * bonuses[u] /\ count[u] <= bonuses[u]
    BY DEF ReferralsAddUp, DirectoryInv
  <2>1. claims[u] + Cardinality(Referrals(u)) <= 1 + overlaps[u] /\ Cardinality(Referrals(u)) \in Nat
    BY CountsAre DEF DirectoryInv, ClaimsOK
  <2>2. claims[u] \in Nat /\ overlaps[u] \in Nat
    BY DEF DirectoryInv, AccountsTypeOK
  <2> QED BY <2>1, <2>2 DEF DirectoryInv, ClaimsOK
<1> QED BY <1>1, DirectoryInvariance, PTL
=============================================================================
