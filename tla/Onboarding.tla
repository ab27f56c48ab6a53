----------------------------- MODULE Onboarding -----------------------------
(***************************************************************************)
(* A merchant's path to live payments (routers/merchant_onboarding.py,     *)
(* models_merchant.py and the merchant accounts of                         *)
(* routers/closed_loop.py): the KYB form, its review, the activation of    *)
(* the account, its API keys and its settlement preferences.               *)
(*                                                                         *)
(* The merchant's own calls load a row without a lock and commit later,    *)
(* so calls of several threads overlap: a commit writes the columns that   *)
(* the call changed over whatever the row holds by then.  The admin's      *)
(* calls hold the row lock from their read to their commit and are one     *)
(* step.  There is one merchant: rows of different ones never meet.        *)
(***************************************************************************)
EXTENDS Integers, Sequences, FiniteSets

CONSTANTS
  Calls,         \* the merchant's requests that may be in progress
  Forms,         \* what the merchant may fill in
  Preferences,   \* settlement preferences the merchant may ask for
  Keys,          \* API keys that may be minted
  MaxKeys,       \* active keys a merchant may have, 10 in the code
  LastDay,       \* bound on the days that pass
  MaxDecisions,  \* bound on the decisions about the form
  None

Days == 0 .. LastDay

(* risk: the vertical is a high-risk one.  license: the day a license with *)
(* number, state and expiry date ends, None when one of these is missing.  *)
(* complete: the required fields and both attestations are there.          *)
FormType   == [risk : BOOLEAN, license : Days \cup {None}, complete : BOOLEAN]
PayoutType == [auto : BOOLEAN, address : BOOLEAN]

Locked   == {"submitted", "under_review", "verified"}
Statuses == Locked \cup {"draft", "rejected", "expired"}
KybType  == [risk : BOOLEAN, license : Days \cup {None}, complete : BOOLEAN, status : Statuses]
Verdicts == {"verified", "rejected"}

ASSUME BoundsAssumption == LastDay \in Nat /\ MaxKeys \in Nat \ {0} /\ MaxDecisions \in Nat
ASSUME FiniteAssumption == IsFiniteSet(Keys) /\ IsFiniteSet(Calls)
ASSUME FormsAssumption  == Forms \subseteq FormType /\ Preferences \subseteq PayoutType
ASSUME NoneAssumption   == None \notin Days \cup KybType \cup PayoutType

VARIABLES
  merchant,   \* MerchantAccount.status, "none" without a row
  kyb,        \* the MerchantKyb row, None without one
  keys,       \* each MerchantApiKey row: its mode, "revoked", or "none"
  payout,     \* the MerchantSettlement row, None without one
  audit,      \* the entries of UserAuditLog: decisions in order, keys
  call,       \* what a request in progress has read and is to write
  today

vars == <<merchant, kyb, keys, payout, audit, call, today>>

Idle == [op |-> "idle"]

Init ==
  /\ merchant = "none" /\ kyb = None /\ payout = None
  /\ keys = [k \in Keys |-> "none"]
  /\ audit = [decisions |-> <<>>, created |-> {}, revoked |-> {}]
  /\ call = [c \in Calls |-> Idle]
  /\ today = 0

(* expires <= now: a license does not cover the day it ends. *)
Unexpired(row) == row.license # None /\ row.license > today

(* An UPDATE sets the columns the request changed, and those only. *)
Merge(row, seen, new) == [f \in DOMAIN row |-> IF new[f] # seen[f] THEN new[f] ELSE row[f]]

Begin(c, r) == call[c] = Idle /\ merchant # "none" /\ call' = [call EXCEPT ![c] = r]
End(c)      == call' = [call EXCEPT ![c] = Idle]

----------------------------------------------------------------------------
(* The form: upsert_kyb and submit_kyb *)

Fill(f, s) == [risk |-> f.risk, license |-> f.license, complete |-> f.complete, status |-> s]

LoadSave(c, f) ==
  /\ kyb # None => kyb.status \notin Locked
  /\ Begin(c, [op |-> "save", seen |-> kyb, new |-> Fill(f, "draft")])
  /\ UNCHANGED <<merchant, kyb, keys, payout, audit, today>>

LoadSubmit(c) ==
  /\ kyb # None /\ kyb.status \notin Locked
  /\ kyb.complete /\ (kyb.risk => Unexpired(kyb))
  /\ Begin(c, [op |-> "submit", seen |-> kyb, new |-> [kyb EXCEPT !.status = "submitted"]])
  /\ UNCHANGED <<merchant, kyb, keys, payout, audit, today>>

(* The second of two first saves hits the unique merchant_id: 500. *)
CommitKyb(c) ==
  /\ call[c].op \in {"save", "submit"}
  /\ kyb' = CASE call[c].seen # None -> Merge(kyb, call[c].seen, call[c].new)
              [] call[c].seen = None -> IF kyb = None THEN call[c].new ELSE kyb
  /\ End(c)
  /\ UNCHANGED <<merchant, keys, payout, audit, today>>

----------------------------------------------------------------------------
(* The review: decide_kyb, auto_approve_kyb, license_expiry_sweep *)

(* Mutant: the decision has no audit entry. *)
DecideUnlogged(verdict, from) ==
  /\ kyb # None /\ kyb.status \in from
  /\ verdict = "verified" => (kyb.risk => Unexpired(kyb))
  /\ kyb' = [kyb EXCEPT !.status = verdict]
  /\ UNCHANGED <<keys, payout, audit, call, today>>

(* A decision under the row lock, and its audit entry *)
Decide(verdict, from) ==
  /\ kyb # None /\ kyb.status \in from
  /\ verdict = "verified" => (kyb.risk => Unexpired(kyb))
  /\ Len(audit.decisions) < MaxDecisions
  /\ kyb' = [kyb EXCEPT !.status = verdict]
  /\ audit' = [audit EXCEPT !.decisions = Append(@, verdict)]
  /\ UNCHANGED <<keys, payout, call, today>>

DecideKyb(verdict) ==
  /\ Decide(verdict, {"submitted", "under_review"})
  /\ UNCHANGED merchant

AutoApproveKyb ==
  /\ Decide("verified", {"submitted"})
  /\ merchant' = "active"

(* A loop meant for a daily scheduler; nothing starts it. *)
LoadSweep(c) ==
  /\ kyb # None /\ kyb.status = "verified" /\ kyb.risk
  /\ kyb.license # None /\ kyb.license <= today
  /\ Begin(c, [op |-> "sweep"])
  /\ UNCHANGED <<merchant, kyb, keys, payout, audit, today>>

CommitSweep(c) ==
  /\ call[c].op = "sweep"
  /\ kyb' = [kyb EXCEPT !.status = "expired"]
  /\ End(c)
  /\ UNCHANGED <<merchant, keys, payout, audit, today>>

----------------------------------------------------------------------------
(* The account: create_merchant and the two ways to activate it *)

CreateMerchant ==
  /\ merchant = "none"
  /\ merchant' = "pending_review"
  /\ UNCHANGED <<kyb, keys, payout, audit, call, today>>

ApproveMerchant ==
  /\ merchant # "none"
  /\ merchant' = "active"
  /\ UNCHANGED <<kyb, keys, payout, audit, call, today>>

AutoActivate ==
  /\ merchant # "none" /\ kyb # None /\ kyb.status = "verified"
  /\ merchant' = "active"
  /\ UNCHANGED <<kyb, keys, payout, audit, call, today>>

----------------------------------------------------------------------------
(* API keys: create_api_key and revoke_api_key *)

ActiveKeys == {k \in Keys : keys[k] \in {"test", "live"}}

(* Mutant: a live key needs the account to be active, and no more. *)
MayMintActive(mode) == mode = "live" => merchant = "active"

MayMint(mode) ==
  mode = "live" => /\ kyb # None /\ kyb.status = "verified"
                   /\ kyb.license # None => kyb.license > today
                   /\ merchant = "active"

(* Mutant: the limit itself is still allowed. *)
BelowLimitOrAt == Cardinality(ActiveKeys) <= MaxKeys

BelowLimit == Cardinality(ActiveKeys) < MaxKeys

LoadMint(c, mode) ==
  /\ MayMint(mode) /\ BelowLimit
  /\ Begin(c, [op |-> "mint", mode |-> mode])
  /\ UNCHANGED <<merchant, kyb, keys, payout, audit, today>>

CommitMint(c, k) ==
  /\ call[c].op = "mint" /\ keys[k] = "none"
  /\ keys' = [keys EXCEPT ![k] = call[c].mode]
  /\ audit' = [audit EXCEPT !.created = @ \cup {k}]
  /\ End(c)
  /\ UNCHANGED <<merchant, kyb, payout, today>>

LoadRevoke(c, k) ==
  /\ k \in ActiveKeys
  /\ Begin(c, [op |-> "revoke", key |-> k])
  /\ UNCHANGED <<merchant, kyb, keys, payout, audit, today>>

(* Two overlapping calls both write, and log, the same revocation. *)
CommitRevoke(c) ==
  /\ call[c].op = "revoke"
  /\ keys' = [keys EXCEPT ![call[c].key] = "revoked"]
  /\ audit' = [audit EXCEPT !.revoked = @ \cup {call[c].key}]
  /\ End(c)
  /\ UNCHANGED <<merchant, kyb, payout, today>>

----------------------------------------------------------------------------
(* Preferences: get_settlement, which inserts the defaults, and            *)
(* update_settlement, which asks an automatic withdrawal for an address    *)

Defaults == [auto |-> FALSE, address |-> FALSE]

LoadPayout(c, p) ==
  /\ p.auto => p.address
  /\ Begin(c, [op |-> "payout", seen |-> payout, new |-> p])
  /\ UNCHANGED <<merchant, kyb, keys, payout, audit, today>>

CommitPayout(c) ==
  /\ call[c].op = "payout"
  /\ payout' = CASE call[c].seen # None -> Merge(payout, call[c].seen, call[c].new)
                 [] call[c].seen = None -> IF payout = None THEN call[c].new ELSE payout
  /\ End(c)
  /\ UNCHANGED <<merchant, kyb, keys, audit, today>>

----------------------------------------------------------------------------
Tick ==
  /\ today < LastDay
  /\ today' = today + 1
  /\ UNCHANGED <<merchant, kyb, keys, payout, audit, call>>

Next ==
  \/ CreateMerchant \/ ApproveMerchant \/ AutoActivate \/ AutoApproveKyb \/ Tick
  \/ \E v \in Verdicts : DecideKyb(v)
  \/ \E c \in Calls :
       \/ LoadSubmit(c) \/ CommitKyb(c) \/ LoadSweep(c) \/ CommitSweep(c)
       \/ CommitRevoke(c) \/ CommitPayout(c)
       \/ \E f \in Forms : LoadSave(c, f)
       \/ \E m \in {"test", "live"} : LoadMint(c, m)
       \/ \E k \in Keys : CommitMint(c, k) \/ LoadRevoke(c, k)
       \/ \E p \in Preferences \cup {Defaults} : LoadPayout(c, p)

Spec == Init /\ [][Next]_vars

----------------------------------------------------------------------------
(* Properties that hold *)

(* Every variable holds what its table may hold. *)
TypeOK ==
  /\ merchant \in {"none", "pending_review", "active"}
  /\ kyb \in KybType \cup {None}
  /\ keys \in [Keys -> {"none", "test", "live", "revoked"}]
  /\ payout \in PayoutType \cup {None}
  /\ audit \in [decisions : Seq(Verdicts), created : SUBSET Keys, revoked : SUBSET Keys]
  /\ today \in Days

(* "Every state-changing action is written to the 7-year audit log": a     *)
(* form is verified or rejected exactly if the log's last decision says    *)
(* so, whatever the merchant's overlapping saves and submissions write     *)
(* after it; they can only take the form out of its decision.              *)
(* The entries about a key say what the key is.                            *)
ActionsAreLogged ==
  /\ (kyb # None /\ kyb.status \in Verdicts) =>
       /\ audit.decisions # <<>>
       /\ audit.decisions[Len(audit.decisions)] = kyb.status
  /\ \A k \in Keys : /\ (k \in audit.created) <=> (keys[k] # "none")
                     /\ (k \in audit.revoked) <=> (keys[k] = "revoked")

(* "A live key requires verified KYB": although the check is made before   *)
(* the key is written, no live key exists without a logged verification    *)
(* and an active account.                                                  *)
LiveKeysAreEarned ==
  (\E k \in Keys : keys[k] = "live") =>
     /\ merchant = "active"
     /\ \E i \in DOMAIN audit.decisions : audit.decisions[i] = "verified"

(* The limit on active keys is counted before a key is written: requests   *)
(* that overlap can pass it together, by less than their number.           *)
KeyLimitHolds == Cardinality(ActiveKeys) < MaxKeys + Cardinality(Calls)

----------------------------------------------------------------------------
(* Properties the code breaks *)

(* "auto_withdraw_usdc requires a valid 0x... payout address": stored      *)
(* preferences that withdraw automatically have one.                       *)
WithdrawalsHaveAddress == payout # None => (payout.auto => payout.address)

(* "A cannabis merchant cannot even submit without a state license": a     *)
(* high-risk form that is under review, or verified, has a license.        *)
SubmittedIsLicensed ==
  (kyb # None /\ kyb.status \in Locked) => (kyb.risk => kyb.license # None)
=============================================================================
