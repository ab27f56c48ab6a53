---------------------------- MODULE StripeEvents ----------------------------
(***************************************************************************)
(* Stripe's webhook (routers/stripe_webhook.py) and the Fawn Bucks it      *)
(* issues and reverses (routers/bucks.py).  Stripe delivers an event once  *)
(* or more and in any order, so any event may come next; it may also       *)
(* report one and the same thing by two events, each with its own id.      *)
(*                                                                         *)
(* The handler runs on the event loop without an await between its first   *)
(* query and its answer, so deliveries do not interleave.  But it commits  *)
(* twice: the event's id, then the effect.  handling is the event between  *)
(* the two, where an exception or a restart can end the handler.           *)
(***************************************************************************)
EXTENDS Integers, Sequences, FiniteSets

CONSTANTS
  Bucks,        \* checkout sessions that buy Bucks
  Offers,       \* checkout sessions of a founding offer
  Payouts,      \* bank transfers paid out through Stripe
  PassedOver,   \* sessions and payouts the handler skips: unpaid, unknown
                \* tier, no e-mail address, invalid metadata, no such transfer
  Twins,        \* sessions and payouts whose outcome Stripe reports by two events
  Count,        \* Bucks bought in a session
  MaxRefunds,   \* bound on the partial refunds of a payment
  MaxLosses,    \* bound on the events whose handling is lost
  None

Sessions == Bucks \cup Offers

ASSUME ObjectsAssumption == /\ Bucks \cap Offers = {} /\ Sessions \cap Payouts = {}
                            /\ Twins \subseteq Sessions \cup Payouts
ASSUME CountAssumption   == Count \in [Bucks -> Nat \ {0}]
ASSUME RefundsAssumption == MaxRefunds \in Nat
ASSUME LossesAssumption  == MaxLosses \in Nat

(* What is reported about the objects in O; a twin's report comes twice.   *)
Reports(k, O, N) ==
  {e \in [kind : {k}, of : O, nth : N, copy : {1, 2}] : e.copy = 1 \/ e.of \in Twins}

(* A refund event carries the amount refunded so far: nth stands for it.   *)
(* Those of an offer's payment are skipped like those of a Bucks session   *)
(* that is passed over.  A second report of a refund or a dispute is one   *)
(* more event that finds nothing left to reverse, and is left out.         *)
Checkouts == Reports("checkout", Sessions, {1})
Paid      == Reports("paid", Payouts, {1})
Failed    == Reports("failed", Payouts, {1})
Refunds   == {e \in Reports("refund", Bucks, 1 .. MaxRefunds) : e.copy = 1}
Disputes  == {e \in Reports("dispute", Bucks, {1}) : e.copy = 1}
Events    == Checkouts \cup Refunds \cup Disputes \cup Paid \cup Failed

ASSUME NoneAssumption == None \notin Events

VARIABLES
  recorded,  \* the ids in StripeEvent
  handling,  \* the event that is recorded and not yet applied
  payment,   \* BuckFundingPayment.status, "none" without a row
  refunded,  \* BuckFundingPayment.refunded_cents
  active,    \* the session's BuckCredit rows with status active
  ledger,    \* BuckLedgerEntry.bucks_delta of the payment's entries
  members,   \* the FoundingMember rows: the session of each, by arrival
  number,    \* FoundingMember.member_number of each row
  transfer,  \* BankTransfer.status
  repaid,    \* how often amount and fee have been credited to its sender
  lost       \* history: the recorded events whose handling was lost

delivery == <<recorded, handling>>
bucks    == <<payment, refunded, active, ledger>>
offers   == <<members, number>>
banking  == <<transfer, repaid>>
vars     == <<delivery, bucks, offers, banking, lost>>

Init ==
  /\ recorded = {}
  /\ handling = None
  /\ payment = [s \in Bucks |-> "none"]
  /\ refunded = [s \in Bucks |-> 0]
  /\ active = [s \in Bucks |-> 0]
  /\ ledger = [s \in Bucks |-> <<>>]
  /\ members = <<>> /\ number = <<>>
  /\ transfer = [p \in Payouts |-> "pending"]
  /\ repaid = [p \in Payouts |-> 0]
  /\ lost = {}

----------------------------------------------------------------------------
(* stripe_webhook: signature, duplicate check, and the id's commit *)

(* Mutant: the id is not looked up. *)
RecordAgain(e) ==
  /\ handling = None
  /\ recorded' = recorded \cup {e}
  /\ handling' = e
  /\ UNCHANGED <<bucks, offers, banking, lost>>

(* The first delivery; the answer to any other is that it is a duplicate.  *)
Record(e) ==
  /\ handling = None /\ e \notin recorded
  /\ recorded' = recorded \cup {e}
  /\ handling' = e
  /\ UNCHANGED <<bucks, offers, banking, lost>>

(* The handler raises, its commit fails, or the process restarts: the      *)
(* effect is rolled back, the id stays.                                    *)
Lose ==
  /\ handling # None /\ Cardinality(lost) < MaxLosses
  /\ handling' = None
  /\ lost' = lost \cup {handling}
  /\ UNCHANGED <<recorded, bucks, offers, banking>>

(* The answer to the event being handled *)
Answer(e) ==
  /\ handling = e
  /\ handling' = None
  /\ UNCHANGED <<recorded, lost>>

----------------------------------------------------------------------------
(* handle_buck_event *)

(* One row per Buck, and one entry *)
IssueBucks(e) ==
  /\ e \in Checkouts /\ e.of \in Bucks \ PassedOver
  /\ payment[e.of] = "none"
  /\ payment' = [payment EXCEPT ![e.of] = "succeeded"]
  /\ active' = [active EXCEPT ![e.of] = Count[e.of]]
  /\ ledger' = [ledger EXCEPT ![e.of] = Append(@, Count[e.of])]
  /\ Answer(e)
  /\ UNCHANGED <<refunded, offers, banking>>

(* Mutant: every refund reverses what was issued. *)
ReversalOfCount(s) == Append(ledger[s], -Count[s])

(* An entry for the reversal, if there is anything to reverse *)
Reversal(s) == IF active[s] > 0 THEN Append(ledger[s], -active[s]) ELSE ledger[s]

MaxOf(a, b) == IF a > b THEN a ELSE b

RefundedSoFar(e) == IF e \in Refunds THEN MaxOf(refunded[e.of], e.nth) ELSE refunded[e.of]

(* A refund or a dispute of any size reverses every active Buck. *)
ReverseBucks(e) ==
  /\ e \in Refunds \cup Disputes
  /\ payment[e.of] # "none"
  /\ refunded' = [refunded EXCEPT ![e.of] = RefundedSoFar(e)]
  /\ ledger' = [ledger EXCEPT ![e.of] = Reversal(e.of)]
  /\ active' = [active EXCEPT ![e.of] = 0]
  /\ payment' = [payment EXCEPT ![e.of] = IF e \in Refunds THEN "refunded" ELSE "disputed"]
  /\ Answer(e)
  /\ UNCHANGED <<offers, banking>>

----------------------------------------------------------------------------
(* The founding offers and the payouts *)

(* Mutant: the session is not looked up. *)
IsNewSession(s) == TRUE

(* The session has no member yet. *)
NewSession(s) == \A i \in DOMAIN members : members[i] # s

(* _next_member_number counts the rows. *)
AdmitMember(e) ==
  /\ e \in Checkouts /\ e.of \in Offers \ PassedOver
  /\ NewSession(e.of)
  /\ members' = Append(members, e.of)
  /\ number' = Append(number, Len(members) + 1)
  /\ Answer(e)
  /\ UNCHANGED <<bucks, banking>>

PayoutPaid(e) ==
  /\ e \in Paid /\ e.of \notin PassedOver
  /\ transfer' = [transfer EXCEPT ![e.of] = "completed"]
  /\ Answer(e)
  /\ UNCHANGED <<bucks, offers, repaid>>

PayoutFailed(e) ==
  /\ e \in Failed /\ e.of \notin PassedOver
  /\ transfer' = [transfer EXCEPT ![e.of] = "failed"]
  /\ repaid' = [repaid EXCEPT ![e.of] = @ + 1]
  /\ Answer(e)
  /\ UNCHANGED <<bucks, offers>>

(* What the handler acknowledges without an effect: what it passes over,   *)
(* a session it knows already, a refund of a payment it does not know.     *)
Skip(e) ==
  /\ \/ e.of \in PassedOver /\ e \in Checkouts \cup Paid \cup Failed
     \/ e \in Checkouts /\ e.of \in Bucks /\ payment[e.of] # "none"
     \/ e \in Checkouts /\ e.of \in Offers /\ ~ NewSession(e.of)
     \/ e \in Refunds \cup Disputes /\ payment[e.of] = "none"
  /\ Answer(e)
  /\ UNCHANGED <<bucks, offers, banking>>

Apply(e) == \/ IssueBucks(e) \/ ReverseBucks(e) \/ AdmitMember(e)
            \/ PayoutPaid(e) \/ PayoutFailed(e) \/ Skip(e)

Next == Lose \/ \E e \in Events : Record(e) \/ Apply(e)

Spec == Init /\ [][Next]_vars

----------------------------------------------------------------------------
(* Properties that hold *)

(* Every variable holds what its column may hold. *)
TypeOK ==
  /\ recorded \subseteq Events
  /\ handling \in recorded \cup {None}
  /\ lost \subseteq recorded \ {handling}
  /\ payment \in [Bucks -> {"none", "succeeded", "refunded", "disputed"}]
  /\ refunded \in [Bucks -> 0 .. MaxRefunds]
  /\ active \in [Bucks -> Nat] /\ \A s \in Bucks : active[s] <= Count[s]
  /\ ledger \in [Bucks -> Seq(Int)]
  /\ members \in Seq(Offers) /\ number \in Seq(Nat)
  /\ transfer \in [Payouts -> {"pending", "completed", "failed"}]
  /\ repaid \in [Payouts -> Nat]

(* "Append-only audit entry; positive issuance, negative reversal": a      *)
(* payment's entries are one issuance and, from the first refund or        *)
(* dispute on, one reversal; they add up to its active Bucks.              *)
LedgerExplainsBucks ==
  \A s \in Bucks :
    CASE payment[s] = "none"      -> active[s] = 0 /\ ledger[s] = <<>>
      [] payment[s] = "succeeded" -> active[s] = Count[s] /\ ledger[s] = <<Count[s]>>
      [] OTHER                    -> active[s] = 0 /\ ledger[s] = <<Count[s], -Count[s]>>

(* A refund event that arrives after a later one does not lower the amount *)
(* refunded.                                                               *)
RefundsNeverShrink == [][\A s \in Bucks : refunded'[s] >= refunded[s]]_vars

(* Members are numbered from one in the order they come, and a checkout    *)
(* that is reported by two events makes one member.                        *)
OneNumberEach ==
  /\ Len(number) = Len(members)
  /\ \A i \in DOMAIN number : number[i] = i
  /\ \A i, j \in DOMAIN members : (members[i] = members[j] => i = j)

Applied == recorded \ (lost \cup {handling})
Of(o, E) == {e \in Applied \cap E : e.of = o}

(* "Idempotency check": every recorded event has had its effect, and no    *)
(* delivery has it again, unless its handling was lost, which no delivery  *)
(* makes up for.  A checkout counts once however many events report it;    *)
(* every report that a payout failed credits its sender.                   *)
EffectsMatchEvents ==
  /\ \A s \in Bucks \ PassedOver : payment[s] = "none" <=> Of(s, Checkouts) = {}
  /\ \A s \in Offers \ PassedOver : NewSession(s) <=> Of(s, Checkouts) = {}
  /\ \A p \in Payouts \ PassedOver :
       /\ transfer[p] = "pending" <=> Of(p, Paid \cup Failed) = {}
       /\ repaid[p] = Cardinality(Of(p, Failed))

----------------------------------------------------------------------------
(* A property the code breaks *)

(* "We refunded it to your FAWN wallet": a payout that failed is credited  *)
(* once.  Two events that report one failure credit it twice.              *)
RepaidAtMostOnce == \A p \in Payouts : repaid[p] <= 1
=============================================================================
