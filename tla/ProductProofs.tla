--------------------------- MODULE ProductProofs ---------------------------
(***************************************************************************)
(* What StripeEvents and Investments guarantee for every value of their    *)
(* constants: the money a member pays in, and the shares it buys.          *)
(*                                                                         *)
(* Stripe's events.  Every action but Skip and Lose touches one of three   *)
(* tables, so Inv is preserved table by table.  An event counts as applied *)
(* when its handler answers, not when its id is recorded: what Record and  *)
(* Lose do leaves the applied events as they are (AppliedSame), and Answer *)
(* adds the one that was being handled (OneMoreApplied).                   *)
(*                                                                         *)
(* Investments.  What an order will still do to its position is part of    *)
(* the books (BooksOK), and a sale that nothing overtook has loaded what   *)
(* the position still is (SalesOK).                                        *)
(***************************************************************************)
EXTENDS StripeEvents, Investments, SequenceTheorems, FiniteSetTheorems, TLAPS

Inv == TypeOK /\ LedgerExplainsBucks /\ OneNumberEach /\ EffectsMatchEvents

(* What an event of each kind is about; its kind tells it from the others. *)
LEMMA EventFields ==
  /\ \A e \in Checkouts : e.kind = "checkout" /\ e.of \in Sessions /\ e \in Events
  /\ \A e \in Refunds : /\ e.kind = "refund" /\ e.of \in Bucks /\ e.nth \in 1 .. MaxRefunds
                        /\ e \in Events
  /\ \A e \in Disputes : e.kind = "dispute" /\ e.of \in Bucks /\ e \in Events
  /\ \A e \in Paid : e.kind = "paid" /\ e.of \in Payouts /\ e \in Events
  /\ \A e \in Failed : e.kind = "failed" /\ e.of \in Payouts /\ e \in Events
<1>1. \A k, O, N : \A e \in Reports(k, O, N) : e.kind = k /\ e.of \in O /\ e.nth \in N
  BY DEF Reports
<1>2. \A e \in Checkouts : e.kind = "checkout" /\ e.of \in Sessions
  BY <1>1 DEF Checkouts
<1>3. \A e \in Refunds : e.kind = "refund" /\ e.of \in Bucks /\ e.nth \in 1 .. MaxRefunds
  BY <1>1 DEF Refunds
<1>4. \A e \in Disputes : e.kind = "dispute" /\ e.of \in Bucks
  BY <1>1 DEF Disputes
<1>5. \A e \in Paid : e.kind = "paid" /\ e.of \in Payouts
  BY <1>1 DEF Paid
<1>6. \A e \in Failed : e.kind = "failed" /\ e.of \in Payouts
  BY <1>1 DEF Failed
<1>7. QED
  BY <1>2, <1>3, <1>4, <1>5, <1>6 DEF Events

(* No more than two events report that a payout failed.                    *)
LEMMA FewFailures == \A p : IsFiniteSet(Of(p, Failed))
<1> TAKE p
<1> DEFINE report(c) == [kind |-> "failed", of |-> p, nth |-> 1, copy |-> c]
<1>1. Of(p, Failed) \subseteq {report(1), report(2)}
  BY DEF Of, Failed, Reports
<1>2. IsFiniteSet({report(1), report(2)})
  <2>1. IsFiniteSet({}) /\ IsFiniteSet({} \cup {report(1)})
    BY FS_EmptySet, FS_AddElement
  <2>2. IsFiniteSet(({} \cup {report(1)}) \cup {report(2)})
    BY <2>1, FS_AddElement
  <2>3. ({} \cup {report(1)}) \cup {report(2)} = {report(1), report(2)}
    OBVIOUS
  <2>4. QED BY <2>2, <2>3
<1>3. QED BY <1>1, <1>2, FS_Subset

(* Nothing happens to the objects unless an event is applied.              *)
LEMMA AppliedSame ==
  ASSUME Inv, Applied' = Applied, UNCHANGED <<payment, members, transfer, repaid>>
  PROVE  EffectsMatchEvents'
<1>1. \A o, E : Of(o, E)' = Of(o, E)
  BY DEF Of
<1>2. \A s \in Offers : NewSession(s)' <=> NewSession(s)
  BY DEF NewSession
<1>3. QED BY <1>1, <1>2 DEF Inv, EffectsMatchEvents

(* The answer makes its event one of those applied.                        *)
LEMMA OneMoreApplied ==
  ASSUME Inv, NEW e \in Events, Answer(e)
  PROVE  /\ Applied' = Applied \cup {e} /\ e \notin Applied
         /\ \A o, E : Of(o, E)' = IF e \in E /\ e.of = o THEN Of(o, E) \cup {e} ELSE Of(o, E)
<1>1. Applied' = Applied \cup {e} /\ e \notin Applied
  BY NoneAssumption DEF Inv, TypeOK, Answer, Applied
<1>2. QED BY <1>1 DEF Of

(* The applied event has had its effect, and no other effect is had.       *)
LEMMA Matched ==
  ASSUME Inv, NEW e \in Events, Answer(e),
         \A s \in Bucks \ PassedOver :
           payment'[s] = "none" <=> payment[s] = "none" /\ ~ (e \in Checkouts /\ e.of = s),
         \A s \in Offers \ PassedOver :
           NewSession(s)' <=> NewSession(s) /\ ~ (e \in Checkouts /\ e.of = s),
         \A p \in Payouts \ PassedOver :
           /\ transfer'[p] = "pending" <=> transfer[p] = "pending" /\ ~ (e \in Paid \cup Failed /\ e.of = p)
           /\ repaid'[p] = IF e \in Failed /\ e.of = p THEN repaid[p] + 1 ELSE repaid[p]
  PROVE  EffectsMatchEvents'
<1>1. \A o, E : Of(o, E)' = {} <=> Of(o, E) = {} /\ ~ (e \in E /\ e.of = o)
  <2> TAKE o, E
  <2>1. CASE e \in E /\ e.of = o
    BY <2>1, OneMoreApplied
  <2>2. CASE ~ (e \in E /\ e.of = o)
    BY <2>2, OneMoreApplied
  <2>3. QED BY <2>1, <2>2
<1>2. \A s \in Bucks \ PassedOver : payment'[s] = "none" <=> Of(s, Checkouts)' = {}
  BY <1>1 DEF Inv, EffectsMatchEvents
<1>3. \A s \in Offers \ PassedOver : NewSession(s)' <=> Of(s, Checkouts)' = {}
  BY <1>1 DEF Inv, EffectsMatchEvents
<1>4. \A p \in Payouts \ PassedOver : transfer'[p] = "pending" <=> Of(p, Paid \cup Failed)' = {}
  BY <1>1 DEF Inv, EffectsMatchEvents
<1>5. ASSUME NEW p \in Payouts \ PassedOver
      PROVE  repaid'[p] = Cardinality(Of(p, Failed)')
  <2>1. repaid[p] = Cardinality(Of(p, Failed))
    BY DEF Inv, EffectsMatchEvents
  <2>2. CASE e \in Failed /\ e.of = p
    <3>1. Of(p, Failed)' = Of(p, Failed) \cup {e} /\ e \notin Of(p, Failed)
      BY <2>2, OneMoreApplied DEF Of
    <3>2. Cardinality(Of(p, Failed) \cup {e}) = Cardinality(Of(p, Failed)) + 1
      BY <3>1, FewFailures, FS_AddElement
    <3>3. QED BY <2>1, <2>2, <3>1, <3>2
  <2>3. CASE ~ (e \in Failed /\ e.of = p)
    <3>1. Of(p, Failed)' = Of(p, Failed)
      BY <2>3, OneMoreApplied
    <3>2. QED BY <2>1, <2>3, <3>1
  <2>4. QED BY <2>2, <2>3
<1>6. QED BY <1>2, <1>3, <1>4, <1>5 DEF EffectsMatchEvents

(* An entry appended to none or to one                                     *)
LEMMA Appended ==
  ASSUME NEW n \in Int, NEW m \in Int
  PROVE  Append(<<>>, n) = <<n>> /\ Append(<<n>>, m) = <<n, m>>
<1>1. Append(<<>>, n) = <<n>>
  OBVIOUS
<1>2. Append(<<n>>, m) = <<n, m>>
  <2> DEFINE one == <<n>>
             two == <<n, m>>
  <2>1. one \in Seq(Int) /\ Len(one) = 1 /\ one[1] = n
    OBVIOUS
  <2>2. two \in Seq(Int) /\ Len(two) = 2 /\ two[1] = n /\ two[2] = m
    OBVIOUS
  <2> HIDE DEF one, two
  <2>3. \A q \in Seq(Int) :
          /\ Append(q, m) \in Seq(Int) /\ Len(Append(q, m)) = Len(q) + 1
          /\ \A i \in 1 .. Len(q) : Append(q, m)[i] = q[i]
          /\ Append(q, m)[Len(q) + 1] = m
    BY AppendProperties
  <2> DEFINE longer == Append(one, m)
  <2>4. /\ longer \in Seq(Int) /\ Len(longer) = Len(one) + 1
        /\ \A i \in 1 .. Len(one) : longer[i] = one[i]
        /\ longer[Len(one) + 1] = m
    BY <2>1, <2>3
  <2> HIDE DEF longer
  <2>5. Len(longer) = 2 /\ longer[1] = n /\ longer[2] = m
    BY <2>1, <2>4
  <2>6. longer = two
    <3>1. Len(longer) = Len(two) /\ \A i \in 1 .. Len(longer) : longer[i] = two[i]
      BY <2>2, <2>5
    <3>2. QED BY <2>2, <2>4, <3>1, SeqEqual
  <2>7. QED BY <2>6 DEF one, two, longer
<1>3. QED BY <1>1, <1>2

LEMMA InitInv == Init => Inv
<1> SUFFICES ASSUME Init PROVE Inv
  OBVIOUS
<1>1. TypeOK /\ LedgerExplainsBucks /\ OneNumberEach
  BY CountAssumption, RefundsAssumption, NoneAssumption
     DEF Init, TypeOK, LedgerExplainsBucks, OneNumberEach
<1>2. \A o, E : Of(o, E) = {}
  BY DEF Init, Of, Applied
<1>3. EffectsMatchEvents
  <2>1. /\ \A s \in Bucks : payment[s] = "none"
        /\ \A p \in Payouts : transfer[p] = "pending" /\ repaid[p] = 0
    BY DEF Init
  <2>2. \A s \in Offers : NewSession(s)
    BY DEF Init, NewSession
  <2>3. \A p : Cardinality(Of(p, Failed)) = 0
    BY <1>2, FS_EmptySet
  <2>4. QED BY <1>2, <2>1, <2>2, <2>3 DEF EffectsMatchEvents
<1>4. QED BY <1>1, <1>3 DEF Inv

LEMMA RecordInv == ASSUME Inv, NEW e \in Events, Record(e) PROVE Inv'
<1>1. TypeOK'
  BY NoneAssumption DEF Inv, TypeOK, Record, bucks, offers, banking
<1>2. LedgerExplainsBucks' /\ OneNumberEach'
  BY DEF Inv, LedgerExplainsBucks, OneNumberEach, Record, bucks, offers, banking
<1>3. Applied' = Applied
  BY NoneAssumption DEF Inv, TypeOK, Record, Applied
<1>4. EffectsMatchEvents'
  BY <1>3, AppliedSame DEF Record, bucks, offers, banking
<1>5. QED BY <1>1, <1>2, <1>4 DEF Inv

LEMMA LoseInv == ASSUME Inv, Lose PROVE Inv'
<1>1. TypeOK'
  BY NoneAssumption DEF Inv, TypeOK, Lose, bucks, offers, banking
<1>2. LedgerExplainsBucks' /\ OneNumberEach'
  BY DEF Inv, LedgerExplainsBucks, OneNumberEach, Lose, bucks, offers, banking
<1>3. Applied' = Applied
  BY NoneAssumption DEF Inv, TypeOK, Lose, Applied
<1>4. EffectsMatchEvents'
  BY <1>3, AppliedSame DEF Lose, bucks, offers, banking
<1>5. QED BY <1>1, <1>2, <1>4 DEF Inv

(* Only a session without a payment is issued Bucks.                       *)
LEMMA IssueBucksInv == ASSUME Inv, NEW e \in Events, IssueBucks(e) PROVE Inv'
<1>1. e \in Checkouts /\ e.of \in Bucks /\ Count[e.of] \in Nat \ {0}
  BY CountAssumption DEF IssueBucks
<1>2. ledger[e.of] = <<>> /\ Append(ledger[e.of], Count[e.of]) = <<Count[e.of]>>
  <2>1. ledger[e.of] = <<>>
    BY <1>1 DEF Inv, LedgerExplainsBucks, IssueBucks
  <2>2. QED BY <1>1, <2>1, Appended
<1>3. TypeOK'
  BY SMTT(30), <1>1, <1>2, CountAssumption, NoneAssumption DEF Inv, TypeOK, IssueBucks, Answer, offers, banking
<1>4. LedgerExplainsBucks'
  BY <1>1, <1>2 DEF Inv, TypeOK, LedgerExplainsBucks, IssueBucks
<1>5. OneNumberEach'
  BY DEF Inv, OneNumberEach, IssueBucks, offers
<1>6. EffectsMatchEvents'
  <2>1. \A s \in Bucks : payment'[s] = "none" <=> payment[s] = "none" /\ e.of # s
    BY <1>1 DEF Inv, TypeOK, IssueBucks
  <2>2. \A s \in Offers : e.of # s /\ (NewSession(s)' <=> NewSession(s))
    BY <1>1, ObjectsAssumption DEF IssueBucks, offers, NewSession
  <2>3. e \notin Paid \cup Failed
    BY <1>1, EventFields
  <2>4. QED BY <1>1, <2>1, <2>2, <2>3, Matched DEF IssueBucks, banking
<1>7. QED BY <1>3, <1>4, <1>5, <1>6 DEF Inv

(* The active Bucks are all that was issued, or none.                      *)
LEMMA ReverseBucksInv == ASSUME Inv, NEW e \in Events, ReverseBucks(e) PROVE Inv'
<1> DEFINE s == e.of
<1>1. /\ e \in Refunds \cup Disputes /\ s \in Bucks
      /\ Count[s] \in Nat \ {0}
      /\ e \in Refunds => e.nth \in 1 .. MaxRefunds
  BY EventFields, CountAssumption DEF ReverseBucks
<1>2. Reversal(s) = <<Count[s], -Count[s]>>
  <2>1. CASE payment[s] = "succeeded"
    <3>1. active[s] = Count[s] /\ ledger[s] = <<Count[s]>>
      BY <1>1, <2>1 DEF Inv, LedgerExplainsBucks
    <3>2. Append(<<Count[s]>>, -Count[s]) = <<Count[s], -Count[s]>>
      BY <1>1, Appended
    <3>3. QED BY <1>1, <3>1, <3>2 DEF Reversal
  <2>2. CASE payment[s] \in {"refunded", "disputed"}
    BY <1>1, <2>2 DEF Inv, LedgerExplainsBucks, Reversal
  <2>3. QED BY <1>1, <2>1, <2>2 DEF Inv, TypeOK, ReverseBucks
<1>3. RefundedSoFar(e) \in 0 .. MaxRefunds
  BY <1>1, RefundsAssumption DEF Inv, TypeOK, RefundedSoFar, MaxOf
<1>4. TypeOK'
  <2>1. <<Count[s], -Count[s]>> \in Seq(Int)
    BY <1>1
  <2>2. ledger' \in [Bucks -> Seq(Int)]
    BY <1>1, <1>2, <2>1 DEF Inv, TypeOK, ReverseBucks
  <2>3. active' \in [Bucks -> Nat] /\ \A t \in Bucks : active'[t] <= Count[t]
    BY <1>1 DEF Inv, TypeOK, ReverseBucks
  <2>4. QED
    BY <1>1, <1>3, <2>2, <2>3, NoneAssumption DEF Inv, TypeOK, ReverseBucks, Answer, offers, banking
<1>5. LedgerExplainsBucks'
  BY <1>1, <1>2 DEF Inv, TypeOK, LedgerExplainsBucks, ReverseBucks
<1>6. OneNumberEach'
  BY DEF Inv, OneNumberEach, ReverseBucks, offers
<1>7. EffectsMatchEvents'
  <2>1. \A t \in Bucks : payment'[t] = "none" <=> payment[t] = "none"
    BY <1>1 DEF Inv, TypeOK, ReverseBucks
  <2>2. \A t \in Offers : NewSession(t)' <=> NewSession(t)
    BY DEF ReverseBucks, offers, NewSession
  <2>3. e \notin Checkouts \cup Paid \cup Failed
    BY <1>1, EventFields
  <2>4. QED BY <2>1, <2>2, <2>3, Matched DEF ReverseBucks, banking
<1>8. QED BY <1>4, <1>5, <1>6, <1>7 DEF Inv

(* The new row's number is its place.                                      *)
LEMMA AdmitMemberInv == ASSUME Inv, NEW e \in Events, AdmitMember(e) PROVE Inv'
<1>1. e \in Checkouts /\ e.of \in Offers
  BY DEF AdmitMember
<1>2. /\ Len(members') = Len(members) + 1 /\ Len(number') = Len(number) + 1
      /\ \A i \in 1 .. Len(members) : members'[i] = members[i] /\ number'[i] = number[i]
      /\ members'[Len(members) + 1] = e.of /\ number'[Len(members) + 1] = Len(members) + 1
      /\ members' \in Seq(Offers) /\ number' \in Seq(Nat)
  BY <1>1 DEF Inv, TypeOK, OneNumberEach, AdmitMember
<1>3. TypeOK'
  BY <1>2, NoneAssumption DEF Inv, TypeOK, AdmitMember, Answer, bucks, banking
<1>4. LedgerExplainsBucks'
  BY DEF Inv, LedgerExplainsBucks, AdmitMember, bucks
<1>5. OneNumberEach'
  BY <1>1, <1>2 DEF Inv, TypeOK, OneNumberEach, AdmitMember, NewSession
<1>6. EffectsMatchEvents'
  <2>1. \A s \in Offers : NewSession(s)' <=> NewSession(s) /\ e.of # s
    <3>1. DOMAIN members = 1 .. Len(members) /\ DOMAIN members' = 1 .. Len(members) + 1
          /\ Len(members) \in Nat
      BY <1>2 DEF Inv, TypeOK
    <3>2. QED BY <1>2, <3>1 DEF NewSession
  <2>2. \A s \in Bucks : e.of # s /\ payment' = payment
    BY <1>1, ObjectsAssumption DEF AdmitMember, bucks
  <2>3. e \notin Paid \cup Failed
    BY <1>1, EventFields
  <2>4. QED BY <1>1, <2>1, <2>2, <2>3, Matched DEF AdmitMember, banking
<1>7. QED BY <1>3, <1>4, <1>5, <1>6 DEF Inv

LEMMA PayoutPaidInv == ASSUME Inv, NEW e \in Events, PayoutPaid(e) PROVE Inv'
<1>1. e \in Paid /\ e.of \in Payouts /\ e \notin Checkouts \cup Failed
  BY EventFields DEF PayoutPaid
<1>2. TypeOK'
  BY <1>1, NoneAssumption DEF Inv, TypeOK, PayoutPaid, Answer, bucks, offers
<1>3. LedgerExplainsBucks' /\ OneNumberEach'
  BY DEF Inv, LedgerExplainsBucks, OneNumberEach, PayoutPaid, bucks, offers
<1>4. EffectsMatchEvents'
  <2>1. \A p \in Payouts : transfer'[p] = "pending" <=> transfer[p] = "pending" /\ e.of # p
    BY <1>1 DEF Inv, TypeOK, PayoutPaid
  <2>2. \A s \in Offers : NewSession(s)' <=> NewSession(s)
    BY DEF PayoutPaid, offers, NewSession
  <2>3. QED BY <1>1, <2>1, <2>2, Matched DEF PayoutPaid, bucks
<1>5. QED BY <1>2, <1>3, <1>4 DEF Inv

LEMMA PayoutFailedInv == ASSUME Inv, NEW e \in Events, PayoutFailed(e) PROVE Inv'
<1>1. e \in Failed /\ e.of \in Payouts /\ e \notin Checkouts
  BY EventFields DEF PayoutFailed
<1>2. TypeOK'
  BY <1>1, NoneAssumption DEF Inv, TypeOK, PayoutFailed, Answer, bucks, offers
<1>3. LedgerExplainsBucks' /\ OneNumberEach'
  BY DEF Inv, LedgerExplainsBucks, OneNumberEach, PayoutFailed, bucks, offers
<1>4. EffectsMatchEvents'
  <2>1. \A p \in Payouts :
          /\ transfer'[p] = "pending" <=> transfer[p] = "pending" /\ e.of # p
          /\ repaid'[p] = IF e.of = p THEN repaid[p] + 1 ELSE repaid[p]
    BY <1>1 DEF Inv, TypeOK, PayoutFailed
  <2>2. \A s \in Offers : NewSession(s)' <=> NewSession(s)
    BY DEF PayoutFailed, offers, NewSession
  <2>3. QED BY <1>1, <2>1, <2>2, Matched DEF PayoutFailed, bucks
<1>5. QED BY <1>2, <1>3, <1>4 DEF Inv

(* What is skipped is passed over, or has had its effect already.          *)
LEMMA SkipInv == ASSUME Inv, NEW e \in Events, Skip(e) PROVE Inv'
<1>1. TypeOK'
  BY NoneAssumption DEF Inv, TypeOK, Skip, Answer, bucks, offers, banking
<1>2. LedgerExplainsBucks' /\ OneNumberEach'
  BY DEF Inv, LedgerExplainsBucks, OneNumberEach, Skip, Answer, bucks, offers, banking
<1>3. EffectsMatchEvents'
  <2>1. UNCHANGED <<payment, members, transfer, repaid>> /\ Answer(e)
    BY DEF Skip, bucks, offers, banking
  <2>2. \A s \in Bucks \ PassedOver : e \in Checkouts /\ e.of = s => payment[s] # "none"
    BY EventFields, ObjectsAssumption DEF Skip
  <2>3. \A s \in Offers \ PassedOver : e \in Checkouts /\ e.of = s => ~ NewSession(s)
    BY EventFields, ObjectsAssumption DEF Skip
  <2>4. \A p \in Payouts \ PassedOver : ~ (e \in Paid \cup Failed /\ e.of = p)
    BY EventFields DEF Skip
  <2>5. \A s \in Offers : NewSession(s)' <=> NewSession(s)
    BY <2>1 DEF NewSession
  <2>6. QED BY <2>1, <2>2, <2>3, <2>4, <2>5, Matched
<1>4. QED BY <1>1, <1>2, <1>3 DEF Inv

LEMMA NextInv == Inv /\ [Next]_vars => Inv'
<1> SUFFICES ASSUME Inv, [Next]_vars PROVE Inv'
  OBVIOUS
<1>1. CASE UNCHANGED vars
  <2>1. TypeOK' /\ LedgerExplainsBucks' /\ OneNumberEach'
    BY <1>1 DEF Inv, TypeOK, LedgerExplainsBucks, OneNumberEach, vars, delivery, bucks, offers, banking
  <2>2. Applied' = Applied /\ UNCHANGED <<payment, members, transfer, repaid>>
    BY <1>1 DEF Applied, vars, delivery, bucks, offers, banking
  <2>3. QED BY <2>1, <2>2, AppliedSame DEF Inv
<1>2. CASE Next
  BY <1>2, LoseInv, RecordInv, IssueBucksInv, ReverseBucksInv, AdmitMemberInv,
     PayoutPaidInv, PayoutFailedInv, SkipInv DEF Next, Apply
<1>3. QED BY <1>1, <1>2

(* The conjuncts of Inv hold in every behaviour of the webhook.            *)
THEOREM Invariance == Spec => []Inv
BY InitInv, NextInv, PTL DEF Spec

(* Every table keeps its type (TypeOK).                                    *)
THEOREM TypeCorrectness == Spec => []TypeOK
<1>1. Inv => TypeOK
  BY DEF Inv
<1>2. QED BY <1>1, Invariance, PTL

(* A payment's ledger entries are an issuance and at most one reversal     *)
(* that explain its active Bucks (handle_buck_event).                      *)
THEOREM LedgerIsExplained == Spec => []LedgerExplainsBucks
<1>1. Inv => LedgerExplainsBucks
  BY DEF Inv
<1>2. QED BY <1>1, Invariance, PTL

(* Each session has at most one member row, and each row its own number    *)
(* (_next_member_number).                                                  *)
THEOREM MembersAreNumbered == Spec => []OneNumberEach
<1>1. Inv => OneNumberEach
  BY DEF Inv
<1>2. QED BY <1>1, Invariance, PTL

(* Every recorded event has had its effect exactly once, unless its        *)
(* handling was lost: a checkout once per session, a failed payout once    *)
(* per event that reports it (stripe_webhook's idempotency check).         *)
THEOREM EffectsAreExact == Spec => []EffectsMatchEvents
<1>1. Inv => EffectsMatchEvents
  BY DEF Inv
<1>2. QED BY <1>1, Invariance, PTL

(* The refunded amount never shrinks, in whatever order refunds arrive.    *)
THEOREM RefundsGrow == Spec => RefundsNeverShrink
<1>1. Inv /\ [Next]_vars => [\A s \in Bucks : refunded'[s] >= refunded[s]]_vars
  <2> SUFFICES ASSUME Inv, Next
               PROVE  \A s \in Bucks : refunded'[s] >= refunded[s]
    OBVIOUS
  <2>1. refunded \in [Bucks -> 0 .. MaxRefunds]
    BY DEF Inv, TypeOK
  <2>2. CASE \E e \in Events : ReverseBucks(e)
    <3>1. PICK e \in Events : ReverseBucks(e)
      BY <2>2
    <3>2. RefundedSoFar(e) >= refunded[e.of] /\ e.of \in Bucks
      BY <2>1, <3>1, EventFields, RefundsAssumption DEF RefundedSoFar, MaxOf, ReverseBucks
    <3>3. QED BY <2>1, <3>1, <3>2, RefundsAssumption DEF ReverseBucks
  <2>3. CASE ~ \E e \in Events : ReverseBucks(e)
    <3>1. UNCHANGED refunded
      BY <2>3 DEF Next, Apply, Lose, Record, IssueBucks, AdmitMember, PayoutPaid,
                  PayoutFailed, Skip, bucks
    <3>2. QED BY <2>1, <3>1, RefundsAssumption
  <2>4. QED BY <2>2, <2>3
<1>2. QED BY <1>1, Invariance, PTL DEF Spec, RefundsNeverShrink

----------------------------------------------------------------------------

CallType ==
  [kind : {"none", "buy", "sell", "view", "quote"}, position : Positions \cup {Null}, asked : Nat,
   began : Times, cached : Entries \cup {Null}, row : Rows \cup {Null},
   quoted : Times \cup {Null}]

Types ==
  /\ InvestmentsTypeOK
  /\ cache \in [Tickers -> Entries \cup {Null}]
  /\ holding \in [Positions -> Rows \cup {Null}]
  /\ call \in [Calls -> CallType]

(* What a call has for its arguments, and when *)
CallsOK ==
  \A h \in Calls :
    /\ call[h].kind = "none" <=> pc[h] \in {"idle", "done"}
    /\ call[h].kind # "none" => call[h].position \in Positions
    /\ call[h].kind = "quote" <=> pc[h] = "quoting"
    /\ call[h].kind \in {"sell", "view"} => call[h].row \in Rows
    /\ call[h].kind = "sell" => 0 < call[h].asked /\ call[h].asked <= call[h].row.quantity
    /\ pc[h] = "ordered" => \/ call[h].kind = "buy" /\ call[h].quoted # Null
                            \/ call[h].kind = "sell" /\ holding[call[h].position] # Null

(* Nothing is stamped later than it was quoted, or quoted later than now. *)
StampsOK ==
  /\ \A t \in Tickers : cache[t] # Null => cache[t].stamp <= cache[t].quoted /\ cache[t].quoted <= now
  /\ \A h \in Calls : call[h].began <= now

(* A sale that was not overtaken has loaded what the position still is. *)
SalesOK ==
  \A h \in Calls :
    call[h].kind = "sell" /\ call[h].position \notin disturbed =>
      /\ holding[call[h].position] # Null
      /\ holding[call[h].position].quantity = call[h].row.quantity

(* What an order that is committed and not booked will do to the position *)
Due(h) == IF call[h].kind = "buy" THEN Bought(h) ELSE - call[h].asked

BooksOK ==
  \A p \in Positions \ disturbed :
    /\ (\A h \in Calls : call[h].position = p => pc[h] # "ordered") => Shares(p) = bought[p] - sold[p]
    /\ \A h \in Calls : call[h].position = p /\ pc[h] = "ordered"
                          => Shares(p) + Due(h) = bought[p] - sold[p]

HoldingsInv == Types /\ CallsOK /\ StampsOK /\ SalesOK /\ BooksOK

(* A quotient of natural numbers is one. *)
LEMMA Quotient == ASSUME NEW n \in Nat, NEW d \in Nat, d > 0 PROVE n \div d \in Nat /\ n % d \in Nat
OBVIOUS

LEMMA RoundedIsNat == ASSUME NEW n \in Nat, NEW d \in Nat, d > 0 PROVE Rounded(n, d) \in Nat
<1>1. n \div d \in Nat /\ n % d \in Nat
  BY Quotient
<1> QED BY <1>1 DEF Rounded

LEMMA Product == ASSUME NEW n \in Nat, NEW m \in Nat PROVE n * m \in Nat
OBVIOUS

LEMMA PriceIsNat ==
  ASSUME Types, NEW h \in Calls
  PROVE  Price(h) \in Nat /\ (call[h].quoted # Null => Price(h) > 0)
BY PricesAssumption DEF Types, CallType, Price

LEMMA BoughtIsNat ==
  ASSUME Types, NEW h \in Calls, call[h].quoted # Null
  PROVE  Bought(h) \in Nat
<1>1. Price(h) \in Nat /\ Price(h) > 0
  BY PriceIsNat
<1>2. call[h].asked \in Nat
  BY DEF Types, CallType
<1> QED BY <1>1, <1>2, Quotient DEF Bought

(* What a sale leaves is a row, or nothing. *)
LEMMA RemainingIsRow ==
  ASSUME Types, NEW h \in Calls, call[h].kind = "sell", CallsOK,
         call[h].position \in Positions, holding[call[h].position] \in Rows
  PROVE  /\ Remaining(h) \in Rows \cup {Null}
         /\ call[h].row.quantity = call[h].asked => Remaining(h) = Null
         /\ call[h].row.quantity # call[h].asked =>
              Remaining(h) # Null /\ Remaining(h).quantity = call[h].row.quantity - call[h].asked
<1> DEFINE row  == call[h].row
           old  == holding[call[h].position]
           left == row.quantity - call[h].asked
           cost == Rounded(row.basis * left, row.quantity)
           last == IF Price(h) > 0 THEN Price(h) ELSE row.price
<1>1. row \in Rows /\ call[h].asked \in Nat /\ 0 < call[h].asked /\ call[h].asked <= row.quantity
  BY DEF CallsOK, Types, CallType
<1>2. left \in Nat /\ row.quantity > 0 /\ row.quantity \in Nat /\ row.basis \in Nat /\ row.price \in Nat
  BY <1>1 DEF Rows
<1>3. cost \in Nat
  <2>1. row.basis * left \in Nat
    BY <1>2, Product
  <2> QED BY <2>1, <1>2, RoundedIsNat
<1>4. last \in Nat
  BY <1>2, PriceIsNat
<1>5. old.id \in Nat /\ old.basis \in Nat /\ old.price \in Nat
  BY DEF Rows
<1> HIDE DEF cost, last, left
<1>6. Column(cost, row.basis, old.basis) \in Nat /\ Column(last, row.price, old.price) \in Nat
  BY <1>3, <1>4, <1>5 DEF Column
<1>7. Remaining(h) = IF left <= 0 THEN Null
      ELSE Row(old.id, left, Column(cost, row.basis, old.basis), Column(last, row.price, old.price))
  BY DEF Remaining, left, cost, last
<1>8. left = row.quantity - call[h].asked
  BY DEF left
<1> HIDE DEF row, old
<1>9. Null \notin Rows
  BY HoldingsAssumption
<1>10. CASE left = 0
  <2>1. Remaining(h) = Null
    BY <1>7, <1>10
  <2> QED BY <2>1, <1>8, <1>10, <1>1, <1>2 DEF row, Rows
<1>11. CASE left > 0
  <2>1. Remaining(h) \in Rows /\ Remaining(h).quantity = left
    BY <1>2, <1>5, <1>6, <1>7, <1>11 DEF Row, Rows
  <2> QED BY <2>1, <1>9, <1>8, <1>11, <1>1, <1>2 DEF row, Rows
<1> QED BY <1>2, <1>10, <1>11

----------------------------------------------------------------------------
(* What most steps leave alone *)

LEMMA SharesAre ==
  ASSUME Types
  PROVE  /\ \A p \in Positions : Shares(p) \in Nat /\ Basis(p) \in Nat
         /\ \A p \in Positions : holding[p] # Null => Shares(p) = holding[p].quantity
BY HoldingsAssumption DEF Types, Rows, Shares, Basis

LEMMA BooksKept ==
  ASSUME BooksOK, UNCHANGED <<bought, sold>>, disturbed \subseteq disturbed',
         \A p \in Positions : Shares(p)' = Shares(p),
         \A g \in Calls : /\ pc'[g] = "ordered" <=> pc[g] = "ordered"
                          /\ pc[g] = "ordered" => call'[g] = call[g]
  PROVE  BooksOK'
<1>1. \A g \in Calls : pc[g] = "ordered" => Due(g)' = Due(g)
  BY DEF Due, Bought, Price
<1> SUFFICES ASSUME NEW p \in Positions, p \notin disturbed
             PROVE  /\ (\A h \in Calls : call'[h].position = p => pc'[h] # "ordered")
                         => Shares(p)' = bought[p] - sold[p]
                    /\ \A h \in Calls : call'[h].position = p /\ pc'[h] = "ordered"
                         => Shares(p)' + Due(h)' = bought[p] - sold[p]
  BY DEF BooksOK
<1>2. /\ (\A h \in Calls : call[h].position = p => pc[h] # "ordered") => Shares(p) = bought[p] - sold[p]
      /\ \A h \in Calls : call[h].position = p /\ pc[h] = "ordered"
                            => Shares(p) + Due(h) = bought[p] - sold[p]
  BY DEF BooksOK
<1> QED BY <1>1, <1>2

LEMMA SalesKept ==
  ASSUME SalesOK, CallsOK, disturbed \subseteq disturbed',
         \A p \in Positions : /\ holding[p] # Null => holding'[p] # Null
                              /\ holding[p] # Null => holding'[p].quantity = holding[p].quantity,
         \A g \in Calls : call'[g].kind = "sell" =>
           /\ call[g].kind = "sell" /\ call'[g].position = call[g].position /\ call'[g].row = call[g].row
  PROVE  SalesOK'
BY DEF SalesOK, CallsOK

(* The first part of each handler *)
LEMMA BeginHolds ==
  ASSUME HoldingsInv, NEW h \in Calls, NEW k \in CallType, Begin(h, k),
         k.kind \in {"buy", "sell", "view"}, k.position \in Positions, k.began = 0, k.quoted = Null,
         k.kind \in {"sell", "view"} => k.row \in Rows,
         k.kind = "sell" => /\ 0 < k.asked /\ k.asked <= k.row.quantity
                            /\ holding[k.position] # Null
                            /\ holding[k.position].quantity = k.row.quantity
  PROVE  HoldingsInv'
<1> USE DEF HoldingsInv
<1> DEFINE entry == cache[TickerOf[k.position]]
           z == IF Fresh(entry) THEN [k EXCEPT !.quoted = entry.quoted]
                ELSE [k EXCEPT !.began = now, !.cached = entry]
           to == IF Fresh(entry) THEN "priced" ELSE "fetching"
<1>1. /\ loop = Null /\ pc[h] = "idle"
      /\ call' = [call EXCEPT ![h] = z] /\ pc' = [pc EXCEPT ![h] = to]
      /\ loop' = IF Fresh(entry) THEN h ELSE loop
      /\ UNCHANGED <<now, cache, holding, made, bought, sold, spent, disturbed, crashes>>
  BY DEF Begin, books, orders
<1>2. entry \in Entries \cup {Null}
  BY TickersAssumption DEF Types
<1>3. Fresh(entry) => entry \in Entries
  BY <1>2 DEF Fresh
<1>4. /\ z \in CallType /\ z.kind = k.kind /\ z.position = k.position /\ z.asked = k.asked /\ z.row = k.row
      /\ z.began \in {0, now}
  <2>1. CASE Fresh(entry)
    <3>1. z = [k EXCEPT !.quoted = entry.quoted] /\ entry.quoted \in Times
      BY <2>1, <1>3 DEF Entries
    <3> HIDE DEF z
    <3> QED BY <3>1 DEF CallType
  <2>2. CASE ~ Fresh(entry)
    <3>1. z = [k EXCEPT !.began = now, !.cached = entry] /\ now \in Times
      BY <2>2 DEF Types, InvestmentsTypeOK
    <3> HIDE DEF z
    <3> QED BY <3>1, <1>2 DEF CallType
  <2> QED BY <2>1, <2>2
<1>5. to = IF loop' = h THEN "priced" ELSE "fetching"
  BY <1>1, CallsAssumption
<1>6. loop' \in {Null, h} /\ (loop' = h <=> Fresh(entry))
  BY <1>1, CallsAssumption
<1> HIDE DEF z, to, entry
<1>7. Types'
  BY <1>1, <1>4, <1>5, <1>6, CallsAssumption DEF Types, InvestmentsTypeOK, Shares, Basis
<1>8. CallsOK'
  BY <1>1, <1>4, <1>5 DEF CallsOK, Types, InvestmentsTypeOK
<1>9. StampsOK'
  BY <1>1, <1>4 DEF StampsOK, Types, InvestmentsTypeOK, Times
<1>10. SalesOK'
  BY <1>1, <1>4 DEF SalesOK, Types, InvestmentsTypeOK
<1>11. BooksOK'
  <2>1. \A g \in Calls : /\ pc'[g] = "ordered" <=> pc[g] = "ordered"
                         /\ pc[g] = "ordered" => call'[g] = call[g]
    BY <1>1, <1>5 DEF Types, InvestmentsTypeOK
  <2>2. \A p \in Positions : Shares(p)' = Shares(p)
    BY <1>1 DEF Shares
  <2> QED BY <1>1, <2>1, <2>2, BooksKept
<1> QED BY <1>7, <1>8, <1>9, <1>10, <1>11

LEMMA NoCallIs ==
  /\ NoCall \in CallType /\ NoCall.kind = "none" /\ NoCall.position = Null
  /\ NoCall.began = 0 /\ NoCall.quoted = Null
BY BoundsAssumption DEF NoCall, CallType, Times

LEMMA ArriveHolds ==
  ASSUME HoldingsInv, NEW h \in Calls, Arrive(h)
  PROVE  HoldingsInv'
<1> DEFINE no == NoCall
<1>0. no \in CallType /\ no.began = 0 /\ no.quoted = Null
  BY NoCallIs
<1> HIDE DEF no
<1> PICK p \in Positions : \/ \E cents \in Amounts : BeginBuy(h, p, cents)
                           \/ \E q \in Quantities : BeginSell(h, p, q)
                           \/ BeginView(h, p) \/ BeginQuote(h, p)
  BY DEF Arrive
<1>1. CASE \E cents \in Amounts : BeginBuy(h, p, cents)
  <2> PICK cents \in Amounts : BeginBuy(h, p, cents)
    BY <1>1
  <2> DEFINE k == [no EXCEPT !.kind = "buy", !.position = p, !.asked = cents]
  <2>1. Begin(h, k)
    BY DEF BeginBuy, no
  <2>2. /\ k \in CallType /\ k.kind = "buy" /\ k.position = p /\ k.began = 0 /\ k.quoted = Null
    BY <1>0, InputsAssumption DEF CallType
  <2> HIDE DEF k
  <2> QED BY <2>1, <2>2, BeginHolds
<1>2. CASE \E q \in Quantities : BeginSell(h, p, q)
  <2> PICK q \in Quantities : BeginSell(h, p, q)
    BY <1>2
  <2> DEFINE k == [no EXCEPT !.kind = "sell", !.position = p, !.asked = q, !.row = holding[p]]
  <2>1. Begin(h, k) /\ holding[p] # Null /\ q <= holding[p].quantity
    BY DEF BeginSell, no
  <2>2. holding[p] \in Rows /\ q \in Nat /\ 0 < q
    BY <2>1, InputsAssumption DEF HoldingsInv, Types
  <2>3. /\ k \in CallType /\ k.kind = "sell" /\ k.position = p /\ k.began = 0 /\ k.quoted = Null
        /\ k.row = holding[p] /\ k.asked = q
    BY <1>0, <2>2 DEF CallType
  <2> HIDE DEF k
  <2> QED BY <2>1, <2>2, <2>3, BeginHolds
<1>3. CASE BeginView(h, p)
  <2> DEFINE k == [no EXCEPT !.kind = "view", !.position = p, !.row = holding[p]]
  <2>1. Begin(h, k) /\ holding[p] \in Rows
    BY <1>3 DEF BeginView, no, HoldingsInv, Types
  <2>2. /\ k \in CallType /\ k.kind = "view" /\ k.position = p /\ k.began = 0 /\ k.quoted = Null
        /\ k.row = holding[p]
    BY <1>0, <2>1 DEF CallType
  <2> HIDE DEF k
  <2> QED BY <2>1, <2>2, BeginHolds
<1>4. CASE BeginQuote(h, p)
  <2> USE DEF HoldingsInv
  <2> DEFINE z == [no EXCEPT !.kind = "quote", !.position = p, !.began = now]
  <2>1. /\ pc[h] = "idle" /\ pc' = [pc EXCEPT ![h] = "quoting"] /\ call' = [call EXCEPT ![h] = z]
        /\ UNCHANGED <<now, cache, holding, made, loop, bought, sold, spent, disturbed, crashes>>
    BY <1>4 DEF BeginQuote, no, books, orders
  <2>2. now \in Times
    BY DEF Types, InvestmentsTypeOK
  <2>3. z \in CallType /\ z.kind = "quote" /\ z.position = p /\ z.began = now
    BY <1>0, <2>2 DEF CallType
  <2> HIDE DEF z
  <2>4. Types'
    BY <2>1, <2>3 DEF Types, InvestmentsTypeOK, Shares, Basis
  <2>5. CallsOK'
    BY <2>1, <2>3 DEF CallsOK, Types, InvestmentsTypeOK
  <2>6. StampsOK'
    BY <2>1, <2>2, <2>3 DEF StampsOK, Types, Times
  <2>7. SalesOK'
    BY <2>1, <2>3 DEF SalesOK, Types
  <2>8. BooksOK'
    <3>1. \A g \in Calls : /\ pc'[g] = "ordered" <=> pc[g] = "ordered"
                           /\ pc[g] = "ordered" => call'[g] = call[g]
      BY <2>1 DEF Types, InvestmentsTypeOK
    <3>2. \A o \in Positions : Shares(o)' = Shares(o)
      BY <2>1 DEF Shares
    <3> QED BY <2>1, <3>1, <3>2, BooksKept
  <2> QED BY <2>4, <2>5, <2>6, <2>7, <2>8
<1> QED BY <1>1, <1>2, <1>3, <1>4

----------------------------------------------------------------------------
(* Prices *)

(* A call that has its price goes on. *)
LEMMA PricedHolds ==
  ASSUME HoldingsInv, NEW h \in Calls, NEW q \in Times \cup {Null},
         loop = Null, pc[h] = "fetching", loop' = h,
         call' = [call EXCEPT ![h].quoted = q], pc' = [pc EXCEPT ![h] = "priced"],
         cache' \in [Tickers -> Entries \cup {Null}],
         \A t \in Tickers : cache'[t] # Null => cache'[t].stamp <= cache'[t].quoted /\ cache'[t].quoted <= now,
         UNCHANGED <<now, holding, made, bought, sold, spent, disturbed, crashes>>
  PROVE  HoldingsInv'
<1> USE DEF HoldingsInv
<1> DEFINE z == [call[h] EXCEPT !.quoted = q]
<1>1. call' = [call EXCEPT ![h] = z]
  OBVIOUS
<1>2. /\ z \in CallType /\ z.kind = call[h].kind /\ z.position = call[h].position /\ z.asked = call[h].asked
      /\ z.row = call[h].row /\ z.began = call[h].began
  BY DEF Types, CallType
<1> HIDE DEF z
<1>3. Types'
  <2>1. \A p \in Positions : Shares(p)' \in Nat /\ Basis(p)' \in Nat
    BY DEF Shares, Basis, Types, InvestmentsTypeOK
  <2>2. \A g \in Calls : pc'[g] \in {"priced", "ordered"} <=> loop' = g
    BY CallsAssumption DEF Types, InvestmentsTypeOK
  <2>3. \A t \in Tickers : cache'[t] # Null => cache'[t].quoted \in Times /\ cache'[t].stamp \in Times
    BY DEF Entries
  <2> QED BY <1>1, <1>2, <2>1, <2>2, <2>3 DEF Types, InvestmentsTypeOK
<1>4. CallsOK'
  BY <1>1, <1>2 DEF CallsOK, Types, InvestmentsTypeOK
<1>5. StampsOK'
  BY <1>1, <1>2 DEF StampsOK, Types
<1>6. SalesOK'
  BY <1>1, <1>2 DEF SalesOK, Types
<1>7. BooksOK'
  <2>1. \A g \in Calls : /\ pc'[g] = "ordered" <=> pc[g] = "ordered"
                         /\ pc[g] = "ordered" => call'[g] = call[g]
    BY <1>1 DEF Types, InvestmentsTypeOK
  <2>2. \A p \in Positions : Shares(p)' = Shares(p)
    BY DEF Shares
  <2> QED BY <2>1, <2>2, BooksKept
<1> QED BY <1>3, <1>4, <1>5, <1>6, <1>7

(* An answer is stamped with the time it was asked for. *)
LEMMA NewEntry ==
  ASSUME HoldingsInv, NEW h \in Calls, call[h].kind # "none", NEW q \in Times,
         call[h].began <= q, q <= now,
         cache' = [cache EXCEPT ![Ticker(h)] = [quoted |-> q, stamp |-> Stamp(h)]]
  PROVE  /\ cache' \in [Tickers -> Entries \cup {Null}]
         /\ \A t \in Tickers : cache'[t] # Null => cache'[t].stamp <= cache'[t].quoted /\ cache'[t].quoted <= now
<1> DEFINE e == [quoted |-> q, stamp |-> Stamp(h)]
<1>1. e \in Entries /\ e.quoted = q /\ e.stamp = call[h].began
  BY DEF HoldingsInv, Types, CallType, Entries, Stamp
<1>2. cache' = [cache EXCEPT ![Ticker(h)] = e]
  OBVIOUS
<1>3. Ticker(h) \in Tickers
  BY TickersAssumption DEF HoldingsInv, CallsOK, Ticker
<1> HIDE DEF e
<1> QED BY <1>1, <1>2, <1>3 DEF HoldingsInv, Types, StampsOK

LEMMA AnswerHolds ==
  ASSUME HoldingsInv, NEW h \in Calls, NEW q \in Times, AnswerPrice(h, q) PROVE HoldingsInv'
<1>1. /\ loop = Null /\ pc[h] = "fetching" /\ loop' = h
      /\ call' = [call EXCEPT ![h].quoted = q] /\ pc' = [pc EXCEPT ![h] = "priced"]
      /\ cache' = [cache EXCEPT ![Ticker(h)] = [quoted |-> q, stamp |-> Stamp(h)]]
      /\ call[h].began <= q /\ q <= now
      /\ UNCHANGED <<now, holding, made, bought, sold, spent, disturbed, crashes>>
  BY DEF AnswerPrice, books, orders
<1>2. call[h].kind # "none"
  BY <1>1 DEF HoldingsInv, CallsOK
<1> QED BY <1>1, <1>2, NewEntry, PricedHolds

LEMMA NoAnswerHolds ==
  ASSUME HoldingsInv, NEW h \in Calls, NoAnswer(h) PROVE HoldingsInv'
<1> DEFINE q == IF call[h].cached = Null THEN Null ELSE call[h].cached.quoted
<1>1. /\ loop = Null /\ pc[h] = "fetching" /\ loop' = h
      /\ call' = [call EXCEPT ![h].quoted = q] /\ pc' = [pc EXCEPT ![h] = "priced"]
      /\ UNCHANGED <<now, cache, holding, made, bought, sold, spent, disturbed, crashes>>
  BY DEF NoAnswer, books, orders
<1>2. q \in Times \cup {Null}
  BY DEF HoldingsInv, Types, CallType, Entries
<1> HIDE DEF q
<1>3. /\ cache' \in [Tickers -> Entries \cup {Null}]
      /\ \A t \in Tickers : cache'[t] # Null => cache'[t].stamp <= cache'[t].quoted /\ cache'[t].quoted <= now
  BY <1>1 DEF HoldingsInv, Types, StampsOK
<1> QED BY <1>1, <1>2, <1>3, PricedHolds

(* A call that is over, and has written no quantity *)
LEMMA EndedHolds ==
  ASSUME HoldingsInv, NEW h \in Calls, pc[h] # "ordered", pc[h] \in {"priced", "quoting"},
         loop' = IF loop = h THEN Null ELSE loop,
         pc' = [pc EXCEPT ![h] = "done"], call' = [call EXCEPT ![h] = NoCall],
         cache' \in [Tickers -> Entries \cup {Null}],
         \A t \in Tickers : cache'[t] # Null => cache'[t].stamp <= cache'[t].quoted /\ cache'[t].quoted <= now,
         holding' \in [Positions -> Rows \cup {Null}],
         \A p \in Positions : /\ holding'[p] = Null <=> holding[p] = Null
                              /\ holding[p] # Null => holding'[p].quantity = holding[p].quantity,
         UNCHANGED <<now, made, bought, sold, spent, disturbed, crashes>>
  PROVE  HoldingsInv'
<1> USE DEF HoldingsInv
<1> DEFINE no == NoCall
<1>1. no \in CallType /\ no.kind = "none" /\ no.position = Null /\ no.began = 0
  BY NoCallIs
<1>2. call' = [call EXCEPT ![h] = no]
  OBVIOUS
<1> HIDE DEF no
<1>3. Types'
  <2>1. \A p \in Positions : Shares(p)' \in Nat /\ Basis(p)' \in Nat
    BY DEF Shares, Basis, Rows
  <2>2. \A g \in Calls : pc'[g] \in {"priced", "ordered"} <=> loop' = g
    BY CallsAssumption DEF Types, InvestmentsTypeOK
  <2>3. \A t \in Tickers : cache'[t] # Null => cache'[t].quoted \in Times /\ cache'[t].stamp \in Times
    BY DEF Entries
  <2> QED BY <1>1, <1>2, <2>1, <2>2, <2>3 DEF Types, InvestmentsTypeOK
<1>4. CallsOK'
  BY <1>1, <1>2 DEF CallsOK, Types, InvestmentsTypeOK
<1>5. StampsOK'
  BY <1>1, <1>2 DEF StampsOK, Types, InvestmentsTypeOK, Times
<1>6. SalesOK'
  BY <1>1, <1>2 DEF SalesOK, CallsOK, Types
<1>7. BooksOK'
  <2>1. \A g \in Calls : /\ pc'[g] = "ordered" <=> pc[g] = "ordered"
                         /\ pc[g] = "ordered" => call'[g] = call[g]
    BY <1>1 DEF Types, InvestmentsTypeOK
  <2>2. \A p \in Positions : Shares(p)' = Shares(p)
    BY DEF Shares
  <2> QED BY <2>1, <2>2, BooksKept
<1> QED BY <1>3, <1>4, <1>5, <1>6, <1>7

LEMMA AnswerQuoteHolds ==
  ASSUME HoldingsInv, NEW h \in Calls, NEW q \in Times, AnswerQuote(h, q) PROVE HoldingsInv'
<1>1. /\ pc[h] = "quoting" /\ pc' = [pc EXCEPT ![h] = "done"] /\ call' = [call EXCEPT ![h] = NoCall]
      /\ cache' = [cache EXCEPT ![Ticker(h)] = [quoted |-> q, stamp |-> Stamp(h)]]
      /\ call[h].began <= q /\ q <= now
      /\ UNCHANGED <<now, holding, made, loop, bought, sold, spent, disturbed, crashes>>
  BY DEF AnswerQuote, books, orders
<1>2. call[h].kind # "none" /\ loop # h
  BY <1>1 DEF HoldingsInv, CallsOK, Types, InvestmentsTypeOK
<1>3. /\ cache' \in [Tickers -> Entries \cup {Null}]
      /\ \A t \in Tickers : cache'[t] # Null => cache'[t].stamp <= cache'[t].quoted /\ cache'[t].quoted <= now
  BY <1>1, <1>2, NewEntry
<1>4. holding' \in [Positions -> Rows \cup {Null}]
  BY <1>1 DEF HoldingsInv, Types
<1> QED BY <1>1, <1>2, <1>3, <1>4, EndedHolds

LEMMA QuietEndHolds ==
  ASSUME HoldingsInv, NEW h \in Calls, loop = h, pc[h] = "priced", Return(h),
         UNCHANGED <<now, cache, holding, made, bought, sold, spent, disturbed, crashes>>
  PROVE  HoldingsInv'
<1>1. /\ loop' = Null /\ pc' = [pc EXCEPT ![h] = "done"] /\ call' = [call EXCEPT ![h] = NoCall]
  BY DEF Return
<1>2. /\ cache' \in [Tickers -> Entries \cup {Null}] /\ holding' \in [Positions -> Rows \cup {Null}]
      /\ \A t \in Tickers : cache'[t] # Null => cache'[t].stamp <= cache'[t].quoted /\ cache'[t].quoted <= now
  BY DEF HoldingsInv, Types, StampsOK
<1> QED BY <1>1, <1>2, EndedHolds

(* A portfolio view writes a price and no quantity. *)
LEMMA ViewHolds ==
  ASSUME HoldingsInv, NEW h \in Calls, View(h) PROVE HoldingsInv'
<1> DEFINE p == call[h].position
           save == StillThere(h) /\ Price(h) > 0
<1>1. /\ loop = h /\ pc[h] = "priced" /\ call[h].kind = "view"
      /\ holding' = IF save THEN [holding EXCEPT ![p] = SavePrice(h)] ELSE holding
      /\ loop' = Null /\ pc' = [pc EXCEPT ![h] = "done"] /\ call' = [call EXCEPT ![h] = NoCall]
      /\ UNCHANGED <<now, cache, made, bought, sold, spent, disturbed, crashes>>
  BY DEF View, Return, orders
<1>2. p \in Positions /\ call[h].row \in Rows
  BY <1>1 DEF HoldingsInv, CallsOK
<1>3. ASSUME save
      PROVE  /\ holding[p] \in Rows /\ SavePrice(h) \in Rows
             /\ SavePrice(h).quantity = holding[p].quantity
  <2> DEFINE old == holding[p]
             c == Column(Price(h), call[h].row.price, old.price)
  <2>1. old \in Rows
    BY <1>2, <1>3 DEF StillThere, HoldingsInv, Types
  <2>2. c \in Nat
    BY <2>1, <1>2, PriceIsNat DEF HoldingsInv, Column, Rows
  <2>3. SavePrice(h) = [old EXCEPT !.price = c]
    BY DEF SavePrice
  <2> HIDE DEF c, old
  <2>4. SavePrice(h) \in Rows /\ SavePrice(h).quantity = old.quantity
    BY <2>1, <2>2, <2>3 DEF Rows
  <2> QED BY <2>1, <2>4 DEF old
<1>4. /\ cache' \in [Tickers -> Entries \cup {Null}]
      /\ \A t \in Tickers : cache'[t] # Null => cache'[t].stamp <= cache'[t].quoted /\ cache'[t].quoted <= now
      /\ holding \in [Positions -> Rows \cup {Null}]
  BY <1>1 DEF HoldingsInv, Types, StampsOK
<1>5. Null \notin Rows
  BY HoldingsAssumption
<1> HIDE DEF p, save
<1>6. /\ holding' \in [Positions -> Rows \cup {Null}]
      /\ \A o \in Positions : /\ holding'[o] = Null <=> holding[o] = Null
                              /\ holding[o] # Null => holding'[o].quantity = holding[o].quantity
  BY <1>1, <1>2, <1>3, <1>4, <1>5
<1> QED BY <1>1, <1>4, <1>6, EndedHolds

----------------------------------------------------------------------------
(* Orders *)

(* Only the call that runs has an order that is not booked. *)
LEMMA OneOrdered ==
  ASSUME HoldingsInv, NEW h \in Calls, loop = h
  PROVE  \A g \in Calls : pc[g] = "ordered" => g = h
BY DEF HoldingsInv, Types, InvestmentsTypeOK

LEMMA OrderHolds ==
  ASSUME HoldingsInv, NEW h \in Calls, NEW p, p = call[h].position,
         loop = h, pc[h] = "priced", pc' = [pc EXCEPT ![h] = "ordered"],
         \/ call[h].kind = "buy" /\ call[h].quoted # Null
         \/ call[h].kind = "sell" /\ holding[p] # Null,
         NEW n \in Nat, NEW m \in Nat, NEW k \in Nat,
         bought' = [bought EXCEPT ![p] = @ + n], sold' = [sold EXCEPT ![p] = @ + m],
         spent' = [spent EXCEPT ![p] = @ + k], n - m = Due(h),
         UNCHANGED <<now, cache, holding, made, loop, call, disturbed, crashes>>
  PROVE  HoldingsInv'
<1> USE DEF HoldingsInv
<1>1. p \in Positions
  BY DEF CallsOK
<1>2. Types'
  <2>1. bought' \in [Positions -> Nat] /\ sold' \in [Positions -> Nat] /\ spent' \in [Positions -> Nat]
    BY <1>1 DEF Types, InvestmentsTypeOK
  <2>2. pc' \in [Calls -> {"idle", "fetching", "quoting", "priced", "ordered", "done"}]
        /\ \A g \in Calls : pc'[g] \in {"priced", "ordered"} <=> loop' = g
    BY DEF Types, InvestmentsTypeOK
  <2>3. \A o \in Positions : Shares(o)' = Shares(o) /\ Basis(o)' = Basis(o)
    BY DEF Shares, Basis
  <2> QED BY <2>1, <2>2, <2>3 DEF Types, InvestmentsTypeOK
<1>3. CallsOK'
  BY DEF CallsOK, Types, InvestmentsTypeOK
<1>4. StampsOK' /\ SalesOK'
  BY DEF StampsOK, SalesOK
<1>5. BooksOK'
  <2>1. Due(h)' = Due(h) /\ Due(h) \in Int
    BY DEF Due, Bought, Price
  <2>2. \A o \in Positions : Shares(o)' = Shares(o) /\ Shares(o) \in Nat
    BY SharesAre DEF Shares
  <2>3. \A g \in Calls : pc[g] = "ordered" => FALSE
    BY OneOrdered
  <2>4. pc'[h] = "ordered" /\ \A g \in Calls : pc'[g] = "ordered" => g = h
    BY <2>3 DEF Types, InvestmentsTypeOK
  <2>5. \A o \in Positions : bought[o] \in Nat /\ sold[o] \in Nat
    BY DEF Types, InvestmentsTypeOK
  <2>6. \A o \in Positions \ disturbed : Shares(o) = bought[o] - sold[o]
    BY <2>3 DEF BooksOK
  <2> SUFFICES ASSUME NEW o \in Positions, o \notin disturbed
               PROVE  /\ (\A g \in Calls : call[g].position = o => pc'[g] # "ordered")
                           => Shares(o)' = bought'[o] - sold'[o]
                      /\ \A g \in Calls : call[g].position = o /\ pc'[g] = "ordered"
                           => Shares(o)' + Due(g)' = bought'[o] - sold'[o]
    BY DEF BooksOK
  <2>7. o # p => bought'[o] = bought[o] /\ sold'[o] = sold[o]
    BY DEF Types, InvestmentsTypeOK
  <2>8. bought'[p] = bought[p] + n /\ sold'[p] = sold[p] + m
    BY <1>1 DEF Types, InvestmentsTypeOK
  <2>9. CASE o = p
    <3>1. Shares(p) + Due(h) = bought'[p] - sold'[p]
      BY <2>1, <2>2, <2>5, <2>6, <2>8, <2>9
    <3> QED BY <3>1, <2>1, <2>2, <2>4, <2>9
  <2>10. CASE o # p
    BY <2>2, <2>4, <2>6, <2>7, <2>10
  <2> QED BY <2>9, <2>10
<1> QED BY <1>2, <1>3, <1>4, <1>5

LEMMA OrderBuyHolds ==
  ASSUME HoldingsInv, NEW h \in Calls, OrderBuy(h) PROVE HoldingsInv'
<1> DEFINE p == call[h].position
           n == Bought(h)
           k == call[h].asked
<1>1. /\ loop = h /\ pc[h] = "priced" /\ call[h].kind = "buy" /\ Price(h) > 0
      /\ bought' = [bought EXCEPT ![p] = @ + n] /\ spent' = [spent EXCEPT ![p] = @ + k]
      /\ pc' = [pc EXCEPT ![h] = "ordered"]
      /\ UNCHANGED <<now, cache, holding, made, loop, call, sold, disturbed, crashes>>
  BY DEF OrderBuy, books
<1>2. call[h].quoted # Null
  BY <1>1 DEF Price
<1>3. n \in Nat /\ k \in Nat /\ n - 0 = Due(h)
  BY <1>1, <1>2, BoughtIsNat DEF HoldingsInv, Types, CallType, Due
<1>4. p \in Positions
  BY <1>1 DEF HoldingsInv, CallsOK
<1> HIDE DEF n, k, p
<1>5. sold' = [sold EXCEPT ![p] = @ + 0]
  BY <1>1, <1>4 DEF HoldingsInv, Types, InvestmentsTypeOK
<1>6. p = call[h].position
  BY DEF p
<1> QED BY <1>1, <1>2, <1>3, <1>5, <1>6, OrderHolds

LEMMA OrderSellHolds ==
  ASSUME HoldingsInv, NEW h \in Calls, OrderSell(h) PROVE HoldingsInv'
<1> DEFINE p == call[h].position
           k == call[h].asked
<1>1. loop = h /\ pc[h] = "priced" /\ call[h].kind = "sell"
  BY DEF OrderSell
<1>2. CASE StillThere(h)
  <2>1. /\ sold' = [sold EXCEPT ![p] = @ + k] /\ pc' = [pc EXCEPT ![h] = "ordered"] /\ holding[p] # Null
        /\ UNCHANGED <<now, cache, holding, made, loop, call, bought, spent, disturbed, crashes>>
    BY <1>2 DEF OrderSell, books, StillThere
  <2>2. k \in Nat /\ p \in Positions
    BY <1>1 DEF HoldingsInv, CallsOK, Types, CallType
  <2> PICK o \in Positions, n \in Nat, m \in Nat : o = p /\ n = 0 /\ m = k
    BY <2>2
  <2>3. n - m = Due(h)
    BY <1>1 DEF Due
  <2> HIDE DEF k, p
  <2>4. /\ bought' = [bought EXCEPT ![o] = @ + n] /\ spent' = [spent EXCEPT ![o] = @ + n]
        /\ sold' = [sold EXCEPT ![o] = @ + m]
    BY <2>1 DEF HoldingsInv, Types, InvestmentsTypeOK
  <2>5. o = call[h].position /\ holding[o] # Null
    BY <2>1 DEF p
  <2>6. \/ call[h].kind = "buy" /\ call[h].quoted # Null
        \/ call[h].kind = "sell" /\ holding[o] # Null
    BY <1>1, <2>5
  <2>7. UNCHANGED <<now, cache, holding, made, loop, call, disturbed, crashes>>
    BY <2>1
  <2>8. loop = h /\ pc[h] = "priced" /\ pc' = [pc EXCEPT ![h] = "ordered"] /\ o = call[h].position
    BY <1>1, <2>1, <2>5
  <2> QED BY ONLY HoldingsInv, <2>3, <2>4, <2>6, <2>7, <2>8, OrderHolds, ZenonT(60)
<1>3. CASE ~ StillThere(h)
  <2>1. Return(h) /\ UNCHANGED <<now, cache, holding, made, bought, sold, spent, disturbed, crashes>>
    BY <1>3 DEF OrderSell, books
  <2> QED BY <1>1, <2>1, QuietEndHolds
<1> QED BY <1>2, <1>3

(* The booking of an order: the position is due what was ordered. *)
LEMMA BookHolds ==
  ASSUME HoldingsInv, NEW h \in Calls, NEW p, p = call[h].position,
         loop = h, pc[h] = "ordered", Return(h),
         NEW row \in Rows \cup {Null}, Write(h, p, row), made' \in Nat,
         p \notin disturbed => (IF row = Null THEN 0 ELSE row.quantity) = Shares(p) + Due(h),
         UNCHANGED <<now, cache, bought, sold, spent, crashes>>
  PROVE  HoldingsInv'
<1> USE DEF HoldingsInv
<1> DEFINE no == NoCall
<1>1. no \in CallType /\ no.kind = "none" /\ no.position = Null /\ no.began = 0
  BY NoCallIs
<1>2. /\ loop' = Null /\ pc' = [pc EXCEPT ![h] = "done"] /\ call' = [call EXCEPT ![h] = no]
      /\ holding' = [holding EXCEPT ![p] = row]
      /\ disturbed' = IF Overtakes(h, p) THEN disturbed \cup {p} ELSE disturbed
  BY DEF Return, Write
<1>3. p \in Positions
  BY DEF CallsOK
<1> HIDE DEF no
<1>4. holding' \in [Positions -> Rows \cup {Null}] /\ disturbed' \subseteq Positions /\ disturbed \subseteq disturbed'
  BY <1>2, <1>3 DEF Types, InvestmentsTypeOK
<1>5. \A o \in Positions : o # p => holding'[o] = holding[o]
  BY <1>2 DEF Types
<1>6. \A g \in Calls : pc[g] = "ordered" => g = h
  BY OneOrdered
<1>7. Types'
  <2>1. \A o \in Positions : Shares(o)' \in Nat /\ Basis(o)' \in Nat
    BY <1>4 DEF Shares, Basis, Rows
  <2>2. \A g \in Calls : pc'[g] \in {"priced", "ordered"} <=> loop' = g
    BY <1>2, CallsAssumption DEF Types, InvestmentsTypeOK
  <2> QED BY <1>1, <1>2, <1>4, <2>1, <2>2 DEF Types, InvestmentsTypeOK
<1>8. CallsOK'
  BY <1>1, <1>2, <1>6 DEF CallsOK, Types, InvestmentsTypeOK
<1>9. StampsOK'
  BY <1>1, <1>2 DEF StampsOK, Types, InvestmentsTypeOK, Times
<1>10. SalesOK'
  <2> SUFFICES ASSUME NEW g \in Calls, call'[g].kind = "sell", call'[g].position \notin disturbed'
               PROVE  /\ holding'[call'[g].position] # Null
                      /\ holding'[call'[g].position].quantity = call'[g].row.quantity
    BY DEF SalesOK
  <2>1. g # h /\ call'[g] = call[g]
    BY <1>1, <1>2 DEF Types
  <2>2. call[g].position # p
    BY <1>2, <2>1 DEF Overtakes
  <2> QED BY <1>4, <1>5, <2>1, <2>2 DEF SalesOK, CallsOK
<1>11. BooksOK'
  <2>1. \A g \in Calls : pc'[g] # "ordered"
    BY <1>2, <1>6 DEF Types, InvestmentsTypeOK
  <2>2. \A o \in Positions : bought[o] \in Nat /\ sold[o] \in Nat /\ Shares(o) \in Nat
    BY SharesAre DEF Types, InvestmentsTypeOK
  <2>3. \A o \in Positions \ disturbed' : Shares(o)' = bought[o] - sold[o]
    <3> SUFFICES ASSUME NEW o \in Positions, o \notin disturbed PROVE Shares(o)' = bought[o] - sold[o]
      BY <1>4
    <3>1. CASE o = p
      <4>1. Shares(p)' = IF row = Null THEN 0 ELSE row.quantity
        BY <1>2, <1>3 DEF Shares, Types
      <4>2. Shares(p) + Due(h) = bought[p] - sold[p]
        BY <3>1 DEF BooksOK
      <4> QED BY <3>1, <4>1, <4>2
    <3>2. CASE o # p
      <4>1. Shares(o)' = Shares(o)
        BY <1>5, <3>2 DEF Shares
      <4>2. \A g \in Calls : call[g].position = o => pc[g] # "ordered"
        BY <1>6, <3>2
      <4> QED BY <4>1, <4>2 DEF BooksOK
    <3> QED BY <3>1, <3>2
  <2> QED BY <2>1, <2>3 DEF BooksOK
<1> QED BY <1>7, <1>8, <1>9, <1>10, <1>11

LEMMA BookBuyHolds ==
  ASSUME HoldingsInv, NEW h \in Calls, BookBuy(h) PROVE HoldingsInv'
<1> DEFINE p == call[h].position
           old == holding[p]
           n == Bought(h)
           k == call[h].asked
           x == Price(h)
           row == IF old = Null THEN Row(made + 1, n, k, x)
                  ELSE Row(old.id, old.quantity + n, old.basis + k, x)
<1>1. /\ loop = h /\ pc[h] = "ordered" /\ call[h].kind = "buy" /\ Return(h) /\ Write(h, p, row)
      /\ made' \in {made, made + 1}
      /\ UNCHANGED <<now, cache, bought, sold, spent, crashes>>
  BY DEF BookBuy, orders
<1>2. call[h].quoted # Null /\ p \in Positions
  BY <1>1 DEF HoldingsInv, CallsOK
<1>3. n \in Nat /\ x \in Nat /\ k \in Nat /\ made \in Nat /\ Due(h) = n
  BY <1>1, <1>2, BoughtIsNat, PriceIsNat DEF HoldingsInv, Types, InvestmentsTypeOK, CallType, Due
<1>4. old \in Rows \cup {Null}
  BY <1>2 DEF HoldingsInv, Types
<1> HIDE DEF n, k, x
<1>5. /\ row \in Rows
      /\ row.quantity = IF old = Null THEN n ELSE old.quantity + n
  BY <1>3, <1>4 DEF Row, Rows
<1>6. Null \notin Rows
  BY HoldingsAssumption
<1>7. Shares(p) = IF old = Null THEN 0 ELSE old.quantity
  BY DEF Shares
<1>8. old # Null => old.quantity \in Nat
  BY <1>4 DEF Rows
<1> HIDE DEF row
<1>9. (IF row = Null THEN 0 ELSE row.quantity) = Shares(p) + Due(h)
  <2> HIDE DEF old, p
  <2> QED BY <1>3, <1>5, <1>6, <1>7, <1>8
<1>10. made' \in Nat /\ p = call[h].position
  BY <1>1, <1>3
<1> HIDE DEF p, old
<1> QED BY <1>1, <1>5, <1>9, <1>10, BookHolds

LEMMA BookSellHolds ==
  ASSUME HoldingsInv, NEW h \in Calls, BookSell(h) PROVE HoldingsInv'
<1> DEFINE p == call[h].position
           row == Remaining(h)
<1>1. /\ loop = h /\ pc[h] = "ordered" /\ call[h].kind = "sell" /\ Return(h) /\ Write(h, p, row)
      /\ UNCHANGED <<now, cache, made, bought, sold, spent, crashes>>
  BY DEF BookSell, orders
<1>2. p \in Positions /\ holding[p] # Null /\ call[h].row \in Rows
  BY <1>1 DEF HoldingsInv, CallsOK
<1>3. holding[p] \in Rows
  BY <1>2 DEF HoldingsInv, Types
<1>4. /\ row \in Rows \cup {Null}
      /\ call[h].row.quantity = call[h].asked => row = Null
      /\ call[h].row.quantity # call[h].asked => row # Null /\ row.quantity = call[h].row.quantity - call[h].asked
  BY <1>1, <1>2, <1>3, RemainingIsRow DEF HoldingsInv
<1> HIDE DEF row
<1>5. p \notin disturbed => (IF row = Null THEN 0 ELSE row.quantity) = Shares(p) + Due(h)
  <2> SUFFICES ASSUME p \notin disturbed PROVE (IF row = Null THEN 0 ELSE row.quantity) = Shares(p) + Due(h)
    OBVIOUS
  <2>1. Shares(p) = call[h].row.quantity
    BY <1>1, <1>2 DEF HoldingsInv, SalesOK, Shares
  <2>2. Due(h) = - call[h].asked /\ call[h].asked \in Nat /\ call[h].row.quantity \in Nat
    BY <1>1, <1>2 DEF Due, HoldingsInv, Types, CallType, Rows
  <2> QED BY <1>4, <2>1, <2>2
<1>6. made' \in Nat /\ p = call[h].position
  BY <1>1 DEF HoldingsInv, Types, InvestmentsTypeOK
<1> HIDE DEF p
<1> QED BY <1>1, <1>4, <1>5, <1>6, BookHolds

----------------------------------------------------------------------------
(* The clock, and restarts *)

LEMMA TickHolds == ASSUME HoldingsInv, Tick PROVE HoldingsInv'
<1> USE DEF HoldingsInv
<1>1. /\ now < MaxTime /\ now' = now + 1
      /\ UNCHANGED <<cache, holding, made, loop, pc, call, bought, sold, spent, disturbed, crashes>>
  BY DEF Tick, books, tasks, orders
<1>2. now \in Int /\ now' \in Times
  BY <1>1, BoundsAssumption DEF Types, InvestmentsTypeOK, Times
<1>3. \A o \in Positions : Shares(o)' = Shares(o) /\ Basis(o)' = Basis(o)
  BY <1>1 DEF Shares, Basis
<1>4. Types'
  BY <1>1, <1>2, <1>3 DEF Types, InvestmentsTypeOK
<1>5. CallsOK' /\ SalesOK'
  BY <1>1 DEF CallsOK, SalesOK
<1>6. StampsOK'
  <2>1. \A t \in Tickers : cache[t] # Null => cache[t].quoted \in Int
    BY DEF Types, Entries, Times
  <2>2. \A h \in Calls : call[h].began \in Int
    BY DEF Types, CallType, Times
  <2> QED BY <1>1, <1>2, <2>1, <2>2 DEF StampsOK
<1>7. BooksOK'
  BY <1>1, <1>3, BooksKept
<1> QED BY <1>4, <1>5, <1>6, <1>7

LEMMA CrashHolds == ASSUME HoldingsInv, Crash PROVE HoldingsInv'
<1> USE DEF HoldingsInv
<1> DEFINE no == NoCall
           cut == {call[h].position : h \in {g \in Calls : pc[g] = "ordered"}}
<1>1. /\ crashes < MaxCrashes /\ crashes' = crashes + 1
      /\ cache' = [t \in Tickers |-> Null]
      /\ disturbed' = disturbed \cup cut
      /\ loop' = Null
      /\ pc' = [h \in Calls |-> IF pc[h] = "idle" THEN "idle" ELSE "done"]
      /\ call' = [h \in Calls |-> no]
      /\ UNCHANGED <<now, holding, made, bought, sold, spent>>
  BY DEF Crash, books, orders
<1>2. no \in CallType /\ no.kind = "none" /\ no.position = Null /\ no.began = 0
  BY NoCallIs
<1>3. cut \subseteq Positions
  BY DEF CallsOK
<1> HIDE DEF no, cut
<1>4. \A o \in Positions : Shares(o)' = Shares(o) /\ Basis(o)' = Basis(o)
  BY <1>1 DEF Shares, Basis
<1>5. Types'
  <2>1. crashes' \in 0 .. MaxCrashes
    BY <1>1, BoundsAssumption DEF Types, InvestmentsTypeOK
  <2>2. /\ pc' \in [Calls -> {"idle", "fetching", "quoting", "priced", "ordered", "done"}]
        /\ \A g \in Calls : pc'[g] \in {"priced", "ordered"} <=> loop' = g
    BY <1>1, CallsAssumption
  <2> QED BY <1>1, <1>2, <1>3, <1>4, <2>1, <2>2 DEF Types, InvestmentsTypeOK
<1>6. CallsOK'
  BY <1>1, <1>2 DEF CallsOK
<1>7. StampsOK'
  BY <1>1, <1>2 DEF StampsOK, Types, InvestmentsTypeOK, Times
<1>8. SalesOK'
  BY <1>1, <1>2 DEF SalesOK
<1>9. BooksOK'
  <2>1. \A g \in Calls : pc'[g] # "ordered"
    BY <1>1
  <2>2. \A o \in Positions \ disturbed' : Shares(o) = bought[o] - sold[o]
    <3> SUFFICES ASSUME NEW o \in Positions, o \notin disturbed, o \notin cut PROVE Shares(o) = bought[o] - sold[o]
      BY <1>1
    <3>1. \A h \in Calls : call[h].position = o => pc[h] # "ordered"
      BY DEF cut
    <3> QED BY <3>1 DEF BooksOK
  <2> QED BY <1>1, <1>4, <2>1, <2>2 DEF BooksOK
<1> QED BY <1>5, <1>6, <1>7, <1>8, <1>9

----------------------------------------------------------------------------

LEMMA HoldingsInit == ASSUME InvestmentsInit PROVE HoldingsInv
<1> DEFINE no == NoCall
<1>1. no \in CallType /\ no.kind = "none" /\ no.position = Null /\ no.began = 0
  BY NoCallIs
<1>2. /\ now = 0 /\ cache = [t \in Tickers |-> Null] /\ holding = Holdings0
      /\ made = Cardinality(Positions) /\ loop = Null
      /\ pc = [h \in Calls |-> "idle"] /\ call = [h \in Calls |-> no]
      /\ bought = [p \in Positions |-> Shares(p)] /\ sold = [p \in Positions |-> 0]
      /\ spent = [p \in Positions |-> Basis(p)] /\ disturbed = {} /\ crashes = 0
  BY DEF InvestmentsInit
<1>3. holding \in [Positions -> Rows \cup {Null}] /\ made \in Nat
  <2>1. IsFiniteSet(Positions)
    BY HoldingsAssumption
  <2> QED BY <1>2, <2>1, FS_CardinalityType, HoldingsAssumption
<1>4. \A p \in Positions : Shares(p) \in Nat /\ Basis(p) \in Nat
  BY <1>3 DEF Shares, Basis, Rows
<1>5. 0 \in Times /\ 0 \in 0 .. MaxCrashes
  BY BoundsAssumption DEF Times
<1> HIDE DEF no
<1>6. Types
  <2>1. \A g \in Calls : pc[g] \in {"priced", "ordered"} <=> loop = g
    BY <1>2, CallsAssumption
  <2> QED BY <1>1, <1>2, <1>3, <1>4, <1>5, <2>1 DEF Types, InvestmentsTypeOK
<1>7. CallsOK /\ StampsOK /\ SalesOK
  BY <1>1, <1>2 DEF CallsOK, StampsOK, SalesOK
<1>8. BooksOK
  BY <1>2, <1>4 DEF BooksOK
<1> QED BY <1>6, <1>7, <1>8 DEF HoldingsInv

LEMMA HoldingsNext == ASSUME HoldingsInv, [InvestmentsNext]_investmentsVars PROVE HoldingsInv'
<1>1. ASSUME NEW h \in Calls, Arrive(h) PROVE HoldingsInv'
  BY <1>1, ArriveHolds
<1>2. ASSUME NEW h \in Calls, Step(h) PROVE HoldingsInv'
  <2>1. ASSUME NEW q \in Times, AnswerPrice(h, q) \/ AnswerQuote(h, q) PROVE HoldingsInv'
    BY <2>1, AnswerHolds, AnswerQuoteHolds
  <2>2. ASSUME RefuseBuy(h) PROVE HoldingsInv'
    <3>1. /\ loop = h /\ pc[h] = "priced" /\ Return(h)
          /\ UNCHANGED <<now, cache, holding, made, bought, sold, spent, disturbed, crashes>>
      BY <2>2 DEF RefuseBuy, books, orders
    <3> QED BY <3>1, QuietEndHolds
  <2> QED BY <1>2, <2>1, <2>2, NoAnswerHolds, OrderBuyHolds, BookBuyHolds, OrderSellHolds, BookSellHolds,
             ViewHolds DEF Step
<1>3. CASE UNCHANGED investmentsVars
  <2>1. UNCHANGED <<now, cache, holding, made, loop, pc, call, bought, sold, spent, disturbed, crashes>>
    BY <1>3 DEF investmentsVars, books, tasks, orders
  <2>2. \A o \in Positions : Shares(o)' = Shares(o) /\ Basis(o)' = Basis(o)
    BY <2>1 DEF Shares, Basis
  <2>3. Types' /\ CallsOK' /\ StampsOK' /\ SalesOK'
    BY <2>1, <2>2 DEF HoldingsInv, Types, InvestmentsTypeOK, CallsOK, StampsOK, SalesOK
  <2>4. BooksOK'
    BY <2>1, <2>2, BooksKept DEF HoldingsInv
  <2> QED BY <2>3, <2>4 DEF HoldingsInv
<1> QED BY <1>1, <1>2, <1>3, TickHolds, CrashHolds DEF InvestmentsNext

----------------------------------------------------------------------------

(* In every behaviour: the books, the prices and the calls agree. *)
THEOREM HoldingsInvariance == InvestmentsSpec => []HoldingsInv
<1>1. InvestmentsInit => HoldingsInv
  BY HoldingsInit
<1>2. HoldingsInv /\ [InvestmentsNext]_investmentsVars => HoldingsInv'
  BY HoldingsNext
<1> QED BY <1>1, <1>2, PTL DEF InvestmentsSpec

(* A position is what its orders add up to, unless a sale of it was        *)
(* overtaken or cut off (place_buy_order, place_sell_order,                *)
(* get_portfolio).                                                         *)
THEOREM PositionsAreExplained == InvestmentsSpec => []PositionsMatchOrders
<1>1. HoldingsInv => PositionsMatchOrders
  BY DEF HoldingsInv, Types, BooksOK, PositionsMatchOrders
<1> QED BY <1>1, HoldingsInvariance, PTL

(* A price that is served from the cache without asking is no older than   *)
(* the cache's time to live, however long its answer took                  *)
(* (get_price_cached).                                                     *)
THEOREM ServedPricesAreRecent == InvestmentsSpec => []FreshPricesAreRecent
<1>1. HoldingsInv => FreshPricesAreRecent
  <2> SUFFICES ASSUME HoldingsInv, NEW t \in Tickers, Fresh(cache[t])
               PROVE  now - cache[t].quoted < _PRICE_CACHE_TTL_SECONDS
    BY DEF FreshPricesAreRecent
  <2>1. /\ cache[t] \in Entries /\ cache[t].stamp <= cache[t].quoted
        /\ now - cache[t].stamp < _PRICE_CACHE_TTL_SECONDS
    BY DEF Fresh, HoldingsInv, Types, StampsOK
  <2>2. now \in Int /\ cache[t].stamp \in Int /\ cache[t].quoted \in Int /\ _PRICE_CACHE_TTL_SECONDS \in Int
    BY <2>1, BoundsAssumption DEF HoldingsInv, Types, InvestmentsTypeOK, Entries, Times
  <2> QED BY <2>1, <2>2
<1> QED BY <1>1, HoldingsInvariance, PTL
=============================================================================
