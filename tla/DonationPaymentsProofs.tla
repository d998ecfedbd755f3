----------------------- MODULE DonationPaymentsProofs -----------------------
(***************************************************************************)
(* Proofs about DonationPayments, for any donations, any number of         *)
(* deliveries in progress and any bound on the faults.                     *)
(*                                                                         *)
(* The safety properties are not inductive: that the processed flag is no  *)
(* lie needs to know what the handler has done when it stands before       *)
(* markProcessed, and that needs the election by the insert, and so on.    *)
(* IInv collects these facts, one conjunct per idea.                       *)
(***************************************************************************)
EXTENDS DonationPayments, TLAPS

(* The event that a delivery carries was produced by Stripe, and past the  *)
(* insert the handler that was elected still owns the event's row.         *)
DeliveryInv ==
    \A w \in Workers :
        /\ pc[w] # "idle" => job[w] \in emitted
        /\ pc[w] \in {"update", "mark"} => webhookEvent[job[w]] = "received"
        /\ pc[w] = "respond" => webhookEvent[job[w]] # "absent"
        /\ pc[w] = "update" => job[w].kind \in SettlingKinds

(* Before markProcessed the status is written already. *)
AppliedInv ==
    \A w \in Workers, d \in Donations, k \in SettlingKinds :
        /\ pc[w] = "mark"
        /\ job[w] = EventOf(k, d)
        /\ donation[d].stripeSessionId = d
        => donation[d].status = StatusOf(k)

(* A settling event exists exactly for the outcome of its session. *)
OutcomeInv ==
    \A d \in Donations, k \in SettlingKinds :
        EventOf(k, d) \in emitted => checkout[d] = k

(* Rows of WebhookEvent are rows of events that exist. *)
RecordedInv ==
    \A e \in Events : webhookEvent[e] # "absent" => e \in emitted

(* How far an intent handler got bounds what the row and the session can   *)
(* look like.                                                              *)
IntentInv ==
    \A d \in Donations :
        /\ donation[d].stripeSessionId \in {NoSession, d}
        /\ intent[d] = "new" => donation[d].status = "ABSENT"
        /\ intent[d] \in {"new", "created"} => checkout[d] = "none"
        /\ intent[d] \in {"created", "opened"} =>
                donation[d].stripeSessionId = NoSession
        /\ intent[d] \in {"created", "opened", "returned"} =>
                donation[d].status # "ABSENT"
        /\ intent[d] = "opened" => checkout[d] = "open"
        /\ intent[d] = "returned" => donation[d].stripeSessionId = d
        /\ checkout[d] = "completed" => intent[d] = "returned"
        /\ checkout[d] # "none" => donation[d].status # "ABSENT"
        /\ donation[d].stripeSessionId = NoSession =>
                donation[d].status \in {"ABSENT", "PENDING"}

IInv ==
    /\ TypeOK
    /\ DeliveryInv
    /\ AppliedInv
    /\ OutcomeInv
    /\ RecordedInv
    /\ IntentInv
    /\ SingleProcessor
    /\ StatusMatchesCheckout
    /\ ProcessedIsApplied
    /\ AckedIsRecorded

-----------------------------------------------------------------------------
(* The initial states satisfy the invariant. *)
LEMMA InitInv == Init => IInv
<1> SUFFICES ASSUME Init PROVE IInv
  OBVIOUS
<1> USE DEF Init, EventOf, SettlingKinds
<1>1. TypeOK
  BY FaultsAssumption DEF TypeOK, Events, OtherEvents
<1>2. DeliveryInv /\ AppliedInv /\ SingleProcessor
  BY DEF DeliveryInv, AppliedInv, SingleProcessor
<1>3. OutcomeInv /\ RecordedInv /\ AckedIsRecorded
  BY DEF OutcomeInv, RecordedInv, AckedIsRecorded, Events, SessionEvents,
         OtherEvents
<1>4. IntentInv /\ StatusMatchesCheckout
  BY NoSessionAssumption DEF IntentInv, StatusMatchesCheckout
<1>5. ProcessedIsApplied
  BY NoSessionAssumption DEF ProcessedIsApplied
<1> QED
  BY <1>1, <1>2, <1>3, <1>4, <1>5 DEF IInv

(* Type correctness is preserved by every step. *)
LEMMA TypeStep == TypeOK /\ [Next]_vars => TypeOK'
<1> SUFFICES ASSUME TypeOK, [Next]_vars PROVE TypeOK'
  OBVIOUS
<1> USE FaultsAssumption DEF TypeOK
<1>1. ASSUME NEW d \in Donations, IntentStep(d) PROVE TypeOK'
  BY <1>1 DEF IntentStep, RejectIntent, CreatePending,
              CreateCheckoutSession, AttachStripeSession, hookVars
<1>2. ASSUME NEW d \in Donations, AbortIntent(d) \/ AttachThenAbort(d)
      PROVE TypeOK'
  BY <1>2 DEF AbortIntent, AttachThenAbort, hookVars
<1>3. ASSUME NEW d \in Donations, Pay(d) \/ Expire(d) PROVE TypeOK'
  BY <1>3 DEF Pay, Expire, hookVars, EventOf, Events, SessionEvents,
              SettlingKinds
<1>4. ASSUME NEW e \in OtherEvents, EmitOther(e) PROVE TypeOK'
  BY <1>4 DEF EmitOther, hookVars, intentVars, Events
<1>5. ASSUME NEW w \in Workers, NEW e \in Events, Deliver(w, e) PROVE TypeOK'
  BY <1>5 DEF Deliver, intentVars
<1>6. ASSUME NEW w \in Workers, HookStep(w) PROVE TypeOK'
  <2>1. CASE CreateIfNotExists(w)
    BY <2>1 DEF CreateIfNotExists, AfterInsert, intentVars
  <2>2. CASE UpdateStatus(w)
    BY <2>2 DEF UpdateStatus, UpdateStatusByStripeSessionId, StatusOf
  <2>3. CASE RejectMissingSession(w) \/ MarkProcessed(w) \/ Respond(w)
    BY <2>3 DEF RejectMissingSession, MarkProcessed, Respond, intentVars
  <2> QED
    BY <1>6, <2>1, <2>2, <2>3 DEF HookStep
<1>7. ASSUME NEW w \in Workers, AbortDelivery(w) PROVE TypeOK'
  BY <1>7 DEF AbortDelivery, intentVars
<1>8. CASE UNCHANGED vars
  BY <1>8 DEF vars
<1> QED
  BY <1>1, <1>2, <1>3, <1>4, <1>5, <1>6, <1>7, <1>8 DEF Next

(* Every variable keeps to its type in every reachable state. *)
THEOREM TypeCorrect == Spec => []TypeOK
<1>1. Init => TypeOK
  BY InitInv DEF IInv
<1> QED
  BY <1>1, TypeStep, PTL DEF Spec

-----------------------------------------------------------------------------
(* The action lemmas, with one step for each conjunct of IInv. *)

(* While an intent handler runs, its session is not settled, so no event   *)
(* of its donation exists: what is known of deliveries stays true.         *)
LEMMA IntentStepInv ==
    ASSUME IInv, NEW c \in Donations,
           IntentStep(c) \/ AbortIntent(c) \/ AttachThenAbort(c)
    PROVE  IInv'
<1> USE NoSessionAssumption DEF IInv, TypeOK, IntentStep, RejectIntent,
        CreatePending, CreateCheckoutSession, AttachStripeSession,
        AbortIntent, AttachThenAbort, hookVars, EventOf, SettlingKinds
<1>1. TypeOK'
  <2>1. [Next]_vars
    BY DEF Next
  <2> QED
    BY <2>1, TypeStep
<1>2. IntentInv'
  BY DEF IntentInv
<1>3. DeliveryInv' /\ RecordedInv' /\ SingleProcessor' /\ AckedIsRecorded'
  BY DEF DeliveryInv, RecordedInv, SingleProcessor, AckedIsRecorded
<1>4. OutcomeInv'
  BY DEF OutcomeInv, IntentInv
<1>5. StatusMatchesCheckout'
  BY DEF StatusMatchesCheckout, IntentInv
<1>6. \A d \in Donations, k \in SettlingKinds :
        EventOf(k, d) \in emitted => intent[d] \notin {"new", "created", "opened"}
  BY DEF OutcomeInv, IntentInv
<1>7. \A d \in Donations :
        intent[d] \notin {"new", "created", "opened"} =>
            donation'[d] = donation[d]
  OBVIOUS
<1>8. UNCHANGED <<emitted, webhookEvent, pc, job>>
  OBVIOUS
<1>9. AppliedInv'
  <2> SUFFICES ASSUME NEW w \in Workers, NEW d \in Donations,
                      NEW k \in SettlingKinds,
                      pc[w] = "mark", job[w] = EventOf(k, d),
                      donation'[d].stripeSessionId = d
               PROVE  donation'[d].status = StatusOf(k)
    BY <1>8 DEF AppliedInv
  <2>1. EventOf(k, d) \in emitted
    BY DEF DeliveryInv
  <2>2. donation'[d] = donation[d]
    BY <1>6, <1>7, <2>1
  <2> QED
    BY <2>2 DEF AppliedInv
<1>10. ProcessedIsApplied'
  <2> SUFFICES ASSUME NEW d \in Donations, NEW k \in SettlingKinds,
                      webhookEvent[EventOf(k, d)] = "processed",
                      donation'[d].stripeSessionId = d
               PROVE  donation'[d].status = StatusOf(k)
    BY <1>8 DEF ProcessedIsApplied
  <2>1. EventOf(k, d) \in emitted
    BY DEF RecordedInv, Events, SessionEvents
  <2>2. donation'[d] = donation[d]
    BY <1>6, <1>7, <2>1
  <2> QED
    BY <2>2 DEF ProcessedIsApplied
<1> QED
  BY <1>1, <1>2, <1>3, <1>4, <1>5, <1>9, <1>10

(* Stripe settles a session whose events did not exist before. *)
LEMMA StripeStepInv ==
    ASSUME IInv, NEW c \in Donations, Pay(c) \/ Expire(c)
    PROVE  IInv'
<1> USE NoSessionAssumption DEF IInv, TypeOK, Pay, Expire, hookVars, EventOf,
        SettlingKinds
<1>1. TypeOK'
  <2>1. [Next]_vars
    BY DEF Next
  <2> QED
    BY <2>1, TypeStep
<1>2. DeliveryInv' /\ RecordedInv' /\ SingleProcessor' /\ AckedIsRecorded'
  BY DEF DeliveryInv, RecordedInv, SingleProcessor, AckedIsRecorded
<1>3. OutcomeInv'
  <2> SUFFICES ASSUME NEW d \in Donations, NEW k \in SettlingKinds,
                      EventOf(k, d) \in emitted'
               PROVE  checkout'[d] = k
    BY DEF OutcomeInv
  <2>1. EventOf(k, d) \in emitted => d # c /\ checkout[d] = k
    BY DEF OutcomeInv
  <2>2. CASE EventOf(k, d) \in emitted
    BY <2>1, <2>2
  <2>3. CASE EventOf(k, d) \notin emitted
    BY <2>3
  <2> QED
    BY <2>2, <2>3
<1>4. IntentInv' /\ StatusMatchesCheckout'
  BY DEF IntentInv, StatusMatchesCheckout
<1>5. AppliedInv' /\ ProcessedIsApplied'
  BY DEF AppliedInv, ProcessedIsApplied
<1> QED
  BY <1>1, <1>2, <1>3, <1>4, <1>5

(* An event that settles no session, and a delivery at the route's door,   *)
(* add to what is in flight and to nothing else.                           *)
LEMMA DeliveryStepInv ==
    ASSUME IInv,
           \/ \E e \in OtherEvents : EmitOther(e)
           \/ \E w \in Workers, e \in Events : Deliver(w, e)
           \/ \E w \in Workers : AbortDelivery(w)
    PROVE  IInv'
<1> USE NoSessionAssumption DEF IInv, TypeOK, EmitOther, Deliver,
        AbortDelivery, intentVars, hookVars
<1>1. TypeOK'
  <2>1. [Next]_vars
    BY DEF Next
  <2> QED
    BY <2>1, TypeStep
<1>2. DeliveryInv' /\ RecordedInv' /\ SingleProcessor' /\ AckedIsRecorded'
  BY DEF DeliveryInv, RecordedInv, SingleProcessor, AckedIsRecorded
<1>3. OutcomeInv'
  BY DEF OutcomeInv, OtherEvents, EventOf
<1>4. IntentInv' /\ StatusMatchesCheckout'
  BY DEF IntentInv, StatusMatchesCheckout
<1>5. AppliedInv' /\ ProcessedIsApplied'
  BY DEF AppliedInv, ProcessedIsApplied
<1> QED
  BY <1>1, <1>2, <1>3, <1>4, <1>5

(* The insert elects at most one handler for an event. *)
LEMMA CreateIfNotExistsInv ==
    ASSUME IInv, NEW v \in Workers, CreateIfNotExists(v)
    PROVE  IInv'
<1> USE NoSessionAssumption DEF IInv, TypeOK, CreateIfNotExists, AfterInsert,
        intentVars
<1>1. TypeOK'
  <2>1. [Next]_vars
    BY DEF Next, HookStep
  <2> QED
    BY <2>1, TypeStep
<1>2. DeliveryInv' /\ RecordedInv'
  BY DEF DeliveryInv, RecordedInv
<1>3. SingleProcessor' /\ AckedIsRecorded'
  BY DEF DeliveryInv, SingleProcessor, AckedIsRecorded
<1>4. OutcomeInv' /\ IntentInv' /\ StatusMatchesCheckout'
  BY DEF OutcomeInv, IntentInv, StatusMatchesCheckout
<1>5. AppliedInv'
  BY DEF AppliedInv, EventOf, SettlingKinds
<1>6. ProcessedIsApplied'
  BY DEF ProcessedIsApplied, EventOf, Events, SessionEvents, SettlingKinds
<1> QED
  BY <1>1, <1>2, <1>3, <1>4, <1>5, <1>6

(* Only the donation whose session the event settles is written, and the   *)
(* status written is that of the session's outcome.                        *)
LEMMA UpdateStatusEffect ==
    ASSUME IInv, NEW v \in Workers, UpdateStatus(v)
    PROVE  \E c \in Donations, k \in SettlingKinds :
              /\ job[v] = EventOf(k, c)
              /\ checkout[c] = k
              /\ donation' = [d \in Donations |->
                    IF d = c /\ donation[c].stripeSessionId = c
                    THEN [donation[c] EXCEPT !.status = StatusOf(k)]
                    ELSE donation[d]]
<1> USE NoSessionAssumption DEF IInv, UpdateStatus
<1>1. job[v] \in Events /\ job[v].kind \in SettlingKinds /\ job[v] \in emitted
  BY DEF TypeOK, DeliveryInv
<1>2. PICK c \in Donations, k \in SettlingKinds : job[v] = EventOf(k, c)
  BY <1>1 DEF Events, SessionEvents, OtherEvents, EventOf
<1>3. checkout[c] = k
  BY <1>1, <1>2 DEF OutcomeInv
<1>4. job[v].session = c /\ job[v].kind = k
  BY <1>2 DEF EventOf
<1>5. donation' = [d \in Donations |->
        IF donation[d].stripeSessionId = c
        THEN [donation[d] EXCEPT !.status = StatusOf(k)]
        ELSE donation[d]]
  BY <1>4 DEF UpdateStatusByStripeSessionId
<1>6. \A d \in Donations : donation[d].stripeSessionId = c => d = c
  BY DEF IntentInv
<1> QED
  BY <1>2, <1>3, <1>5, <1>6

LEMMA UpdateStatusInv ==
    ASSUME IInv, NEW v \in Workers, UpdateStatus(v)
    PROVE  IInv'
<1> USE NoSessionAssumption DEF IInv, TypeOK
<1> PICK c \in Donations, k \in SettlingKinds :
        /\ job[v] = EventOf(k, c)
        /\ checkout[c] = k
        /\ donation' = [d \in Donations |->
              IF d = c /\ donation[c].stripeSessionId = c
              THEN [donation[c] EXCEPT !.status = StatusOf(k)]
              ELSE donation[d]]
  BY UpdateStatusEffect
<1>1. TypeOK'
  <2>1. [Next]_vars
    BY DEF Next, HookStep
  <2> QED
    BY <2>1, TypeStep
<1>2. /\ pc[v] = "update"
      /\ pc' = [pc EXCEPT ![v] = "mark"]
      /\ UNCHANGED <<intent, checkout, emitted, acked, webhookEvent, job>>
  BY DEF UpdateStatus
<1>3. \A d \in Donations :
        donation'[d].stripeSessionId = donation[d].stripeSessionId
  OBVIOUS
<1>4. DeliveryInv' /\ RecordedInv'
  BY <1>2 DEF DeliveryInv, RecordedInv
<1>5. SingleProcessor' /\ AckedIsRecorded' /\ OutcomeInv'
  BY <1>2 DEF SingleProcessor, AckedIsRecorded, OutcomeInv
<1>6. IntentInv' /\ StatusMatchesCheckout'
  BY <1>2 DEF IntentInv, StatusMatchesCheckout, StatusOf, SettlingKinds
<1>7. ASSUME NEW d \in Donations, NEW l \in SettlingKinds,
             EventOf(l, d) \in emitted, donation'[d].stripeSessionId = d,
             d # c => donation[d].status = StatusOf(l)
      PROVE  donation'[d].status = StatusOf(l)
  BY <1>3, <1>7 DEF OutcomeInv
<1>8. AppliedInv'
  <2> SUFFICES ASSUME NEW w \in Workers, NEW d \in Donations,
                      NEW l \in SettlingKinds,
                      pc'[w] = "mark", job[w] = EventOf(l, d),
                      donation'[d].stripeSessionId = d
               PROVE  donation'[d].status = StatusOf(l)
    BY <1>2 DEF AppliedInv
  <2>1. EventOf(l, d) \in emitted
    BY <1>2 DEF DeliveryInv
  <2>2. d # c => donation[d].status = StatusOf(l)
    BY <1>2, <1>3 DEF AppliedInv, EventOf
  <2> QED
    BY <1>7, <2>1, <2>2
<1>9. ProcessedIsApplied'
  <2> SUFFICES ASSUME NEW d \in Donations, NEW l \in SettlingKinds,
                      webhookEvent[EventOf(l, d)] = "processed",
                      donation'[d].stripeSessionId = d
               PROVE  donation'[d].status = StatusOf(l)
    BY <1>2 DEF ProcessedIsApplied
  <2>1. EventOf(l, d) \in emitted
    BY DEF RecordedInv, Events, SessionEvents, EventOf
  <2>2. d # c => donation[d].status = StatusOf(l)
    BY <1>3 DEF ProcessedIsApplied
  <2> QED
    BY <1>7, <2>1, <2>2
<1> QED
  BY <1>1, <1>4, <1>5, <1>6, <1>8, <1>9

(* The last steps of a handler: only the event's own row changes. *)
LEMMA FinishInv ==
    ASSUME IInv, NEW v \in Workers,
           RejectMissingSession(v) \/ MarkProcessed(v) \/ Respond(v)
    PROVE  IInv'
<1> USE NoSessionAssumption DEF IInv, TypeOK, RejectMissingSession,
        MarkProcessed, Respond, intentVars
<1>1. TypeOK'
  <2>1. [Next]_vars
    BY DEF Next, HookStep
  <2> QED
    BY <2>1, TypeStep
<1>2. DeliveryInv'
  BY DEF DeliveryInv, SingleProcessor
<1>3. RecordedInv' /\ SingleProcessor' /\ AckedIsRecorded'
  BY DEF DeliveryInv, RecordedInv, SingleProcessor, AckedIsRecorded
<1>4. OutcomeInv' /\ IntentInv' /\ StatusMatchesCheckout'
  BY DEF OutcomeInv, IntentInv, StatusMatchesCheckout
<1>5. AppliedInv'
  BY DEF AppliedInv
<1>6. ProcessedIsApplied'
  <2> SUFFICES ASSUME NEW d \in Donations, NEW k \in SettlingKinds,
                      webhookEvent'[EventOf(k, d)] = "processed",
                      donation[d].stripeSessionId = d
               PROVE  donation[d].status = StatusOf(k)
    BY DEF ProcessedIsApplied
  <2>1. CASE webhookEvent[EventOf(k, d)] = "processed"
    BY <2>1 DEF ProcessedIsApplied
  <2>2. CASE webhookEvent[EventOf(k, d)] # "processed"
    <3>1. EventOf(k, d) \in Events
      BY DEF Events, SessionEvents, EventOf
    <3>2. pc[v] = "mark" /\ job[v] = EventOf(k, d)
      BY <2>2, <3>1
    <3> QED
      BY <3>2 DEF AppliedInv
  <2> QED
    BY <2>1, <2>2
<1> QED
  BY <1>1, <1>2, <1>3, <1>4, <1>5, <1>6

LEMMA StepInv == IInv /\ [Next]_vars => IInv'
<1> SUFFICES ASSUME IInv, [Next]_vars PROVE IInv'
  OBVIOUS
<1>1. ASSUME NEW d \in Donations,
             IntentStep(d) \/ AbortIntent(d) \/ AttachThenAbort(d)
      PROVE  IInv'
  BY <1>1, IntentStepInv
<1>2. ASSUME NEW d \in Donations, Pay(d) \/ Expire(d) PROVE IInv'
  BY <1>2, StripeStepInv
<1>3. ASSUME \/ \E e \in OtherEvents : EmitOther(e)
             \/ \E w \in Workers, e \in Events : Deliver(w, e)
             \/ \E w \in Workers : AbortDelivery(w)
      PROVE  IInv'
  BY <1>3, DeliveryStepInv
<1>4. ASSUME NEW w \in Workers, HookStep(w) PROVE IInv'
  BY <1>4, CreateIfNotExistsInv, UpdateStatusInv, FinishInv DEF HookStep
<1>5. CASE UNCHANGED vars
  BY <1>5 DEF IInv, vars, TypeOK, DeliveryInv, AppliedInv, OutcomeInv,
              RecordedInv, IntentInv, SingleProcessor, StatusMatchesCheckout,
              ProcessedIsApplied, AckedIsRecorded
<1> QED
  BY <1>1, <1>2, <1>3, <1>4, <1>5 DEF Next

-----------------------------------------------------------------------------
(* The inductive invariant holds in every reachable state. *)
THEOREM Invariance == Spec => []IInv
BY InitInv, StepInv, PTL DEF Spec

(* No two deliveries of one event are ever past the insert together. *)
THEOREM SingleProcessorHolds == Spec => []SingleProcessor
<1>1. IInv => SingleProcessor
  BY DEF IInv
<1> QED
  BY <1>1, Invariance, PTL

(* A paid donation has its session attached: its event finds a row. *)
THEOREM PaidIsAttachedHolds == Spec => []PaidIsAttached
<1>1. IInv => PaidIsAttached
  BY DEF IInv, IntentInv, PaidIsAttached
<1> QED
  BY <1>1, Invariance, PTL

(* Final statuses are those that Stripe's outcomes call for. *)
THEOREM StatusMatchesCheckoutHolds == Spec => []StatusMatchesCheckout
<1>1. IInv => StatusMatchesCheckout
  BY DEF IInv
<1> QED
  BY <1>1, Invariance, PTL

(* processed = true implies that the donation's status was written. *)
THEOREM ProcessedIsAppliedHolds == Spec => []ProcessedIsApplied
<1>1. IInv => ProcessedIsApplied
  BY DEF IInv
<1> QED
  BY <1>1, Invariance, PTL

(* Acknowledged events are durable. *)
THEOREM AckedIsRecordedHolds == Spec => []AckedIsRecorded
<1>1. IInv => AckedIsRecorded
  BY DEF IInv
<1> QED
  BY <1>1, Invariance, PTL

-----------------------------------------------------------------------------
(* The refinement: every step of the pipeline is a step of the ledger, or  *)
(* a stutter of it.                                                        *)

LEMMA InitLedger == Init => Ledger!LedgerInit
BY DEF Init, Ledger!LedgerInit, SettlingKinds

(* The intent handler opens a donation once. *)
LEMMA IntentRefines ==
    ASSUME IInv, NEW c \in Donations,
           IntentStep(c) \/ AbortIntent(c) \/ AttachThenAbort(c)
    PROVE  [Ledger!LedgerNext]_(Ledger!ledgerVars)
<1> USE DEF IInv, TypeOK, IntentInv, Ledger!ledgerVars
<1>1. CASE CreatePending(c)
  <2>1. Ledger!Open(c)
    BY <1>1 DEF CreatePending, Ledger!Open
  <2> QED
    BY <2>1 DEF Ledger!LedgerNext
<1>2. CASE CreateCheckoutSession(c)
  BY <1>2 DEF CreateCheckoutSession, SettlingKinds
<1>3. CASE RejectIntent(c) \/ AbortIntent(c)
  BY <1>3 DEF RejectIntent, AbortIntent
<1>4. CASE AttachStripeSession(c) \/ AttachThenAbort(c)
  <2>1. donation' = [donation EXCEPT ![c].stripeSessionId = c]
    BY <1>4 DEF AttachStripeSession, AttachThenAbort
  <2>2. \A d \in Donations : donation'[d].status = donation[d].status
    BY <2>1
  <2>3. UNCHANGED checkout
    BY <1>4 DEF AttachStripeSession, AttachThenAbort
  <2> QED
    BY <2>2, <2>3
<1> QED
  BY <1>1, <1>2, <1>3, <1>4 DEF IntentStep

(* Stripe settles an open donation once. *)
LEMMA StripeRefines ==
    ASSUME IInv, NEW c \in Donations, Pay(c) \/ Expire(c)
    PROVE  [Ledger!LedgerNext]_(Ledger!ledgerVars)
<1> USE DEF IInv, TypeOK, IntentInv, StatusMatchesCheckout, SettlingKinds
<1>1. CASE Pay(c)
  <2>1. Ledger!Settle(c, "completed")
    BY <1>1 DEF Pay, Ledger!Settle
  <2> QED
    BY <2>1 DEF Ledger!LedgerNext, Ledger!Outcomes
<1>2. CASE Expire(c)
  <2>1. Ledger!Settle(c, "expired")
    BY <1>2 DEF Expire, Ledger!Settle
  <2> QED
    BY <2>1 DEF Ledger!LedgerNext, Ledger!Outcomes
<1> QED
  BY <1>1, <1>2

(* The elected handler records the outcome, or finds it recorded. *)
LEMMA UpdateStatusRefines ==
    ASSUME IInv, NEW v \in Workers, UpdateStatus(v)
    PROVE  [Ledger!LedgerNext]_(Ledger!ledgerVars)
<1> USE NoSessionAssumption DEF IInv, TypeOK, SettlingKinds
<1> PICK c \in Donations, k \in SettlingKinds :
        /\ job[v] = EventOf(k, c)
        /\ checkout[c] = k
        /\ donation' = [d \in Donations |->
              IF d = c /\ donation[c].stripeSessionId = c
              THEN [donation[c] EXCEPT !.status = StatusOf(k)]
              ELSE donation[d]]
  BY UpdateStatusEffect
<1>1. UNCHANGED checkout
  BY DEF UpdateStatus
<1>2. donation[c].status \in {"PENDING", StatusOf(k)}
  BY DEF IntentInv, StatusMatchesCheckout, StatusOf
<1>3. CASE donation[c].stripeSessionId = c /\ donation[c].status = "PENDING"
  <2>1. Ledger!StatusFor(k) = StatusOf(k)
    BY DEF Ledger!StatusFor, StatusOf
  <2>2. Ledger!Record(c)
    BY <1>1, <1>3, <2>1 DEF Ledger!Record, Ledger!Outcomes
  <2> QED
    BY <2>2 DEF Ledger!LedgerNext
<1>4. CASE donation[c].stripeSessionId # c \/ donation[c].status = StatusOf(k)
  BY <1>1, <1>4 DEF Ledger!ledgerVars
<1> QED
  BY <1>2, <1>3, <1>4

LEMMA StepRefines == IInv /\ [Next]_vars => [Ledger!LedgerNext]_(Ledger!ledgerVars)
<1> SUFFICES ASSUME IInv, [Next]_vars
             PROVE  [Ledger!LedgerNext]_(Ledger!ledgerVars)
  OBVIOUS
<1>1. ASSUME UNCHANGED donation, UNCHANGED checkout
      PROVE  UNCHANGED Ledger!ledgerVars
  BY <1>1 DEF Ledger!ledgerVars
<1>2. ASSUME NEW d \in Donations,
             IntentStep(d) \/ AbortIntent(d) \/ AttachThenAbort(d)
      PROVE  [Ledger!LedgerNext]_(Ledger!ledgerVars)
  BY <1>2, IntentRefines
<1>3. ASSUME NEW d \in Donations, Pay(d) \/ Expire(d)
      PROVE  [Ledger!LedgerNext]_(Ledger!ledgerVars)
  BY <1>3, StripeRefines
<1>4. ASSUME \/ \E e \in OtherEvents : EmitOther(e)
             \/ \E w \in Workers, e \in Events : Deliver(w, e)
             \/ \E w \in Workers : AbortDelivery(w)
      PROVE  [Ledger!LedgerNext]_(Ledger!ledgerVars)
  BY <1>1, <1>4 DEF EmitOther, Deliver, AbortDelivery, intentVars
<1>5. ASSUME NEW w \in Workers, HookStep(w)
      PROVE  [Ledger!LedgerNext]_(Ledger!ledgerVars)
  BY <1>1, <1>5, UpdateStatusRefines DEF HookStep, CreateIfNotExists,
     RejectMissingSession, MarkProcessed, Respond, intentVars
<1>6. CASE UNCHANGED vars
  BY <1>1, <1>6 DEF vars
<1> QED
  BY <1>2, <1>3, <1>4, <1>5, <1>6 DEF Next

(* The pipeline implements the payment ledger: a donation is opened once,  *)
(* settled once and recorded once, with the status its outcome calls for.  *)
THEOREM Refinement == Spec => LedgerRefinement
BY InitLedger, StepRefines, Invariance, PTL
   DEF Spec, LedgerRefinement, Ledger!LedgerSpec
=============================================================================
