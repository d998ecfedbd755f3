-------------------------- MODULE DonationPayments --------------------------
(***************************************************************************)
(* A donation from POST /donations/intent to the Stripe webhook that       *)
(* settles it.  Three parties interleave:                                  *)
(*                                                                         *)
(*   - one intent handler per donation, which inserts the PENDING row,     *)
(*     creates the Checkout session and attaches the session to the row,   *)
(*     awaiting each call (routes/donations.ts, donation-service.ts,       *)
(*     stripe-service.ts);                                                 *)
(*   - Stripe and the donor (external): a session whose URL the donor got  *)
(*     is paid or expires, each outcome is an event, and every event is    *)
(*     delivered at least once, in any order, also concurrently;           *)
(*   - the webhook handlers at work on a delivery, which await one         *)
(*     database statement per step (stripe-webhook-handler.ts).            *)
(*                                                                         *)
(* A step of a handler is one awaited call: between two steps anything     *)
(* else may run.  A handler may stop before any step: the statement        *)
(* failed and the route answered 500, the statement committed and its      *)
(* answer was lost, or the process died.  None of these undoes what was    *)
(* written.  Such stops are counted, up to MaxFaults.                      *)
(***************************************************************************)
EXTENDS Naturals

CONSTANTS
    Donations,      \* donation ids, each that of one intent request
    Workers,        \* webhook deliveries that can be in progress at once
    NoSession,      \* null: no Stripe session id
    MaxFaults       \* bound on the handlers that stop before their end

ASSUME NoSessionAssumption == NoSession \notin Donations
ASSUME FaultsAssumption == MaxFaults \in Nat

VARIABLES
    donation,   \* the Donation table: status and stripeSessionId
    intent,     \* intent[d]: where the intent handler of d stands
    checkout,   \* checkout[d]: the Checkout session of d, as Stripe sees it
    emitted,    \* the events that Stripe has produced
    acked,      \* the events whose delivery Stripe saw answered with 200
    webhookEvent, \* the WebhookEvent table, by event id
    pc,         \* pc[w]: where delivery w stands in the webhook handler
    job,        \* job[w]: the event that delivery w carries
    faults      \* handlers stopped so far

intentVars == <<donation, intent, checkout>>
hookVars == <<webhookEvent, pc, job>>
vars == <<donation, intent, checkout, emitted, acked, webhookEvent, pc, job,
          faults>>

-----------------------------------------------------------------------------
(* The session of donation d is named d: the handler creates at most one.  *)
(* The handler tells apart the events that settle a session, those of the  *)
(* same kind whose object has no id, and those of any other type.          *)
SettlingKinds == {"completed", "expired"}
SessionEvents == [kind : SettlingKinds, session : Donations]
OtherEvents == [kind : {"completed", "other"}, session : {NoSession}]
Events == SessionEvents \union OtherEvents

EventOf(k, d) == [kind |-> k, session |-> d]

TypeOK ==
    /\ donation \in [Donations ->
            [status : {"ABSENT", "PENDING", "SUCCEEDED", "EXPIRED"},
             stripeSessionId : Donations \union {NoSession}]]
    /\ intent \in [Donations ->
            {"new", "created", "opened", "returned", "failed"}]
    /\ checkout \in [Donations -> {"none", "open", "completed", "expired"}]
    /\ emitted \subseteq Events
    /\ acked \subseteq Events
    /\ webhookEvent \in [Events -> {"absent", "received", "processed"}]
    /\ pc \in [Workers -> {"idle", "insert", "update", "mark", "respond"}]
    /\ job \in [Workers -> Events]
    /\ faults \in 0..MaxFaults

Init ==
    /\ donation = [d \in Donations |->
            [status |-> "ABSENT", stripeSessionId |-> NoSession]]
    /\ intent = [d \in Donations |-> "new"]
    /\ checkout = [d \in Donations |-> "none"]
    /\ emitted = {}
    /\ acked = {}
    /\ webhookEvent = [e \in Events |-> "absent"]
    /\ pc = [w \in Workers |-> "idle"]
    /\ job = [w \in Workers |-> EventOf("other", NoSession)]
    /\ faults = 0

-----------------------------------------------------------------------------
(* The intent handler. *)

(* The request does not pass intentSchema: 400, nothing is written. *)
RejectIntent(d) ==
    /\ intent[d] = "new"
    /\ intent' = [intent EXCEPT ![d] = "failed"]
    /\ UNCHANGED <<donation, checkout, emitted, acked, hookVars, faults>>

(* The row is inserted, PENDING and without a session. *)
CreatePending(d) ==
    /\ intent[d] = "new"
    /\ donation' = [donation EXCEPT ![d] =
            [status |-> "PENDING", stripeSessionId |-> NoSession]]
    /\ intent' = [intent EXCEPT ![d] = "created"]
    /\ UNCHANGED <<checkout, emitted, acked, hookVars, faults>>

(* Stripe opens the Checkout session. *)
CreateCheckoutSession(d) ==
    /\ intent[d] = "created"
    /\ checkout' = [checkout EXCEPT ![d] = "open"]
    /\ intent' = [intent EXCEPT ![d] = "opened"]
    /\ UNCHANGED <<donation, emitted, acked, hookVars, faults>>

(* Mutant: the session URL goes to the donor without awaiting the attach. *)
AttachStripeSession_NotAwaited(d) ==
    /\ intent[d] = "opened"
    /\ \/ donation' = [donation EXCEPT ![d].stripeSessionId = d]
       \/ UNCHANGED donation
    /\ intent' = [intent EXCEPT ![d] = "returned"]
    /\ UNCHANGED <<checkout, emitted, acked, hookVars, faults>>

(* The session id is stored on the row; only then does the route return    *)
(* the session's URL to the donor.                                         *)
AttachStripeSession(d) ==
    /\ intent[d] = "opened"
    /\ donation' = [donation EXCEPT ![d].stripeSessionId = d]
    /\ intent' = [intent EXCEPT ![d] = "returned"]
    /\ UNCHANGED <<checkout, emitted, acked, hookVars, faults>>

(* The handler stops before its next step: 500, or the process is gone. *)
AbortIntent(d) ==
    /\ faults < MaxFaults
    /\ intent[d] \in {"created", "opened"}
    /\ intent' = [intent EXCEPT ![d] = "failed"]
    /\ faults' = faults + 1
    /\ UNCHANGED <<donation, checkout, emitted, acked, hookVars>>

(* The session id is stored, but the handler stops before it can answer. *)
AttachThenAbort(d) ==
    /\ faults < MaxFaults
    /\ intent[d] = "opened"
    /\ donation' = [donation EXCEPT ![d].stripeSessionId = d]
    /\ intent' = [intent EXCEPT ![d] = "failed"]
    /\ faults' = faults + 1
    /\ UNCHANGED <<checkout, emitted, acked, hookVars>>

-----------------------------------------------------------------------------
(* Stripe and the donor. *)

(* The donor pays, which takes the URL that only a completed intent returns. *)
Pay(d) ==
    /\ checkout[d] = "open"
    /\ intent[d] = "returned"
    /\ checkout' = [checkout EXCEPT ![d] = "completed"]
    /\ emitted' = emitted \union {EventOf("completed", d)}
    /\ UNCHANGED <<donation, intent, acked, hookVars, faults>>

(* The session expires unpaid.  A session lives for half an hour at least  *)
(* and a day by default, so the intent handler has ended one way or the    *)
(* other by then.                                                          *)
Expire(d) ==
    /\ checkout[d] = "open"
    /\ intent[d] \in {"returned", "failed"}
    /\ checkout' = [checkout EXCEPT ![d] = "expired"]
    /\ emitted' = emitted \union {EventOf("expired", d)}
    /\ UNCHANGED <<donation, intent, acked, hookVars, faults>>

(* Stripe produces an event that settles no session. *)
EmitOther(e) ==
    /\ e \notin emitted
    /\ emitted' = emitted \union {e}
    /\ UNCHANGED <<intentVars, acked, hookVars, faults>>

(* A delivery of an event reaches the route with a valid signature; a      *)
(* delivery with no signature or a wrong one is answered 400 and changes   *)
(* nothing.  An acknowledged event may be delivered again.                 *)
Deliver(w, e) ==
    /\ pc[w] = "idle"
    /\ e \in emitted
    /\ pc' = [pc EXCEPT ![w] = "insert"]
    /\ job' = [job EXCEPT ![w] = e]
    /\ UNCHANGED <<intentVars, emitted, acked, webhookEvent, faults>>

-----------------------------------------------------------------------------
(* The webhook handler, for the delivery in w. *)

(* Where the handler goes once the event row is inserted. *)
AfterInsert(e) == IF e.kind \in SettlingKinds THEN "update" ELSE "mark"

(* Mutant: the unique violation is not taken for an acknowledgement, the   *)
(* handler carries on.                                                     *)
CreateIfNotExists_Reprocess(w) ==
    /\ pc[w] = "insert"
    /\ webhookEvent' = [webhookEvent EXCEPT ![job[w]] = "received"]
    /\ pc' = [pc EXCEPT ![w] = AfterInsert(job[w])]
    /\ UNCHANGED <<intentVars, emitted, acked, job, faults>>

(* Mutant: the row is inserted with processed = true. *)
CreateIfNotExists_Processed(w) ==
    /\ pc[w] = "insert"
    /\ \/ /\ webhookEvent[job[w]] = "absent"
          /\ webhookEvent' = [webhookEvent EXCEPT ![job[w]] = "processed"]
          /\ pc' = [pc EXCEPT ![w] = AfterInsert(job[w])]
       \/ /\ webhookEvent[job[w]] # "absent"
          /\ pc' = [pc EXCEPT ![w] = "respond"]
          /\ UNCHANGED webhookEvent
    /\ UNCHANGED <<intentVars, emitted, acked, job, faults>>

(* Mutant: the unique violation is rethrown, the route answers 500. *)
CreateIfNotExists_Rethrow(w) ==
    /\ pc[w] = "insert"
    /\ \/ /\ webhookEvent[job[w]] = "absent"
          /\ webhookEvent' = [webhookEvent EXCEPT ![job[w]] = "received"]
          /\ pc' = [pc EXCEPT ![w] = AfterInsert(job[w])]
       \/ /\ webhookEvent[job[w]] # "absent"
          /\ pc' = [pc EXCEPT ![w] = "idle"]
          /\ UNCHANGED webhookEvent
    /\ UNCHANGED <<intentVars, emitted, acked, job, faults>>

(* The event row is inserted with processed = false.  When a row with this *)
(* id is there already, whatever its processed flag says, the delivery is  *)
(* a duplicate and is answered at once.                                    *)
CreateIfNotExists(w) ==
    /\ pc[w] = "insert"
    /\ \/ /\ webhookEvent[job[w]] = "absent"
          /\ webhookEvent' = [webhookEvent EXCEPT ![job[w]] = "received"]
          /\ pc' = [pc EXCEPT ![w] = AfterInsert(job[w])]
       \/ /\ webhookEvent[job[w]] # "absent"
          /\ pc' = [pc EXCEPT ![w] = "respond"]
          /\ UNCHANGED webhookEvent
    /\ UNCHANGED <<intentVars, emitted, acked, job, faults>>

(* The status that an event of kind k asks for. *)
StatusOf(k) == IF k = "completed" THEN "SUCCEEDED" ELSE "EXPIRED"

(* Mutant: the update is not restricted to the donation of the session. *)
UpdateStatusByStripeSessionId_NoWhere(s, status) ==
    donation' = [d \in Donations |->
        IF donation[d].stripeSessionId # NoSession
        THEN [donation[d] EXCEPT !.status = status]
        ELSE donation[d]]

(* updateMany where stripeSessionId = s: no row, and no error, when no     *)
(* donation has the session.                                               *)
UpdateStatusByStripeSessionId(s, status) ==
    donation' = [d \in Donations |->
        IF donation[d].stripeSessionId = s
        THEN [donation[d] EXCEPT !.status = status]
        ELSE donation[d]]

(* Mutant: only sessions that expired are recorded. *)
UpdateStatus_ExpiredOnly(w) ==
    /\ pc[w] = "update"
    /\ job[w].session # NoSession
    /\ IF job[w].kind = "expired"
       THEN UpdateStatusByStripeSessionId(job[w].session, "EXPIRED")
       ELSE UNCHANGED donation
    /\ pc' = [pc EXCEPT ![w] = "mark"]
    /\ UNCHANGED <<intent, checkout, emitted, acked, webhookEvent, job, faults>>

(* The donation of the session gets its final status. *)
UpdateStatus(w) ==
    /\ pc[w] = "update"
    /\ job[w].session # NoSession
    /\ UpdateStatusByStripeSessionId(job[w].session, StatusOf(job[w].kind))
    /\ pc' = [pc EXCEPT ![w] = "mark"]
    /\ UNCHANGED <<intent, checkout, emitted, acked, webhookEvent, job, faults>>

(* A settling event without a session id: the handler throws, after the    *)
(* event row was inserted.                                                 *)
RejectMissingSession(w) ==
    /\ pc[w] = "update"
    /\ job[w].session = NoSession
    /\ pc' = [pc EXCEPT ![w] = "idle"]
    /\ UNCHANGED <<intentVars, emitted, acked, webhookEvent, job, faults>>

(* The processed flag of the event row is set. *)
MarkProcessed(w) ==
    /\ pc[w] = "mark"
    /\ webhookEvent' = [webhookEvent EXCEPT ![job[w]] = "processed"]
    /\ pc' = [pc EXCEPT ![w] = "respond"]
    /\ UNCHANGED <<intentVars, emitted, acked, job, faults>>

(* The route answers 200 and Stripe stops retrying the event. *)
Respond(w) ==
    /\ pc[w] = "respond"
    /\ acked' = acked \union {job[w]}
    /\ pc' = [pc EXCEPT ![w] = "idle"]
    /\ UNCHANGED <<intentVars, emitted, webhookEvent, job, faults>>

(* Mutant: the route answers 200 whatever happened to the handler. *)
AbortDelivery_Ack(w) ==
    /\ faults < MaxFaults
    /\ pc[w] # "idle"
    /\ pc' = [pc EXCEPT ![w] = "idle"]
    /\ acked' = acked \union {job[w]}
    /\ faults' = faults + 1
    /\ UNCHANGED <<intentVars, emitted, webhookEvent, job>>

(* The handler stops before its next step: Stripe sees a 500, a timeout or *)
(* a closed connection, and will deliver the event again.                  *)
AbortDelivery(w) ==
    /\ faults < MaxFaults
    /\ pc[w] # "idle"
    /\ pc' = [pc EXCEPT ![w] = "idle"]
    /\ faults' = faults + 1
    /\ UNCHANGED <<intentVars, emitted, acked, webhookEvent, job>>

-----------------------------------------------------------------------------
IntentStep(d) ==
    RejectIntent(d) \/ CreatePending(d) \/ CreateCheckoutSession(d)
        \/ AttachStripeSession(d)

HookStep(w) ==
    CreateIfNotExists(w) \/ UpdateStatus(w) \/ RejectMissingSession(w)
        \/ MarkProcessed(w) \/ Respond(w)

Next ==
    \/ \E d \in Donations :
        \/ IntentStep(d)
        \/ AbortIntent(d)
        \/ AttachThenAbort(d)
        \/ Pay(d)
        \/ Expire(d)
    \/ \E e \in OtherEvents : EmitOther(e)
    \/ \E w \in Workers :
        \/ \E e \in Events : Deliver(w, e)
        \/ HookStep(w)
        \/ AbortDelivery(w)

Spec == Init /\ [][Next]_vars

(* Handlers run on: Node resumes a handler whose awaited call has ended.   *)
(* Stripe delivers an event until it is acknowledged; the server takes any *)
(* number of connections, so a delivery cannot be kept out for ever by     *)
(* deliveries of other events (strong fairness: here they share Workers).  *)
Fairness ==
    /\ \A d \in Donations : WF_vars(IntentStep(d))
    /\ \A w \in Workers : WF_vars(HookStep(w))
    /\ \A e \in Events :
        SF_vars(e \notin acked /\ \E w \in Workers : Deliver(w, e))

FairSpec == Spec /\ Fairness

-----------------------------------------------------------------------------
(* Safety *)

(* However many deliveries of one event are in progress, at most one of    *)
(* them is past the insert and writes the donation or the processed flag:  *)
(* the insert of the event row elects it (webhook-event-repo.ts).          *)
SingleProcessor ==
    \A v, w \in Workers :
        /\ pc[v] \in {"update", "mark"}
        /\ pc[w] \in {"update", "mark"}
        /\ job[v] = job[w]
        => v = w

(* A donation whose checkout was paid has its session attached, so the     *)
(* completed event always finds a row: the intent route returns the URL    *)
(* only after attachStripeSession (stripe-service.ts).                     *)
PaidIsAttached ==
    \A d \in Donations :
        checkout[d] = "completed" => donation[d].stripeSessionId = d

(* A final status is the one Stripe's outcome calls for: no duplicate,     *)
(* late or foreign event ever moves a donation elsewhere.                  *)
StatusMatchesCheckout ==
    \A d \in Donations :
        /\ donation[d].status = "SUCCEEDED" => checkout[d] = "completed"
        /\ donation[d].status = "EXPIRED" => checkout[d] = "expired"

(* processed = true is never a lie: the event's donation, if a row has the *)
(* session, carries the status the event calls for, wherever handlers were *)
(* stopped.                                                                *)
ProcessedIsApplied ==
    \A d \in Donations, k \in SettlingKinds :
        /\ webhookEvent[EventOf(k, d)] = "processed"
        /\ donation[d].stripeSessionId = d
        => donation[d].status = StatusOf(k)

(* An event that Stripe saw acknowledged has its row in WebhookEvent, even *)
(* when the handler that inserted it was stopped.                          *)
AckedIsRecorded == \A e \in acked : webhookEvent[e] # "absent"

(* The donation statuses behave as the payment ledger promises. *)
Ledger == INSTANCE PaymentLedger WITH
    status <- [d \in Donations |-> donation[d].status],
    outcome <- [d \in Donations |->
        IF checkout[d] \in SettlingKinds THEN checkout[d] ELSE "none"]

LedgerRefinement == Ledger!LedgerSpec

-----------------------------------------------------------------------------
(* Liveness *)

(* Retries end: every event is acknowledged, handlers stopped or not. *)
EmittedIsAcked == \A e \in Events : e \in emitted ~> e \in acked

(* Unless a handler is stopped, a paid donation becomes SUCCEEDED, however *)
(* its events are duplicated and reordered (docs/golden-path.md, Flow 1).  *)
PaidIsRecorded ==
    [](faults = 0) =>
        \A d \in Donations :
            checkout[d] = "completed" ~> donation[d].status = "SUCCEEDED"

(* The webhook of a settled session, once answered with 200, is not only   *)
(* persisted but also marked processed (docs/slo-alarms.md, SLI-3, SLO-3). *)
AckedIsProcessed ==
    \A e \in SessionEvents : e \in acked ~> webhookEvent[e] = "processed"
=============================================================================
