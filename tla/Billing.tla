------------------------------ MODULE Billing ------------------------------
(***************************************************************************)
(* Billing of one user: BillingService and the billing transactions of     *)
(* UserStore, with Stripe as surroundings.  A job is one call of           *)
(* process_webhook_event or confirm_checkout_session at some worker; it is *)
(* a chain of separate transactions (seen before? current? load and write  *)
(* the row, record the event), and the jobs of different workers           *)
(* interleave between them.  The ORM's UPDATE names only the columns whose *)
(* new value differs from the loaded one.  A worker may be killed between  *)
(* any two transactions.  Stripe delivers every event at least once, in    *)
(* any order, and again until a delivery is recorded; subscription events  *)
(* begin before the checkout completes, a checkout completes with or       *)
(* without its payment, and a session that was once "paid" and "complete"  *)
(* reads so for ever, whatever becomes of the subscription it started.     *)
(***************************************************************************)
EXTENDS Integers, FiniteSets

CONSTANTS
  Jobs,        \* slots for concurrent handler calls, over all workers
  Sessions,    \* checkout sessions; each starts the subscription of its name
  None,        \* NULL in a column
  MaxEvents,   \* bound: how many events Stripe emits
  MaxCrashes   \* bound: how many handler calls are cut off

ASSUME NoneAssumption == None \notin Sessions
ASSUME BoundsAssumption == MaxEvents \in Nat /\ MaxCrashes \in Nat

VARIABLES
  stripe,    \* external: stripe[s], the status of subscription s, if there is one
  complete,  \* external: the sessions whose status is "complete"
  paid,      \* external: the sessions whose payment_status is "paid"
  trial,     \* external: the subscriptions that started with a trial
  customer,  \* external: customer[s], the Stripe customer of session s
  sent,      \* external: the events Stripe has emitted
  checkout,  \* checkout[s]: where create_checkout_session stands for s
  row,       \* the user's row: [status, plan, sub, cust]
  recorded,  \* billing_webhook_events: the event ids recorded
  job,       \* job[j]: the handler call in slot j
  applied,   \* history: events whose update was committed or found moot
  stale,     \* history: some UPDATE overwrote a row it had not loaded
  overtaken, \* history: the tracked subscription changed under a deletion
  crashes    \* how many calls were cut off

world == <<stripe, complete, paid, trial, customer, sent>>
vars == <<world, checkout, row, recorded, job, applied, stale, overtaken, crashes>>

Row == [status : {"free", "active_paid", "trialing", "past_due", "canceled"},
        plan : {"free", "pro"},
        sub : Sessions \union {None}, cust : Sessions \union {None}]

\* An event id with what its handler reads of it; a confirmation counts as
\* the event "confirm:<session>".
EventTypes == {"completed", "updated", "deleted", "payment_failed", "confirm"}
StripeStatus == {"incomplete", "incomplete_expired", "trialing", "active",
                 "past_due", "unpaid", "canceled"}
Event == [type : EventTypes, sub : Sessions, status : StripeStatus]

Ev(type, s, status) == [type |-> type, sub |-> s, status |-> status]

\* The events Stripe can send, each with the status its handler goes by:
\* customer.subscription.created and .updated carry it, the other branches
\* have it built in.
WebhookEvents ==
  {Ev("completed", s, "active") : s \in Sessions}
    \union {Ev("payment_failed", s, "past_due") : s \in Sessions}
    \union {Ev("deleted", s, "canceled") : s \in Sessions}
    \union {Ev("updated", s, st) : s \in Sessions, st \in StripeStatus}

Idle == [pc |-> "idle"]

Init ==
  /\ stripe = [s \in Sessions |-> "none"]
  /\ complete = {} /\ paid = {} /\ trial = {}
  /\ customer = [s \in Sessions |-> None]
  /\ sent = {}
  /\ checkout = [s \in Sessions |-> "none"]
  /\ row = [status |-> "free", plan |-> "free", sub |-> None, cust |-> None]
  /\ recorded = {}
  /\ job = [j \in Jobs |-> Idle]
  /\ applied = {}
  /\ stale = FALSE /\ overtaken = FALSE
  /\ crashes = 0

----------------------------------------------------------------------------
(* create_checkout_session.  A customer is named after the session whose   *)
(* call created it.                                                        *)

checkoutVars == <<complete, paid, trial, sent, recorded, job, applied, stale,
                  overtaken, crashes>>

\* The gates on the plan and the status, then the stored customer or a new one.
CheckoutStart(s) ==
  /\ checkout[s] = "none"
  /\ row.plan # "pro" /\ row.status \notin {"active_paid", "trialing"}
  /\ checkout' = [checkout EXCEPT ![s] = IF row.cust = None THEN "customer" ELSE "session"]
  /\ customer' = [customer EXCEPT ![s] = IF row.cust = None THEN s ELSE row.cust]
  /\ UNCHANGED <<stripe, row, checkoutVars>>

\* create_customer has answered: set_stripe_customer_id.
CheckoutCustomer(s) ==
  /\ checkout[s] = "customer"
  /\ checkout' = [checkout EXCEPT ![s] = "session"]
  /\ row' = [row EXCEPT !.cust = customer[s]]
  /\ UNCHANGED <<stripe, customer, checkoutVars>>

\* Stripe opens the session, with the user's id in its metadata.
CheckoutOpen(s) ==
  /\ checkout[s] = "session" /\ stripe[s] = "none"
  /\ stripe' = [stripe EXCEPT ![s] = "open"]
  /\ checkout' = [checkout EXCEPT ![s] = "done"]
  /\ UNCHANGED <<customer, row, checkoutVars>>

----------------------------------------------------------------------------
(* Stripe and the paying user (external).                                  *)

stripeVars == <<customer, checkout, row, recorded, job, applied, stale,
                overtaken, crashes>>

\* Subscription s exists.
Subscribed(s) == stripe[s] \in StripeStatus

\* Stripe emits e; the bound counts the events.
Emit(e) == Cardinality(sent) < MaxEvents /\ sent' = sent \union {e}

\* The user fills in the checkout: a subscription waits for its first payment
\* or begins with a trial.
Subscribe(s) ==
  /\ stripe[s] = "open"
  /\ \E st \in {"incomplete", "trialing"} :
       /\ stripe' = [stripe EXCEPT ![s] = st]
       /\ trial' = IF st = "trialing" THEN trial \union {s} ELSE trial
  /\ UNCHANGED <<complete, paid, sent, stripeVars>>

\* The checkout completes; with a trial, or a method of payment that settles
\* later, before any payment.
Complete(s) ==
  /\ Subscribed(s) /\ s \notin complete
  /\ complete' = complete \union {s}
  /\ Emit(Ev("completed", s, "active"))
  /\ UNCHANGED <<stripe, paid, trial, stripeVars>>

\* An invoice is paid; the first one is the payment of the session.
Settle(s) ==
  /\ stripe[s] \in {"incomplete", "trialing", "past_due"}
  /\ stripe' = [stripe EXCEPT ![s] = "active"]
  /\ paid' = IF stripe[s] = "incomplete" THEN paid \union {s} ELSE paid
  /\ UNCHANGED <<complete, trial, sent, stripeVars>>

\* An invoice is not paid: the first one leaves the subscription incomplete.
PaymentFails(s) ==
  /\ stripe[s] \in {"incomplete", "trialing", "active"}
  /\ stripe' = [stripe EXCEPT ![s] = IF @ = "incomplete" THEN @ ELSE "past_due"]
  /\ Emit(Ev("payment_failed", s, "past_due"))
  /\ UNCHANGED <<complete, paid, trial, stripeVars>>

\* Stripe stops waiting for the first payment, or for a later one.
GiveUp(s) ==
  /\ stripe[s] \in {"incomplete", "past_due"}
  /\ stripe' = [stripe EXCEPT ![s] = IF @ = "incomplete" THEN "incomplete_expired"
                                                       ELSE "unpaid"]
  /\ UNCHANGED <<complete, paid, trial, sent, stripeVars>>

Cancel(s) ==
  /\ stripe[s] \in {"trialing", "active", "past_due", "unpaid"}
  /\ stripe' = [stripe EXCEPT ![s] = "canceled"]
  /\ Emit(Ev("deleted", s, "canceled"))
  /\ UNCHANGED <<complete, paid, trial, stripeVars>>

\* customer.subscription.created and .updated carry the present status.
Update(s) ==
  /\ Subscribed(s)
  /\ Emit(Ev("updated", s, stripe[s]))
  /\ UNCHANGED <<stripe, complete, paid, trial, stripeVars>>

----------------------------------------------------------------------------
(* The jobs.                                                               *)

jobVars == <<world, checkout, crashes>>

Goto(j, pc) == job' = [job EXCEPT ![j] = [pc |-> pc, ev |-> @.ev]]

\* verify_stripe_signature lets through what Stripe has signed, however often
\* it is sent; a retry carries a new time stamp.
Genuine(e) == e \in sent

\* A delivery of the webhook: has_processed_billing_event is false (a
\* duplicate is answered without a change), and the branch on the type.
Deliver(j, e) ==
  /\ job[j] = Idle /\ Genuine(e)
  /\ e \notin recorded
  /\ job' = [job EXCEPT ![j] =
       [pc |-> IF e.type \in {"deleted", "payment_failed"} THEN "lookup" ELSE "load",
        ev |-> e]]
  /\ UNCHANGED <<jobVars, row, recorded, applied, stale, overtaken>>

\* Mutant: a completed session is taken for a paid one.
ConfirmUnpaid(j, s) ==
  /\ job[j] = Idle /\ s \in complete
  /\ row.plan # "pro"
  /\ job' = [job EXCEPT ![j] = [pc |-> "seen", ev |-> Ev("confirm", s, "active")]]
  /\ UNCHANGED <<jobVars, row, recorded, applied, stale, overtaken>>

\* confirm_checkout_session: the session Stripe returned is complete and paid,
\* and build_summary finds the user on the free plan (else nothing changes).
Confirm(j, s) ==
  /\ job[j] = Idle /\ s \in complete \intersect paid
  /\ row.plan # "pro"
  /\ job' = [job EXCEPT ![j] = [pc |-> "seen", ev |-> Ev("confirm", s, "active")]]
  /\ UNCHANGED <<jobVars, row, recorded, applied, stale, overtaken>>

\* has_processed_billing_event of a confirmation.
Seen(j) ==
  /\ job[j].pc = "seen"
  /\ IF job[j].ev \in recorded THEN job' = [job EXCEPT ![j] = Idle]
                               ELSE Goto(j, "load")
  /\ UNCHANGED <<jobVars, row, recorded, applied, stale, overtaken>>

\* Nothing to update: the event is only recorded.
Moot(j) ==
  /\ Goto(j, "record")
  /\ applied' = applied \union {job[j].ev}

\* _user_id_for_customer.
Lookup(j) ==
  /\ job[j].pc = "lookup"
  /\ IF row.cust = customer[job[j].ev.sub]
       THEN /\ Goto(j, IF job[j].ev.type = "deleted" THEN "current" ELSE "load")
            /\ UNCHANGED applied
       ELSE Moot(j)
  /\ UNCHANGED <<jobVars, row, recorded, stale, overtaken>>

\* Mutant: the deletion of any subscription is taken for the present one's.
CurrentAlways(j) ==
  /\ job[j].pc = "current"
  /\ Goto(j, "load")
  /\ UNCHANGED <<jobVars, row, recorded, applied, stale, overtaken>>

\* _is_current_subscription.
Current(j) ==
  /\ job[j].pc = "current"
  /\ IF row.sub \in {None, job[j].ev.sub}
       THEN Goto(j, "load") /\ UNCHANGED applied
       ELSE Moot(j)
  /\ UNCHANGED <<jobVars, row, recorded, stale, overtaken>>

\* apply_billing_update: session.get(User, user_id).
Load(j) ==
  /\ job[j].pc = "load"
  /\ job' = [job EXCEPT ![j] = [pc |-> "write", ev |-> @.ev, loaded |-> row]]
  /\ UNCHANGED <<jobVars, row, recorded, applied, stale, overtaken>>

\* Mutant: Stripe's own status word is stored.
BillingStateRaw(status) ==
  [status |-> status, plan |-> IF status = "active" THEN "pro" ELSE "free"]

\* _status_to_billing_state.
BillingState(status) ==
  CASE status = "active" -> [status |-> "active_paid", plan |-> "pro"]
    [] status = "trialing" -> [status |-> "trialing", plan |-> "pro"]
    [] status = "past_due" -> [status |-> "past_due", plan |-> "free"]
    [] status \in {"canceled", "unpaid", "incomplete_expired"} ->
         [status |-> "canceled", plan |-> "free"]
    [] OTHER -> [status |-> "free", plan |-> "free"]

\* The row the update of event e asks for.
Wanted(e) ==
  [status |-> BillingState(e.status).status, plan |-> BillingState(e.status).plan,
   sub |-> e.sub, cust |-> customer[e.sub]]

\* Mutant: the status is set without the entitlement that goes with it.
FlushStatusOnly(current, loaded, wanted) ==
  [current EXCEPT !.status = wanted.status, !.sub = wanted.sub]

\* The UPDATE the unit of work emits: only the columns that differ.
Flush(current, loaded, wanted) ==
  [c \in DOMAIN current |-> IF wanted[c] = loaded[c] THEN current[c] ELSE wanted[c]]

\* A deletion that has been found current and is not written yet.
Deleting(i) == job[i].pc \in {"load", "write"} /\ job[i].ev.type = "deleted"

\* The UPDATE of job j, with the marks it leaves in the history.
Commit(j) ==
  /\ row' = Flush(row, job[j].loaded, Wanted(job[j].ev))
  /\ applied' = applied \union {job[j].ev}
  /\ stale' = (stale \/ row # job[j].loaded)
  /\ overtaken' = (overtaken \/ (row'.sub # row.sub /\ \E i \in Jobs \ {j} : Deleting(i)))
  /\ Goto(j, "record")

\* Mutant: the event is recorded in the transaction before its update.
WriteAfterRecord(j) ==
  /\ job[j].pc = "write"
  /\ IF job[j].ev \in recorded
       THEN Commit(j) /\ UNCHANGED recorded
       ELSE /\ recorded' = recorded \union {job[j].ev}
            /\ UNCHANGED <<row, applied, stale, overtaken, job>>
  /\ UNCHANGED jobVars

Write(j) ==
  /\ job[j].pc = "write"
  /\ Commit(j)
  /\ UNCHANGED <<jobVars, recorded>>

\* record_billing_webhook_event; a second insert of the id is rolled back.
Record(j) ==
  /\ job[j].pc = "record"
  /\ recorded' = recorded \union {job[j].ev}
  /\ job' = [job EXCEPT ![j] = Idle]
  /\ UNCHANGED <<jobVars, row, applied, stale, overtaken>>

\* The worker is killed, or the database fails: the caller gets no 200.
Crash(j) ==
  /\ job[j] # Idle /\ crashes < MaxCrashes
  /\ crashes' = crashes + 1
  /\ job' = [job EXCEPT ![j] = Idle]
  /\ UNCHANGED <<world, checkout, row, recorded, applied, stale, overtaken>>

Step(j) ==
  Lookup(j) \/ Current(j) \/ Load(j) \/ Write(j) \/ Record(j)

\* Stripe and the user who pays or does not.
Stripe(s) ==
  \/ Subscribe(s) \/ Complete(s) \/ Settle(s) \/ PaymentFails(s)
  \/ GiveUp(s) \/ Cancel(s) \/ Update(s)

\* The endpoints; the rest of a job is Step.
CreateCheckoutSession(s) == CheckoutStart(s) \/ CheckoutCustomer(s) \/ CheckoutOpen(s)
ConfirmCheckoutSession(j) == Seen(j) \/ \E s \in Sessions : Confirm(j, s)
StripeWebhook(j) == \E e \in sent : Deliver(j, e)

Next ==
  \/ \E s \in Sessions : CreateCheckoutSession(s) \/ Stripe(s)
  \/ \E j \in Jobs : ConfirmCheckoutSession(j) \/ StripeWebhook(j) \/ Step(j) \/ Crash(j)

Spec == Init /\ [][Next]_vars

----------------------------------------------------------------------------

\* Type invariant.
TypeOK ==
  /\ stripe \in [Sessions -> {"none", "open"} \union StripeStatus]
  /\ complete \in SUBSET Sessions /\ paid \in SUBSET Sessions /\ trial \in SUBSET Sessions
  /\ customer \in [Sessions -> Sessions \union {None}]
  /\ sent \in SUBSET WebhookEvents
  /\ checkout \in [Sessions -> {"none", "customer", "session", "done"}]
  /\ row \in Row
  /\ recorded \in SUBSET Event
  /\ job \in [Jobs -> {Idle} \union
       [pc : {"seen", "lookup", "current", "load", "record"}, ev : Event]
       \union [pc : {"write"}, ev : Event, loaded : Row]]
  /\ applied \in SUBSET Event
  /\ stale \in BOOLEAN /\ overtaken \in BOOLEAN
  /\ crashes \in 0 .. MaxCrashes

(* A recorded event has had its effect: wherever a worker is killed, and   *)
(* however deliveries repeat, no event is marked as processed whose update *)
(* was not committed.                                                      *)
NoEventLost == recorded \subseteq applied

(* Where a Pro plan comes from, whatever is delivered late, twice or before *)
(* the checkout is through: a payment, a trial, or a checkout session that *)
(* Stripe reported as completed (its payment_status is not read, so that   *)
(* payment may be outstanding, or fail later).  An opened checkout, a      *)
(* subscription that waits for its first payment and a confirmation of an  *)
(* unpaid session grant nothing, and only existing subscriptions are       *)
(* tracked.                                                                *)
ProIsEarned ==
  /\ row.plan = "pro" => \E s \in Sessions :
       s \in paid \union trial \/ Ev("completed", s, "active") \in applied
  /\ \A s \in Sessions : Ev("confirm", s, "active") \in applied => s \in complete \intersect paid
  /\ row.sub # None => Subscribed(row.sub)

(* "A delayed customer.subscription.deleted for a superseded subscription  *)
(* must not downgrade a user who has since started a new one": a deletion  *)
(* is written over a row that tracks another subscription only if that one *)
(* got there after the check, between the transactions of the deletion.    *)
SupersededUnlessOvertaken ==
  [][\A j \in Jobs :
       job[j].pc = "write" /\ Write(j) /\ job[j].ev.type = "deleted"
       /\ row.sub \notin {None, job[j].ev.sub}
         => overtaken]_vars

(* The plan and the billing status agree, as long as no UPDATE of a worker *)
(* was based on a row another worker has changed since: the lost update of *)
(* apply_billing_update is the only way to a Pro plan that is not paid for *)
(* according to the row itself.                                            *)
PlanMatchesStatusUnlessStale ==
  stale \/ (row.plan = "pro" <=> row.status \in {"active_paid", "trialing"})

(* "The webhook remains the source of truth for ongoing subscription       *)
(* lifecycle events": after the deletion of a subscription was processed,  *)
(* confirming its old checkout session does not change the plan.           *)
ConfirmRespectsDeletion ==
  [][\A j \in Jobs :
       job[j] # Idle /\ Write(j) /\ job[j].ev.type = "confirm"
       /\ Ev("deleted", job[j].ev.sub, "canceled") \in recorded
         => row'.plan = row.plan]_vars
=============================================================================
