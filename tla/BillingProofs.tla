--------------------------- MODULE BillingProofs ---------------------------
(***************************************************************************)
(* Proofs about Billing, for any number of jobs, checkout sessions, events *)
(* and crashes: the types, that no event is marked as processed without    *)
(* its update, where a Pro plan can come from, that plan and status agree  *)
(* unless an UPDATE was based on a row changed since, and that a deletion  *)
(* leaves a newer subscription alone unless it was overtaken.              *)
(***************************************************************************)
EXTENDS Billing, TLAPS

(* A job that is about to record its event has applied it.                 *)
EffectFirst == \A j \in Jobs : job[j].pc = "record" => job[j].ev \in applied

(* At Stripe: what was paid for or completed exists, and a subscription    *)
(* has left "incomplete" by a payment or has begun with a trial.           *)
WorldIsSound ==
  \A s \in Sessions :
    /\ s \in complete \union paid \union trial => Subscribed(s)
    /\ stripe[s] \in {"trialing", "active", "past_due"} => s \in paid \union trial

\* Event e says what is, or once was, the case at Stripe.
Truthful(e) ==
  /\ e \in Event /\ Subscribed(e.sub)
  /\ e.type = "completed" => e.status = "active"
  /\ e.type = "confirm" => e.status = "active" /\ e.sub \in complete \intersect paid
  /\ e.type = "updated" /\ e.status \in {"active", "trialing"} => e.sub \in paid \union trial
  /\ e.type \in {"deleted", "payment_failed"} => e.status \notin {"active", "trialing"}

(* Whatever Stripe has sent, a job works on or has been applied is true.   *)
OnlyTrueEvents ==
  /\ \A e \in sent : Truthful(e)
  /\ \A j \in Jobs : job[j] # Idle => Truthful(job[j].ev)
  /\ \A e \in applied : Truthful(e)

(* A deletion past its check is that of the tracked subscription, unless   *)
(* it was overtaken; only a confirmation skips the check.                  *)
DeletionsCurrent ==
  \A j \in Jobs :
    /\ job[j].pc = "seen" => job[j].ev.type = "confirm"
    /\ Deleting(j) => overtaken \/ row.sub \in {None, job[j].ev.sub}

Inv ==
  /\ TypeOK
  /\ EffectFirst /\ NoEventLost
  /\ WorldIsSound /\ OnlyTrueEvents /\ ProIsEarned
  /\ PlanMatchesStatusUnlessStale /\ DeletionsCurrent

----------------------------------------------------------------------------
(* Lemmas on the operators.                                                *)

(* What Stripe sends is an event.                                          *)
LEMMA SentAreEvents == WebhookEvents \subseteq Event
BY DEF WebhookEvents, Event, Ev, EventTypes, StripeStatus

(* A job under way has an event.                                           *)
LEMMA JobHasEvent ==
  ASSUME TypeOK, NEW j \in Jobs, job[j] # Idle
  PROVE  job[j].ev \in Event /\ job[j].ev.sub \in Sessions
BY DEF TypeOK, Event

(* An idle job has no other pc.                                            *)
LEMMA IdlePc == Idle.pc = "idle"
BY DEF Idle

(* The states that _status_to_billing_state returns, for every status.     *)
LEMMA BillingStateMatches ==
  ASSUME NEW status
  PROVE  /\ BillingState(status).status
              \in {"free", "active_paid", "trialing", "past_due", "canceled"}
         /\ BillingState(status).plan \in {"free", "pro"}
         /\ BillingState(status).plan = "pro"
              <=> BillingState(status).status \in {"active_paid", "trialing"}
         /\ BillingState(status).plan = "pro" => status \in {"active", "trialing"}
<1>1. CASE status = "active"
  BY <1>1 DEF BillingState
<1>2. CASE status = "trialing"
  BY <1>2 DEF BillingState
<1>3. CASE status = "past_due"
  BY <1>3 DEF BillingState
<1>4. CASE status \in {"canceled", "unpaid", "incomplete_expired"}
  BY <1>4 DEF BillingState
<1>5. CASE status \notin {"active", "trialing", "past_due", "canceled", "unpaid",
                         "incomplete_expired"}
  BY <1>5 DEF BillingState
<1> QED BY <1>1, <1>2, <1>3, <1>4, <1>5

(* What an update asks for is a row, with a plan that matches its status.  *)
LEMMA WantedIsRow ==
  ASSUME TypeOK, NEW e \in Event
  PROVE  /\ Wanted(e) \in Row
         /\ Wanted(e).sub = e.sub
         /\ Wanted(e).plan = "pro" <=> Wanted(e).status \in {"active_paid", "trialing"}
         /\ Wanted(e).plan = "pro" => e.status \in {"active", "trialing"}
<1>1. e.sub \in Sessions /\ customer[e.sub] \in Sessions \union {None}
  BY DEF TypeOK, Event
<1> QED BY <1>1, BillingStateMatches DEF Wanted, Row

(* The UPDATE leaves a column or gives it the new value, and on the row    *)
(* that was loaded it writes all of the new values.                        *)
LEMMA FlushWorks ==
  ASSUME NEW current \in Row, NEW loaded \in Row, NEW wanted \in Row
  PROVE  /\ Flush(current, loaded, wanted) \in Row
         /\ Flush(current, loaded, wanted).sub \in {current.sub, wanted.sub}
         /\ Flush(current, loaded, wanted).plan \in {current.plan, wanted.plan}
         /\ current = loaded => /\ Flush(current, loaded, wanted).plan = wanted.plan
                                /\ Flush(current, loaded, wanted).status = wanted.status
<1> DEFINE f == Flush(current, loaded, wanted)
<1>1. DOMAIN current = {"status", "plan", "sub", "cust"}
  BY DEF Row
<1>2. f = [c \in {"status", "plan", "sub", "cust"} |->
             IF wanted[c] = loaded[c] THEN current[c] ELSE wanted[c]]
  BY <1>1 DEF Flush
<1>3. /\ f.status = IF wanted.status = loaded.status THEN current.status ELSE wanted.status
      /\ f.plan = IF wanted.plan = loaded.plan THEN current.plan ELSE wanted.plan
      /\ f.sub = IF wanted.sub = loaded.sub THEN current.sub ELSE wanted.sub
      /\ f.cust = IF wanted.cust = loaded.cust THEN current.cust ELSE wanted.cust
  BY <1>2
<1>4. f = [status |-> f.status, plan |-> f.plan, sub |-> f.sub, cust |-> f.cust]
  BY <1>2
<1>5. f \in Row
  <2> HIDE DEF f
  <2> QED BY <1>3, <1>4 DEF Row
<1> QED BY <1>3, <1>5

----------------------------------------------------------------------------
(* The steps.                                                              *)

(* What Stripe does keeps its state sound, only adds to what was paid for, *)
(* completed or subscribed, and is told truly.                             *)
LEMMA StripeWorks ==
  ASSUME TypeOK, WorldIsSound, NEW s \in Sessions, Stripe(s)
  PROVE  /\ stripe' \in [Sessions -> {"none", "open"} \union StripeStatus]
         /\ complete' \in SUBSET Sessions /\ paid' \in SUBSET Sessions
         /\ trial' \in SUBSET Sessions
         /\ complete \subseteq complete' /\ paid \subseteq paid' /\ trial \subseteq trial'
         /\ \A t \in Sessions : Subscribed(t) => Subscribed(t)'
         /\ WorldIsSound'
         /\ sent' = sent \/ \E e \in WebhookEvents : sent' = sent \union {e} /\ Truthful(e)'
<1>1. CASE Subscribe(s)
  BY <1>1 DEF Subscribe, TypeOK, WorldIsSound, Subscribed, StripeStatus
<1>2. CASE Complete(s)
  <2>1. /\ stripe' = stripe /\ paid' = paid /\ trial' = trial
        /\ complete' = complete \union {s} /\ Subscribed(s)
    BY <1>2 DEF Complete
  <2> DEFINE e == Ev("completed", s, "active")
  <2>2. sent' = sent \union {e}
    BY <1>2 DEF Complete, Emit
  <2>3. /\ e \in WebhookEvents /\ e \in Event /\ e.sub = s
        /\ e.type = "completed" /\ e.status = "active"
    BY DEF Ev, WebhookEvents, Event, EventTypes, StripeStatus
  <2> HIDE DEF e
  <2>4. Truthful(e)'
    BY <2>1, <2>3 DEF Truthful, Subscribed
  <2> QED BY <2>1, <2>2, <2>3, <2>4 DEF TypeOK, WorldIsSound, Subscribed
<1>3. CASE Settle(s)
  BY <1>3 DEF Settle, TypeOK, WorldIsSound, Subscribed, StripeStatus
<1>4. CASE PaymentFails(s)
  <2>1. /\ complete' = complete /\ paid' = paid /\ trial' = trial
        /\ stripe[s] \in {"incomplete", "trialing", "active"}
        /\ stripe' = [stripe EXCEPT ![s] = IF @ = "incomplete" THEN @ ELSE "past_due"]
    BY <1>4 DEF PaymentFails
  <2> DEFINE e == Ev("payment_failed", s, "past_due")
  <2>2. sent' = sent \union {e}
    BY <1>4 DEF PaymentFails, Emit
  <2>3. /\ e \in WebhookEvents /\ e \in Event /\ e.sub = s
        /\ e.type = "payment_failed" /\ e.status = "past_due"
    BY DEF Ev, WebhookEvents, Event, EventTypes, StripeStatus
  <2> HIDE DEF e
  <2>4. Truthful(e)'
    BY <2>1, <2>3 DEF Truthful, Subscribed, TypeOK, StripeStatus
  <2> QED BY <2>1, <2>2, <2>3, <2>4 DEF TypeOK, WorldIsSound, Subscribed, StripeStatus
<1>5. CASE GiveUp(s)
  BY <1>5 DEF GiveUp, TypeOK, WorldIsSound, Subscribed, StripeStatus
<1>6. CASE Cancel(s)
  <2>1. /\ complete' = complete /\ paid' = paid /\ trial' = trial
        /\ stripe[s] \in {"trialing", "active", "past_due", "unpaid"}
        /\ stripe' = [stripe EXCEPT ![s] = "canceled"]
    BY <1>6 DEF Cancel
  <2> DEFINE e == Ev("deleted", s, "canceled")
  <2>2. sent' = sent \union {e}
    BY <1>6 DEF Cancel, Emit
  <2>3. /\ e \in WebhookEvents /\ e \in Event /\ e.sub = s
        /\ e.type = "deleted" /\ e.status = "canceled"
    BY DEF Ev, WebhookEvents, Event, EventTypes, StripeStatus
  <2> HIDE DEF e
  <2>4. Truthful(e)'
    BY <2>1, <2>3 DEF Truthful, Subscribed, TypeOK, StripeStatus
  <2> QED BY <2>1, <2>2, <2>3, <2>4 DEF TypeOK, WorldIsSound, Subscribed, StripeStatus
<1>7. CASE Update(s)
  <2>1. /\ stripe' = stripe /\ complete' = complete /\ paid' = paid /\ trial' = trial
        /\ stripe[s] \in StripeStatus
    BY <1>7 DEF Update, Subscribed
  <2> PICK e : e = Ev("updated", s, stripe[s])
    OBVIOUS
  <2>2. sent' = sent \union {e}
    BY <1>7 DEF Update, Emit
  <2>3. /\ e \in WebhookEvents /\ e \in Event /\ e.sub = s
        /\ e.type = "updated" /\ e.status = stripe[s]
    BY <2>1 DEF Ev, WebhookEvents, Event, EventTypes
  <2>4. Truthful(e)'
    BY <2>1, <2>3 DEF Truthful, Subscribed, WorldIsSound
  <2> QED BY <2>1, <2>2, <2>3, <2>4 DEF TypeOK, WorldIsSound, Subscribed
<1> QED BY <1>1, <1>2, <1>3, <1>4, <1>5, <1>6, <1>7 DEF Stripe

(* create_checkout_session and Stripe leave the jobs and what the row says *)
(* of plan, status and subscription as they are; Stripe's state moves on.  *)
LEMMA SurroundingsMove ==
  ASSUME Inv, NEW s \in Sessions, CreateCheckoutSession(s) \/ Stripe(s)
  PROVE  /\ UNCHANGED <<recorded, job, applied, stale, overtaken, crashes>>
         /\ row' \in Row
         /\ row'.status = row.status /\ row'.plan = row.plan /\ row'.sub = row.sub
         /\ customer' \in [Sessions -> Sessions \union {None}]
         /\ checkout' \in [Sessions -> {"none", "customer", "session", "done"}]
         /\ stripe' \in [Sessions -> {"none", "open"} \union StripeStatus]
         /\ complete' \in SUBSET Sessions /\ paid' \in SUBSET Sessions
         /\ trial' \in SUBSET Sessions
         /\ complete \subseteq complete' /\ paid \subseteq paid' /\ trial \subseteq trial'
         /\ \A t \in Sessions : Subscribed(t) => Subscribed(t)'
         /\ WorldIsSound'
         /\ sent' = sent \/ \E e \in WebhookEvents : sent' = sent \union {e} /\ Truthful(e)'
<1>1. CASE Stripe(s)
  <2>1. UNCHANGED stripeVars
    BY <1>1 DEF Stripe, Subscribe, Complete, Settle, PaymentFails, GiveUp, Cancel, Update
  <2>2. /\ stripe' \in [Sessions -> {"none", "open"} \union StripeStatus]
        /\ complete' \in SUBSET Sessions /\ paid' \in SUBSET Sessions
        /\ trial' \in SUBSET Sessions
        /\ complete \subseteq complete' /\ paid \subseteq paid' /\ trial \subseteq trial'
        /\ \A t \in Sessions : Subscribed(t) => Subscribed(t)'
        /\ WorldIsSound'
        /\ sent' = sent \/ \E e \in WebhookEvents : sent' = sent \union {e} /\ Truthful(e)'
    BY <1>1, StripeWorks DEF Inv
  <2> QED BY <2>1, <2>2 DEF Inv, TypeOK, stripeVars
<1>2. CASE CreateCheckoutSession(s)
  <2>1. UNCHANGED checkoutVars
    BY <1>2 DEF CreateCheckoutSession, CheckoutStart, CheckoutCustomer, CheckoutOpen
  <2>2. /\ row' \in Row
        /\ row'.status = row.status /\ row'.plan = row.plan /\ row'.sub = row.sub
    <3>1. CASE row' = row
      BY <3>1 DEF Inv, TypeOK
    <3>2. CASE row' = [row EXCEPT !.cust = customer[s]]
      BY <3>2 DEF Inv, TypeOK, Row
    <3> QED BY <1>2, <3>1, <3>2
            DEF CreateCheckoutSession, CheckoutStart, CheckoutCustomer, CheckoutOpen
  <2>3. customer' \in [Sessions -> Sessions \union {None}]
    <3>1. row.cust \in Sessions \union {None}
      BY DEF Inv, TypeOK, Row
    <3> QED BY <1>2, <3>1 DEF Inv, TypeOK, CreateCheckoutSession, CheckoutStart,
               CheckoutCustomer, CheckoutOpen
  <2>4. checkout' \in [Sessions -> {"none", "customer", "session", "done"}]
    BY <1>2 DEF Inv, TypeOK, CreateCheckoutSession, CheckoutStart, CheckoutCustomer,
       CheckoutOpen
  <2>5. \/ stripe' = stripe
        \/ stripe[s] = "none" /\ stripe' = [stripe EXCEPT ![s] = "open"]
    BY <1>2 DEF CreateCheckoutSession, CheckoutStart, CheckoutCustomer, CheckoutOpen
  <2>6. /\ stripe' \in [Sessions -> {"none", "open"} \union StripeStatus]
        /\ \A t \in Sessions : Subscribed(t) => Subscribed(t)'
        /\ WorldIsSound'
    <3>1. complete' = complete /\ paid' = paid /\ trial' = trial
      BY <2>1 DEF checkoutVars
    <3>2. CASE stripe' = stripe
      BY <3>1, <3>2 DEF Inv, TypeOK, WorldIsSound, Subscribed
    <3>3. CASE stripe[s] = "none" /\ stripe' = [stripe EXCEPT ![s] = "open"]
      <4>1. \A t \in Sessions : stripe'[t] = IF t = s THEN "open" ELSE stripe[t]
        BY <3>3 DEF Inv, TypeOK
      <4>2. "none" \notin StripeStatus
        BY DEF StripeStatus
      <4>3. \A t \in Sessions : Subscribed(t) => Subscribed(t)'
        BY <3>3, <4>1, <4>2 DEF Subscribed
      <4>4. WorldIsSound'
        BY <3>1, <4>1, <4>3 DEF Inv, WorldIsSound
      <4> QED BY <3>3, <4>3, <4>4 DEF Inv, TypeOK
    <3> QED BY <2>5, <3>2, <3>3
  <2> QED BY <2>1, <2>2, <2>3, <2>4, <2>5, <2>6 DEF Inv, TypeOK, checkoutVars
<1> QED BY <1>1, <1>2

(* create_checkout_session, Stripe and the paying user.                    *)
LEMMA SurroundingsKeep ==
  ASSUME Inv, NEW s \in Sessions, CreateCheckoutSession(s) \/ Stripe(s)
  PROVE  Inv'
<1>1. /\ UNCHANGED <<recorded, job, applied, stale, overtaken, crashes>>
      /\ row' \in Row
      /\ row'.status = row.status /\ row'.plan = row.plan /\ row'.sub = row.sub
      /\ complete \subseteq complete' /\ paid \subseteq paid' /\ trial \subseteq trial'
      /\ \A t \in Sessions : Subscribed(t) => Subscribed(t)'
      /\ WorldIsSound'
      /\ sent' = sent \/ \E e \in WebhookEvents : sent' = sent \union {e} /\ Truthful(e)'
  BY SurroundingsMove
<1>2. TypeOK'
  BY <1>1, SurroundingsMove DEF Inv, TypeOK
<1>3. \A e \in Event : Truthful(e) => Truthful(e)'
  BY <1>1 DEF Truthful, Event
<1>4. OnlyTrueEvents'
  <2>1. \A e \in sent : Truthful(e) /\ e \in Event
    BY DEF Inv, OnlyTrueEvents, Truthful
  <2>2. \A e \in sent' : Truthful(e)'
    BY <1>1, <1>3, <2>1
  <2>3. \A j \in Jobs : job[j] # Idle => Truthful(job[j].ev) /\ job[j].ev \in Event
    BY DEF Inv, OnlyTrueEvents, Truthful
  <2>4. \A e \in applied : Truthful(e) /\ e \in Event
    BY DEF Inv, OnlyTrueEvents, Truthful
  <2>5. \A j \in Jobs : job[j] # Idle => Truthful(job[j].ev)'
    BY <1>1, <1>3, <2>3 DEF Truthful, Subscribed
  <2> QED BY <1>1, <1>3, <2>2, <2>4, <2>5 DEF OnlyTrueEvents
<1>5. ProIsEarned'
  <2>1. row.sub \in Sessions \union {None}
    BY DEF Inv, TypeOK, Row
  <2> QED BY <1>1, <2>1 DEF Inv, ProIsEarned, Subscribed
<1>6. EffectFirst' /\ NoEventLost' /\ PlanMatchesStatusUnlessStale'
  BY <1>1 DEF Inv, EffectFirst, NoEventLost, PlanMatchesStatusUnlessStale
<1>7. DeletionsCurrent'
  BY <1>1 DEF Inv, DeletionsCurrent, Deleting
<1> QED BY <1>1, <1>2, <1>4, <1>5, <1>6, <1>7 DEF Inv

(* The steps of a job that leave the row alone.                            *)
LEMMA ReadingKeeps ==
  ASSUME Inv, NEW j \in Jobs, UNCHANGED <<world, checkout, row, stale, overtaken>>,
         crashes' \in 0 .. MaxCrashes,
         NEW next, job' = [job EXCEPT ![j] = next],
         next \in {Idle} \union
           [pc : {"seen", "lookup", "current", "load", "record"}, ev : Event]
           \union [pc : {"write"}, ev : Event, loaded : Row],
         next # Idle => Truthful(next.ev),
         applied' \in SUBSET Event, applied \subseteq applied',
         \A e \in applied' : Truthful(e),
         recorded' \in SUBSET Event, recorded' \subseteq applied',
         next.pc = "record" => next.ev \in applied',
         next.pc = "seen" => next.ev.type = "confirm",
         next.pc \in {"load", "write"} /\ next.ev.type = "deleted"
           => overtaken \/ row.sub \in {None, next.ev.sub}
  PROVE  Inv'
<1>1. TypeOK'
  BY DEF Inv, TypeOK, world
<1>2. \A i \in Jobs : job'[i] = IF i = j THEN next ELSE job[i]
  BY DEF Inv, TypeOK
<1>3. EffectFirst' /\ NoEventLost'
  BY <1>2 DEF Inv, EffectFirst, NoEventLost
<1>4. WorldIsSound' /\ OnlyTrueEvents'
  BY <1>2 DEF Inv, WorldIsSound, OnlyTrueEvents, Truthful, Subscribed, world
<1>5. ProIsEarned'
  <2>1. \A t \in Sessions :
          Ev("confirm", t, "active") \in applied' => t \in complete \intersect paid
    BY DEF Truthful, Ev
  <2> QED BY <2>1 DEF Inv, ProIsEarned, Subscribed, world
<1>6. PlanMatchesStatusUnlessStale'
  BY DEF Inv, PlanMatchesStatusUnlessStale
<1>7. DeletionsCurrent'
  BY <1>2 DEF Inv, DeletionsCurrent, Deleting
<1> QED BY <1>1, <1>3, <1>4, <1>5, <1>6, <1>7 DEF Inv

(* apply_billing_update commits.                                           *)
LEMMA WriteKeeps ==
  ASSUME Inv, NEW j \in Jobs, Write(j)
  PROVE  Inv'
<1> DEFINE e == job[j].ev
<1>1. job[j] # Idle /\ e \in Event /\ e.sub \in Sessions /\ job[j].loaded \in Row /\ row \in Row
  BY IdlePc DEF Write, Inv, TypeOK, Event
<1>2. Truthful(e)
  BY <1>1 DEF Inv, OnlyTrueEvents
<1>3. /\ Wanted(e) \in Row
      /\ Wanted(e).sub = e.sub
      /\ Wanted(e).plan = "pro" <=> Wanted(e).status \in {"active_paid", "trialing"}
      /\ Wanted(e).plan = "pro" => e.status \in {"active", "trialing"}
  BY <1>1, WantedIsRow DEF Inv
<1>4. /\ row' = Flush(row, job[j].loaded, Wanted(e)) /\ stale' = (stale \/ row # job[j].loaded)
      /\ overtaken' = (overtaken \/ (row'.sub # row.sub
                                     /\ \E i \in Jobs \ {j} : Deleting(i)))
  BY DEF Write, Commit
<1>5. /\ row' \in Row
      /\ row'.sub \in {row.sub, e.sub}
      /\ row'.plan \in {row.plan, Wanted(e).plan}
      /\ row = job[j].loaded => /\ row'.plan = Wanted(e).plan
                                /\ row'.status = Wanted(e).status
  <2> HIDE DEF e
  <2> QED BY <1>1, <1>3, <1>4, FlushWorks
<1>6. UNCHANGED <<world, checkout, crashes, recorded>>
  BY DEF Write, jobVars
<1>7. job' = [job EXCEPT ![j] = [pc |-> "record", ev |-> e]] /\ applied' = applied \union {e}
  BY DEF Write, Commit, Goto, Inv, TypeOK
<1>8. TypeOK'
  <2>1. stale' \in BOOLEAN /\ overtaken' \in BOOLEAN
    BY <1>4 DEF Inv, TypeOK
  <2> HIDE DEF e
  <2>2. job' \in [Jobs -> {Idle} \union
       [pc : {"seen", "lookup", "current", "load", "record"}, ev : Event]
       \union [pc : {"write"}, ev : Event, loaded : Row]]
    BY <1>1, <1>7 DEF Inv, TypeOK
  <2> QED BY <1>1, <1>5, <1>6, <1>7, <2>1, <2>2 DEF Inv, TypeOK, world
<1>9. \A i \in Jobs : job'[i] = IF i = j THEN [pc |-> "record", ev |-> e] ELSE job[i]
  BY <1>7 DEF Inv, TypeOK
<1>10. EffectFirst' /\ NoEventLost'
  BY <1>6, <1>7, <1>9 DEF Inv, EffectFirst, NoEventLost
<1>11. WorldIsSound' /\ OnlyTrueEvents'
  BY <1>2, <1>6, <1>7, <1>9 DEF Inv, WorldIsSound, OnlyTrueEvents, Truthful, Subscribed, world
<1>12. ProIsEarned'
  <2>1. Wanted(e).plan = "pro" =>
          e.sub \in paid \union trial \/ e = Ev("completed", e.sub, "active")
    <3>1. e = [type |-> e.type, sub |-> e.sub, status |-> e.status] /\ e.type \in EventTypes
      BY <1>1 DEF Event
    <3> HIDE DEF e
    <3> QED BY <1>2, <1>3, <3>1 DEF Truthful, Ev, EventTypes
  <2>2. row'.plan = "pro" => \E t \in Sessions :
          t \in paid \union trial \/ Ev("completed", t, "active") \in applied'
    <3> HIDE DEF e
    <3> QED BY <1>1, <1>5, <1>7, <2>1 DEF Inv, ProIsEarned
  <2>3. \A t \in Sessions :
          Ev("confirm", t, "active") \in applied' => t \in complete \intersect paid
    BY <1>11, <1>6 DEF OnlyTrueEvents, Truthful, Ev, world
  <2>4. row'.sub # None => Subscribed(row'.sub)
    BY <1>2, <1>5 DEF Inv, ProIsEarned, Truthful
  <2> HIDE DEF e
  <2> QED BY <1>6, <2>2, <2>3, <2>4 DEF ProIsEarned, Subscribed, world
<1>13. PlanMatchesStatusUnlessStale'
  BY <1>3, <1>4, <1>5 DEF Inv, PlanMatchesStatusUnlessStale
<1>14. DeletionsCurrent'
  <2> SUFFICES ASSUME NEW i \in Jobs
               PROVE  /\ job'[i].pc = "seen" => job'[i].ev.type = "confirm"
                      /\ Deleting(i)' => overtaken' \/ row'.sub \in {None, job'[i].ev.sub}
    BY DEF DeletionsCurrent
  <2>1. CASE i = j
    BY <1>9, <2>1 DEF Deleting
  <2>2. CASE i # j
    BY <1>4, <1>9, <2>2 DEF Inv, DeletionsCurrent, Deleting
  <2> QED BY <2>1, <2>2
<1> QED BY <1>8, <1>10, <1>11, <1>12, <1>13, <1>14 DEF Inv

(* The other steps of a job.                                               *)
LEMMA JobKeeps ==
  ASSUME Inv, NEW j \in Jobs,
         ConfirmCheckoutSession(j) \/ StripeWebhook(j) \/ Step(j) \/ Crash(j)
  PROVE  Inv'
<1> DEFINE e == job[j].ev
<1>1. job[j] # Idle => e \in Event /\ Truthful(e)
  BY JobHasEvent DEF Inv, OnlyTrueEvents
<1>2. /\ crashes \in 0 .. MaxCrashes /\ applied \in SUBSET Event /\ recorded \in SUBSET Event
      /\ recorded \subseteq applied /\ row \in Row
      /\ \A d \in applied : Truthful(d)
  BY DEF Inv, TypeOK, NoEventLost, OnlyTrueEvents
<1>3. ASSUME NEW s \in Sessions, Confirm(j, s)
      PROVE  Inv'
  <2> DEFINE next == [pc |-> "seen", ev |-> Ev("confirm", s, "active")]
  <2>1. /\ next.ev \in Event /\ next.ev.sub = s /\ next.ev.type = "confirm"
        /\ next.ev.status = "active" /\ next.pc = "seen"
        /\ next \in [pc : {"seen", "lookup", "current", "load", "record"}, ev : Event]
    BY DEF Ev, Event, EventTypes, StripeStatus
  <2>2. /\ job' = [job EXCEPT ![j] = next] /\ s \in complete \intersect paid
        /\ UNCHANGED <<jobVars, row, recorded, applied, stale, overtaken>>
    BY <1>3 DEF Confirm
  <2> HIDE DEF next
  <2>3. Truthful(next.ev)
    BY <2>1, <2>2 DEF Truthful, Inv, WorldIsSound
  <2> QED BY <1>2, <2>1, <2>2, <2>3, ReadingKeeps DEF jobVars
<1>4. ASSUME NEW d \in sent, Deliver(j, d)
      PROVE  Inv'
  <2>1. d \in Event /\ Truthful(d)
    BY SentAreEvents DEF Inv, TypeOK, OnlyTrueEvents
  <2>2. PICK pc \in {"lookup", "load"} :
          job' = [job EXCEPT ![j] = [pc |-> pc, ev |-> d]] /\ (pc = "load" => d.type # "deleted")
    BY <1>4 DEF Deliver
  <2>3. UNCHANGED <<jobVars, row, recorded, applied, stale, overtaken>>
    BY <1>4 DEF Deliver
  <2> DEFINE next == [pc |-> pc, ev |-> d]
  <2>4. next \in [pc : {"seen", "lookup", "current", "load", "record"}, ev : Event]
        /\ next.pc = pc /\ next.ev = d
    BY <2>1, <2>2
  <2>5. job' = [job EXCEPT ![j] = next]
    BY <2>2
  <2> HIDE DEF next
  <2> QED BY <1>2, <2>1, <2>2, <2>3, <2>4, <2>5, ReadingKeeps DEF jobVars
<1>5. ASSUME Seen(j) \/ Lookup(j) \/ Current(j)
      PROVE  Inv'
  <2>1. job[j] # Idle /\ UNCHANGED <<jobVars, row, recorded, stale, overtaken>>
    BY <1>5, IdlePc DEF Seen, Lookup, Current
  <2>2. CASE job' = [job EXCEPT ![j] = Idle] /\ applied' = applied
    BY <1>2, <2>1, <2>2, IdlePc, ReadingKeeps DEF jobVars
  <2>3. ASSUME NEW pc \in {"load", "current", "record"},
               job' = [job EXCEPT ![j] = [pc |-> pc, ev |-> e]],
               pc = "load" /\ e.type = "deleted" => row.sub \in {None, e.sub},
               applied' = IF pc = "record" THEN applied \union {e} ELSE applied
        PROVE  Inv'
    <3> DEFINE next == [pc |-> pc, ev |-> e]
    <3>1. next \in [pc : {"seen", "lookup", "current", "load", "record"}, ev : Event]
          /\ next.pc = pc /\ next.ev = e /\ job' = [job EXCEPT ![j] = next]
      BY <1>1, <2>1, <2>3
    <3>2. e \in Event /\ Truthful(e)
      BY <1>1, <2>1
    <3> HIDE DEF next, e
    <3>3. /\ applied' \in SUBSET Event /\ applied \subseteq applied'
          /\ \A d \in applied' : Truthful(d)
          /\ pc = "record" => e \in applied'
      BY <1>2, <2>3, <3>2
    <3>4. recorded' \in SUBSET Event /\ recorded' \subseteq applied'
      BY <1>2, <2>1, <3>3
    <3>5. UNCHANGED <<world, checkout, row, stale, overtaken>> /\ crashes' \in 0 .. MaxCrashes
      BY <1>2, <2>1 DEF jobVars
    <3>6. pc # "seen" /\ pc # "write"
      BY <2>3
    <3> QED BY <2>3, <3>1, <3>2, <3>3, <3>4, <3>5, <3>6, ReadingKeeps
  <2>4. Goto(j, "load") /\ applied' = applied =>
          job' = [job EXCEPT ![j] = [pc |-> "load", ev |-> e]]
    BY DEF Goto, Inv, TypeOK
  <2>5. Goto(j, "current") /\ applied' = applied =>
          job' = [job EXCEPT ![j] = [pc |-> "current", ev |-> e]]
    BY DEF Goto, Inv, TypeOK
  <2>6. Moot(j) => /\ job' = [job EXCEPT ![j] = [pc |-> "record", ev |-> e]]
                   /\ applied' = applied \union {e}
    BY DEF Moot, Goto, Inv, TypeOK
  <2>7. \/ job' = [job EXCEPT ![j] = Idle] /\ applied' = applied
        \/ /\ Goto(j, "load") /\ applied' = applied
           /\ e.type = "deleted" => row.sub \in {None, e.sub}
        \/ Goto(j, "current") /\ applied' = applied
        \/ Moot(j)
    BY <1>5 DEF Seen, Lookup, Current, Inv, DeletionsCurrent
  <2> HIDE DEF e
  <2> QED BY <2>2, <2>3, <2>4, <2>5, <2>6, <2>7
<1>6. ASSUME Load(j)
      PROVE  Inv'
  <2>1. job[j] # Idle /\ job[j].pc = "load"
        /\ UNCHANGED <<jobVars, row, recorded, applied, stale, overtaken>>
    BY <1>6, IdlePc DEF Load
  <2> DEFINE next == [pc |-> "write", ev |-> e, loaded |-> row]
  <2>2. job' = [job EXCEPT ![j] = next]
    BY <1>6 DEF Load, Inv, TypeOK
  <2>3. /\ next \in [pc : {"write"}, ev : Event, loaded : Row]
        /\ next.ev = e /\ next.pc = "write"
    BY <1>1, <1>2, <2>1
  <2>4. e.type = "deleted" => overtaken \/ row.sub \in {None, e.sub}
    BY <2>1 DEF Inv, DeletionsCurrent, Deleting
  <2> HIDE DEF next, e
  <2> QED BY <1>1, <1>2, <2>1, <2>2, <2>3, <2>4, ReadingKeeps DEF jobVars
<1>7. ASSUME Record(j)
      PROVE  Inv'
  <2>1. job[j] # Idle /\ e \in applied
    BY <1>7, IdlePc DEF Record, Inv, EffectFirst
  <2>2. /\ recorded' = recorded \union {e} /\ job' = [job EXCEPT ![j] = Idle]
        /\ UNCHANGED <<jobVars, row, applied, stale, overtaken>>
    BY <1>7 DEF Record
  <2> HIDE DEF e
  <2> QED BY <1>1, <1>2, <2>1, <2>2, IdlePc, ReadingKeeps DEF jobVars
<1>8. ASSUME Crash(j)
      PROVE  Inv'
  <2>1. crashes' \in 0 .. MaxCrashes
    BY <1>2, <1>8, BoundsAssumption DEF Crash
  <2>2. job' = [job EXCEPT ![j] = Idle]
        /\ UNCHANGED <<world, checkout, row, recorded, applied, stale, overtaken>>
    BY <1>8 DEF Crash
  <2> QED BY <1>2, <2>1, <2>2, IdlePc, ReadingKeeps
<1>9. CASE Write(j)
  BY <1>9, WriteKeeps
<1> QED BY <1>3, <1>4, <1>5, <1>6, <1>7, <1>8, <1>9
        DEF ConfirmCheckoutSession, StripeWebhook, Step

(* Before anything happened.                                               *)
LEMMA InitInv == Init => Inv
<1> SUFFICES ASSUME Init
             PROVE  Inv
  OBVIOUS
<1>1. \A j \in Jobs : job[j] = Idle /\ job[j].pc = "idle"
  BY IdlePc DEF Init
<1>2. TypeOK
  <2>1. row \in Row
    BY DEF Init, Row
  <2>2. crashes \in 0 .. MaxCrashes
    BY BoundsAssumption DEF Init
  <2>3. /\ stripe \in [Sessions -> {"none", "open"} \union StripeStatus]
        /\ customer \in [Sessions -> Sessions \union {None}]
        /\ checkout \in [Sessions -> {"none", "customer", "session", "done"}]
    BY DEF Init
  <2> QED BY <2>1, <2>2, <2>3 DEF Init, TypeOK
<1>3. EffectFirst /\ NoEventLost /\ WorldIsSound /\ OnlyTrueEvents
  BY <1>1 DEF Init, EffectFirst, NoEventLost, WorldIsSound, OnlyTrueEvents
<1>4. ProIsEarned /\ PlanMatchesStatusUnlessStale /\ DeletionsCurrent
  BY <1>1 DEF Init, ProIsEarned, PlanMatchesStatusUnlessStale, DeletionsCurrent, Deleting
<1> QED BY <1>2, <1>3, <1>4 DEF Inv

(* Every step keeps the invariant.                                         *)
LEMMA NextKeepsInv == Inv /\ [Next]_vars => Inv'
<1> SUFFICES ASSUME Inv, [Next]_vars
             PROVE  Inv'
  OBVIOUS
<1>1. ASSUME NEW s \in Sessions, CreateCheckoutSession(s) \/ Stripe(s)
      PROVE  Inv'
  BY <1>1, SurroundingsKeep
<1>2. ASSUME NEW j \in Jobs,
             ConfirmCheckoutSession(j) \/ StripeWebhook(j) \/ Step(j) \/ Crash(j)
      PROVE  Inv'
  BY <1>2, JobKeeps
<1>3. CASE UNCHANGED vars
  BY <1>3 DEF vars, world, Inv, TypeOK, EffectFirst, NoEventLost, WorldIsSound, OnlyTrueEvents,
     ProIsEarned, PlanMatchesStatusUnlessStale, DeletionsCurrent, Deleting, Truthful, Subscribed
<1> QED BY <1>1, <1>2, <1>3 DEF Next

(* The inductive invariant of the billing transactions.                    *)
THEOREM Invariance == Spec => []Inv
<1> QED BY InitInv, NextKeepsInv, PTL DEF Spec

(* The row, the events and the jobs of any number of workers are well      *)
(* formed.                                                                 *)
THEOREM BillingTypes == Spec => []TypeOK
<1>1. Inv => TypeOK
  BY DEF Inv
<1> QED BY <1>1, Invariance, PTL

(* Wherever a worker is killed, no event is recorded whose update was not  *)
(* committed or found moot before.                                         *)
THEOREM EventsAreNotLost == Spec => []NoEventLost
<1>1. Inv => NoEventLost
  BY DEF Inv
<1> QED BY <1>1, Invariance, PTL

(* A Pro plan comes from a payment, a trial or a completed checkout, no    *)
(* confirmation has an effect before its session is complete and paid, and *)
(* only subscriptions that exist are tracked.                              *)
THEOREM WhereProComesFrom == Spec => []ProIsEarned
<1>1. Inv => ProIsEarned
  BY DEF Inv
<1> QED BY <1>1, Invariance, PTL

(* A deletion leaves the row of a newer subscription alone, unless that    *)
(* one was written between the check of the deletion and its own update.   *)
THEOREM SupersededIsKept == Spec => SupersededUnlessOvertaken
<1>1. Inv => [\A j \in Jobs :
                job[j].pc = "write" /\ Write(j) /\ job[j].ev.type = "deleted"
                /\ row.sub \notin {None, job[j].ev.sub}
                  => overtaken]_vars
  BY DEF Inv, DeletionsCurrent, Deleting
<1> QED BY <1>1, Invariance, PTL DEF SupersededUnlessOvertaken

(* Plan and billing status agree, unless an UPDATE was based on a row that *)
(* another worker had changed.                                             *)
THEOREM PlanAgreesWithStatus == Spec => []PlanMatchesStatusUnlessStale
<1>1. Inv => PlanMatchesStatusUnlessStale
  BY DEF Inv
<1> QED BY <1>1, Invariance, PTL
=============================================================================
