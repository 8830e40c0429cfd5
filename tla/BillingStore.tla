------------------------------ MODULE BillingStore ------------------------------
(***************************************************************************)
(* Deliveries of Stripe events through the billing store, each one         *)
(* transaction of its caller: record_billing_event, the event's effects,   *)
(* mark_billing_event_processed, commit.  The caller is external.  A       *)
(* statement sees what is committed and what its transaction wrote; it     *)
(* waits for another transaction that wrote the same row or unique value.  *)
(***************************************************************************)
EXTENDS FiniteSets

CONSTANTS
    Deliveries,  \* bound on deliveries and their repetitions
    Events, Effect, None,
    Users,       \* their rows exist: no operation deletes a user
    Subs,
    Faults       \* of "statement", "commit", "answer"

ASSUME BillingNoneAssumption == None \notin Users \cup Subs \cup Events \cup {"ok"}
ASSUME EffectAssumption ==
    \A e \in Events :
        /\ Effect[e].links \in BOOLEAN
        /\ Effect[e].user \in Users /\ Effect[e].cus # None
        /\ Effect[e].kind \in {"upsert", "cancel", "none"}
        /\ Effect[e].kind # "none" => Effect[e].sub \in Subs

VARIABLES
    customers,  \* billing_customers: user -> stripe_customer_id
    subs,       \* subscriptions: stripe_subscription_id -> row
    events,     \* billing_events: "none", "recorded", "processed"
    tx,         \* delivery -> its transaction
    applied     \* history: events whose effects were committed

billingVars == <<customers, subs, events, tx, applied>>

\* writes: what the open transaction wrote, by kind of row.
NoWrites == [event |-> None, user |-> None, cus |-> None, sub |-> None, row |-> None]
NewTx == [pc |-> "idle", event |-> None, writes |-> NoWrites, answer |-> None]

BillingInit ==
    /\ customers = [u \in Users |-> None]
    /\ subs = [s \in Subs |-> None]
    /\ events = [e \in Events |-> "none"]
    /\ tx = [d \in Deliveries |-> NewTx]
    /\ applied = {}

-----------------------------------------------------------------------------
At(d, pc) == tx[d].pc = pc
Of(d) == Effect[tx[d].event]
Others(d) == {o \in Deliveries \ {d} : tx[o].writes # NoWrites}
Recorded(d) == events[tx[d].event] # "none"
tables == <<customers, subs, events, applied>>

Goto(d, pc) == tx' = [tx EXCEPT ![d].pc = pc]
Close(d, answer) ==
    tx' = [tx EXCEPT ![d] = [@ EXCEPT !.pc = "done", !.writes = NoWrites,
                                      !.answer = answer]]
\* An exception leaves the transaction: everything it wrote is rolled back.
Rollback(d) == Close(d, "error")

\* The effects of an event in the order in which they are written.
AfterRecord(d) == IF Of(d).links THEN "customer" ELSE "sub"
AfterCustomer == "sub"

\* Another transaction wrote this user's row or this customer, or is about to
\* give the customer up.
CustomerHeld(d) ==
    \E o \in Others(d) :
        /\ tx[o].writes.user # None
        /\ \/ tx[o].writes.user = Of(d).user
           \/ Of(d).cus \in {tx[o].writes.cus, customers[tx[o].writes.user]}
SubHeld(d) == \E o \in Others(d) : tx[o].writes.sub = Of(d).sub
LinkedToOther(d) == \E u \in Users \ {Of(d).user} : customers[u] = Of(d).cus

WriteCustomer(d, pc) ==
    tx' = [tx EXCEPT ![d] = [@ EXCEPT !.pc = pc,
              !.writes = [tx[d].writes EXCEPT !.user = Of(d).user,
                                              !.cus = Of(d).cus]]]
WriteSub(d, row) ==
    tx' = [tx EXCEPT ![d] = [@ EXCEPT !.pc = "mark",
              !.writes = [tx[d].writes EXCEPT !.sub = Of(d).sub, !.row = row]]]
WriteEvent(d) ==
    tx' = [tx EXCEPT ![d] = [@ EXCEPT !.pc = AfterRecord(d),
              !.writes = [tx[d].writes EXCEPT !.event = tx[d].event]]]
Values(d) == [user |-> Of(d).user, cus |-> Of(d).cus, status |-> Of(d).status]

-----------------------------------------------------------------------------
\* Stripe sends an event, also one it sent before.
Deliver(d) ==
    /\ At(d, "idle")
    /\ \E e \in Events : tx' = [tx EXCEPT ![d] = [@ EXCEPT !.pc = "record", !.event = e]]
    /\ UNCHANGED tables

\* Mutant: an event that exists is processed again.
RecordAgain(d) ==
    /\ At(d, "record")
    /\ \A o \in Others(d) : tx[o].writes.event # tx[d].event
    /\ WriteEvent(d)
    /\ UNCHANGED tables

\* Mutant: the insert does not wait for another one that may be rolled back.
RecordAtOnce(d) ==
    /\ At(d, "record")
    /\ IF \/ Recorded(d)
          \/ \E o \in Others(d) : tx[o].writes.event = tx[d].event
       THEN Goto(d, "commit")
       ELSE WriteEvent(d)
    /\ UNCHANGED tables

\* record_billing_event: the unique index decides who processes the event, and
\* its insert waits for one that is not committed yet.
Record(d) ==
    /\ At(d, "record")
    /\ \A o \in Others(d) : tx[o].writes.event # tx[d].event
    /\ IF Recorded(d) THEN Goto(d, "commit")
       ELSE WriteEvent(d)
    /\ UNCHANGED tables

\* get_billing_customer_by_user_id
ReadCustomer(d) ==
    /\ At(d, "customer")
    /\ Goto(d, IF customers[Of(d).user] # None THEN "update_customer"
               ELSE "insert_customer")
    /\ UNCHANGED tables

\* set_stripe_customer: the insert in its savepoint.
InsertCustomer(d) ==
    /\ At(d, "insert_customer") /\ ~CustomerHeld(d)
    /\ IF customers[Of(d).user] # None \/ LinkedToOther(d)
       THEN Goto(d, "reread_customer")
       ELSE WriteCustomer(d, AfterCustomer)
    /\ UNCHANGED tables

\* After the conflict: the user's row is updated, a customer that is linked to
\* another user, or is no longer there, is an error.
RereadCustomer(d) ==
    /\ At(d, "reread_customer")
    /\ IF customers[Of(d).user] # None THEN Goto(d, "update_customer") ELSE Rollback(d)
    /\ UNCHANGED tables

\* _update_billing_customer: outside a savepoint, so a conflict is the end.
UpdateCustomer(d) ==
    /\ At(d, "update_customer") /\ ~CustomerHeld(d)
    /\ IF LinkedToOther(d) THEN Rollback(d) ELSE WriteCustomer(d, AfterCustomer)
    /\ UNCHANGED tables

\* get_subscription_by_stripe_subscription_id, for an upsert.
ReadSub(d) ==
    /\ At(d, "sub") /\ Of(d).kind = "upsert"
    /\ Goto(d, IF subs[Of(d).sub] # None THEN "update_sub" ELSE "insert_sub")
    /\ UNCHANGED tables

\* Mutant: after a conflict the insert is tried again.
InsertSubAgain(d) ==
    /\ At(d, "insert_sub") /\ ~SubHeld(d)
    /\ IF subs[Of(d).sub] # None THEN Goto(d, "insert_sub") ELSE WriteSub(d, Values(d))
    /\ UNCHANGED tables

\* upsert_subscription: the insert in its savepoint; the conflicting row is
\* committed and is updated instead.  The subscription is the only unique
\* value, so "a different subscription" is never found.
InsertSub(d) ==
    /\ At(d, "insert_sub") /\ ~SubHeld(d)
    /\ IF subs[Of(d).sub] # None THEN Goto(d, "update_sub") ELSE WriteSub(d, Values(d))
    /\ UNCHANGED tables

\* _update_subscription
UpdateSub(d) ==
    /\ At(d, "update_sub") /\ ~SubHeld(d)
    /\ WriteSub(d, Values(d))
    /\ UNCHANGED tables

\* mark_subscription_canceled: an update, which waits for a row that is being
\* updated and does not see one that is being inserted.
CancelSub(d) ==
    /\ At(d, "sub") /\ Of(d).kind = "cancel"
    /\ IF subs[Of(d).sub] = None THEN Rollback(d)
       ELSE ~SubHeld(d) /\ WriteSub(d, [subs[Of(d).sub] EXCEPT !.status = "canceled"])
    /\ UNCHANGED tables

\* An event that says nothing of a subscription.
SkipSub(d) ==
    /\ At(d, "sub") /\ Of(d).kind = "none"
    /\ Goto(d, "mark")
    /\ UNCHANGED tables

\* mark_billing_event_processed: the row is this transaction's own.
MarkProcessed(d) ==
    /\ At(d, "mark")
    /\ Goto(d, "commit")
    /\ UNCHANGED tables

\* The caller's commit, which may succeed without an answer to Stripe.
Commit(d) ==
    /\ At(d, "commit")
    /\ LET w == tx[d].writes
       IN  /\ customers' = [u \in Users |-> IF u = w.user THEN w.cus ELSE customers[u]]
           /\ subs' = [s \in Subs |-> IF s = w.sub THEN w.row ELSE subs[s]]
           /\ events' = [e \in Events |-> IF e = w.event THEN "processed" ELSE events[e]]
           /\ applied' = IF w.event = None THEN applied ELSE applied \cup {w.event}
    /\ \/ Close(d, "ok")
       \/ "answer" \in Faults /\ Close(d, "lost")

\* A statement or the commit fails, or the process ends.
Fail(d) ==
    /\ \/ "statement" \in Faults /\ tx[d].pc \notin {"idle", "commit", "done"}
       \/ "commit" \in Faults /\ At(d, "commit")
    /\ Rollback(d)
    /\ UNCHANGED tables

Handle(d) ==
    \/ Record(d) \/ ReadCustomer(d) \/ InsertCustomer(d) \/ RereadCustomer(d)
    \/ UpdateCustomer(d) \/ ReadSub(d) \/ InsertSub(d) \/ UpdateSub(d)
    \/ CancelSub(d) \/ SkipSub(d) \/ MarkProcessed(d) \/ Commit(d)

BillingNext == \E d \in Deliveries : Deliver(d) \/ Handle(d) \/ Fail(d)

BillingSpec == BillingInit /\ [][BillingNext]_billingVars

\* Statements and transactions that can go on do.
FairBillingSpec == BillingSpec /\ \A d \in Deliveries : WF_billingVars(Handle(d))

-----------------------------------------------------------------------------
\* Whatever arrives twice, at the same time or after a failure: each event takes
\* effect once at most and as a whole, an upsert that raced another one writes
\* what it says, and no customer comes to belong to two users
\* (record_billing_event, set_stripe_customer, upsert_subscription).
Abstract == INSTANCE BillingEvents
ImplementsEvents == Abstract!EventsSpec

\* Stripe does not send an event again that was answered with success, so its
\* effects must be there: a repetition may not be answered while the first
\* delivery can still be rolled back (record_billing_event, should_process).
AnsweredIsApplied ==
    \A d \in Deliveries : tx[d].answer = "ok" => tx[d].event \in applied

\* No delivery waits for ever: transactions that wait for each other's rows, or
\* a conflict that is met again, would keep one open.
EveryDeliveryEnds == \A d \in Deliveries : ~At(d, "idle") ~> At(d, "done")
=============================================================================
