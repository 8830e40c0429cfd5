----------------------------- MODULE BillingEvents -----------------------------
(***************************************************************************)
(* What billing persistence promises: every Stripe event takes effect at   *)
(* most once, and as a whole.                                              *)
(***************************************************************************)
CONSTANTS
    Events,   \* Stripe events
    Effect,   \* event -> what it says of a customer and of a subscription
    None,
    Users,
    Subs      \* Stripe subscriptions

VARIABLES
    customers,  \* user -> Stripe customer
    subs,       \* Stripe subscription -> its row
    applied     \* events that took effect

eventVars == <<customers, subs, applied>>

\* A customer belongs to one user.
Free(cus, user) == \A u \in Users \ {user} : customers[u] # cus

Row(e) == [user |-> Effect[e].user, cus |-> Effect[e].cus, status |-> Effect[e].status]
Canceled(row) == [row EXCEPT !.status = "canceled"]

EventsInit ==
    /\ customers = [u \in Users |-> None]
    /\ subs = [s \in Subs |-> None]
    /\ applied = {}

Apply(e) ==
    /\ e \notin applied
    /\ applied' = applied \cup {e}
    /\ IF Effect[e].links
       THEN /\ Free(Effect[e].cus, Effect[e].user)
            /\ customers' = [customers EXCEPT ![Effect[e].user] = Effect[e].cus]
       ELSE customers' = customers
    /\ CASE Effect[e].kind = "upsert" -> subs' = [subs EXCEPT ![Effect[e].sub] = Row(e)]
         [] Effect[e].kind = "cancel" ->
                /\ subs[Effect[e].sub] # None
                /\ subs' = [subs EXCEPT ![Effect[e].sub] = Canceled(@)]
         [] Effect[e].kind = "none" -> subs' = subs

EventsSpec == EventsInit /\ [][\E e \in Events : Apply(e)]_eventVars
=============================================================================
