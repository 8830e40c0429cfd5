----------------------------- MODULE MCBillingStore -----------------------------
(***************************************************************************)
(* A checkout that links a customer and starts a subscription, a change    *)
(* and the end of that subscription, and a checkout and a link that want   *)
(* the customer for another user or another customer for the same one.     *)
(***************************************************************************)
EXTENDS BillingStore

CONSTANTS u1, u2, cusA, cusB, s1, s2

Event(links, user, cus, kind, sub, status) ==
    [links |-> links, user |-> user, cus |-> cus, kind |-> kind, sub |-> sub,
     status |-> status]

MCEffect ==
    [start  |-> Event(TRUE, u1, cusA, "upsert", s1, "active"),
     change |-> Event(FALSE, u1, cusA, "upsert", s1, "past_due"),
     end    |-> Event(FALSE, u1, cusA, "cancel", s1, "canceled"),
     take   |-> Event(TRUE, u2, cusA, "upsert", s2, "trialing"),
     link   |-> Event(TRUE, u1, cusB, "none", None, None)]
MCEvents == DOMAIN MCEffect
=============================================================================
