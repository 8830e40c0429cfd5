\* Three deliveries of five events, one after the other or at the same time.
SPECIFICATION FairBillingSpec
CONSTANTS
    None = None
    u1 = u1
    u2 = u2
    cusA = cusA
    cusB = cusB
    s1 = s1
    s2 = s2
    Deliveries = {d1, d2, d3}
    Users = {u1, u2}
    Subs = {s1, s2}
    Events <- MCEvents
    Effect <- MCEffect
    Faults = {"statement", "commit", "answer"}
INVARIANTS AnsweredIsApplied
PROPERTIES ImplementsEvents EveryDeliveryEnds
CHECK_DEADLOCK FALSE
