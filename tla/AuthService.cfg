\* Up to four requests of each kind of client, see AuthScenarios.
CONSTANTS
    Users = {u1, u2}
    Subjects = {g1}
    MaxRequests = 4
    None = None
    Scenarios <- AuthScenarios
SPECIFICATION FairAuthSpec
CHECK_DEADLOCK FALSE
INVARIANTS TokensWorkOnce DisabledGetsNoTokens SignedInIsVerified
PROPERTIES RevocationIsComplete ImplementsFamilies EveryRequestEnds
