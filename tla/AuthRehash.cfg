\* A password reset while a login of the same account is under way.
CONSTANTS
    Users = {u1, u2}
    Subjects = {g1}
    MaxRequests = 4
    None = None
    Scenarios <- ResetScenarios
SPECIFICATION FairAuthSpec
CHECK_DEADLOCK FALSE
PROPERTIES OnlyResetChangesPassword
