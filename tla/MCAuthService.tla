----------------------------- MODULE MCAuthService -----------------------------
EXTENDS AuthGuarantees

Calls(ops, faults, emails, n) ==
    [ops |-> ops, faults |-> faults, users |-> emails, requests |-> n]

\* Refreshing, repeating and ending sessions; resetting a password meanwhile;
\* new accounts; several ways into one account that may be disabled.
AuthScenarios ==
    LET all == Users
        one == {CHOOSE u \in Users : TRUE}
    IN  { Calls({"login", "refresh", "logout"}, {"fail"}, one, 4),
          Calls({"login", "refresh", "forgot", "reset"}, {}, one, 4),
          Calls({"register", "resend", "verify", "login", "forgot"}, {"expire", "disable"}, one, 3),
          Calls({"register", "google"}, {"fail"}, all, 3),
          Calls({"login", "google", "refresh", "logout"}, {"disable", "expire"}, one, 3) }

ResetScenarios == { Calls({"login", "forgot", "reset"}, {}, {CHOOSE u \in Users : TRUE}, 3) }
=============================================================================
