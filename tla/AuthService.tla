------------------------------ MODULE AuthService ------------------------------
(***************************************************************************)
(* The authentication endpoints (app/auth/service.py, password_reset.py,   *)
(* email_verification.py over transactional_store.py).  A request is a     *)
(* process that takes one step for each transaction, and two for those     *)
(* whose statements can wait for another transaction's row lock or miss a  *)
(* row it inserts.  Clients present any token they were ever given.        *)
(***************************************************************************)
EXTENDS AuthStore

CONSTANT Scenarios  \* what clients do and what fails; one is fixed in Init

VARIABLES
    clients,   \* the scenario of this behaviour
    reqs       \* one record for each request, in the order of their arrival

authVars == <<authTables, clients, reqs>>

Ops == {"register", "resend", "verify", "login", "google", "refresh",
        "logout", "forgot", "reset"}
Faults == {"fail", "expire", "disable"}

ASSUME ScenariosAssumption ==
    Scenarios \subseteq [ops : SUBSET Ops, faults : SUBSET Faults,
                         users : SUBSET Users, requests : Nat]

Pcs == {"idle", "read", "rehash", "open", "by_email", "create", "conflict",
        "refind", "lock", "rotate", "evict", "revoke_start", "revoke", "unsend",
        "issue", "mail", "consume", "verify", "commit", "answer", "done"}

Results == {"none", "ok", "tokens", "rejected", "link", "error"}

Request == [op       : Ops \cup {"none"},
            pc       : Pcs,
            user     : Users \cup {None},
            token    : Passwords,              \* the token presented; 0: unknown
            password : Passwords,              \* the password typed or chosen
            subject  : Subjects \cup {None},
            targets  : SUBSET Reqs,            \* rows a waiting statement found
            barred   : SUBSET Users,           \* accounts disabled on arrival
            result   : Results]

NoRequest == [op |-> "none", pc |-> "idle", user |-> None, token |-> 0,
              password |-> 0, subject |-> None, targets |-> {}, barred |-> {},
              result |-> "none"]

AuthInit ==
    /\ AuthStoreInit
    /\ clients \in Scenarios
    /\ \A u \in Users \ clients.users : ~Exists(u)
    /\ reqs = [r \in Reqs |-> NoRequest]

-----------------------------------------------------------------------------
Is(r, op, pc) == reqs[r].op \in op /\ reqs[r].pc = pc
User(r) == reqs[r].user
Tok(r) == reqs[r].token

GoOn(r, pc) == reqs' = [reqs EXCEPT ![r] = [@ EXCEPT !.pc = pc]]
GoOnFor(r, pc, u) ==
    reqs' = [reqs EXCEPT ![r] = [@ EXCEPT !.pc = pc, !.user = u]]
Waiting(r, pc, u, rows) ==
    reqs' = [reqs EXCEPT ![r] = [@ EXCEPT !.pc = pc, !.user = u,
                                          !.targets = rows]]
End(r, result) ==
    reqs' = [reqs EXCEPT ![r] = [@ EXCEPT !.pc = "done", !.targets = {},
                                          !.result = result]]

\* Row locks that transactions hold between two of their steps: a rotation
\* its session; a reset its token and its account.
LockedSessions == {Tok(r) : r \in {q \in Reqs : reqs[q].pc \in {"rotate", "evict"}}}
LockedResets == {Tok(r) : r \in {q \in Reqs : reqs[q].pc = "commit"}}
LockedUsers == {User(r) : r \in {q \in Reqs : reqs[q].pc = "commit"}}

-----------------------------------------------------------------------------
(* Clients.                                                                 *)

GivenSessions == {s \in Reqs : reqs[s].result = "tokens"}
GivenTokens(table) ==
    {t \in Reqs : table[t].state # "absent" /\ reqs[t].pc # "mail"}

FirstStep(op) ==
    CASE op = "register" -> "create"
      [] op = "refresh" -> "lock"
      [] op = "reset" -> "consume"
      [] OTHER -> "read"

\* What the body of a request, its cookie or its link may hold.
New(op) == [NoRequest EXCEPT !.op = op, !.pc = FirstStep(op),
                             !.barred = {u \in Users : users[u].disabled}]

PasswordsFor(r, op) == CASE op = "register" -> {r}
                         [] op = "login" -> 0..(r - 1)
                         [] OTHER -> {0}

SubjectsFor(op) == IF op = "google" THEN Subjects ELSE {None}

TokensFor(op) == CASE op = "verify" -> GivenTokens(links)
                   [] op = "reset" -> GivenTokens(resets)
                   [] OTHER -> GivenSessions \cup {0}

Bodies(r, op) == [user : clients.users, password : PasswordsFor(r, op),
                  subject : SubjectsFor(op)]

Named(r, op) ==
    {[New(op) EXCEPT !.user = b.user, !.password = b.password,
                     !.subject = b.subject] : b \in Bodies(r, op)}

Bearing(r, op) ==
    {[New(op) EXCEPT !.token = t, !.password = IF op = "reset" THEN r ELSE 0] :
        t \in TokensFor(op)}

Inputs(r, op) == IF op \in {"refresh", "logout", "verify", "reset"}
                 THEN Bearing(r, op) ELSE Named(r, op)

Arrive(r) ==
    /\ reqs[r].pc = "idle" /\ r <= clients.requests
    /\ \A q \in 1..(r - 1) : reqs[q].pc # "idle"
    /\ \E op \in clients.ops : \E q \in Inputs(r, op) :
           reqs' = [reqs EXCEPT ![r] = q]
    /\ UNCHANGED <<authTables, clients>>

-----------------------------------------------------------------------------
(* Sign-in with a password, with Google, with a verification link.         *)

\* Mutant: an account whose address is not confirmed may sign in.
ReadLoginUnverified(r) ==
    /\ Is(r, {"login"}, "read")
    /\ LET a == users[User(r)]
       IN  IF a.provider # "password" \/ a.password # reqs[r].password \/ a.disabled
           THEN End(r, "rejected")
           ELSE GoOn(r, IF a.current THEN "open" ELSE "rehash")
    /\ UNCHANGED <<authTables, clients>>

\* login_with_password reads the account, verifies the password on that
\* reading and checks the account.
ReadLogin(r) ==
    /\ Is(r, {"login"}, "read")
    /\ LET a == users[User(r)]
       IN  IF \/ a.provider # "password" \/ a.password # reqs[r].password
              \/ a.disabled \/ ~a.verified
           THEN End(r, "rejected")
           ELSE GoOn(r, IF a.current THEN "open" ELSE "rehash")
    /\ UNCHANGED <<authTables, clients>>

\* The hash of the password that was typed, with today's parameters.
Rehash(r) ==
    /\ Is(r, {"login"}, "rehash") /\ User(r) \notin LockedUsers
    /\ users' = WithPassword(User(r), reqs[r].password)
    /\ GoOn(r, "open")
    /\ UNCHANGED <<sessions, resets, links, clients>>

\* create_session, in a family of its own
Open(r) ==
    /\ reqs[r].pc = "open"
    /\ sessions' = Opened(r, User(r))
    /\ GoOn(r, "answer")
    /\ UNCHANGED <<users, resets, links, clients>>

\* The tokens reach the client.
Answer(r) ==
    /\ reqs[r].pc = "answer"
    /\ End(r, "tokens")
    /\ UNCHANGED <<authTables, clients>>

\* get_user_by_google_sub, first (login_with_google) or after a conflict
\* (_resolve_google_creation_conflict)
ReadSubject(r) ==
    /\ reqs[r].op = "google" /\ reqs[r].pc \in {"read", "conflict"}
    /\ LET found == WithSubject(reqs[r].subject)
       IN  IF found = {}
           THEN GoOn(r, IF reqs[r].pc = "read" THEN "by_email" ELSE "refind")
           ELSE \E u \in found :
                    IF users[u].disabled THEN End(r, "rejected")
                    ELSE GoOnFor(r, "open", u)
    /\ UNCHANGED <<authTables, clients>>

\* get_user_by_email: an account with this address is never linked.
ReadEmail(r) ==
    /\ reqs[r].pc \in {"by_email", "refind"}
    /\ IF Exists(User(r)) THEN End(r, "link")
       ELSE IF reqs[r].pc = "by_email" THEN GoOn(r, "create")
       ELSE End(r, "error")
    /\ UNCHANGED <<authTables, clients>>

\* create_google_user_with_session inserts both rows in one transaction.
CreateGoogleUser(r) ==
    /\ Is(r, {"google"}, "create")
    /\ IF Conflicts(User(r), reqs[r].subject)
       THEN GoOn(r, "conflict") /\ UNCHANGED <<users, sessions>>
       ELSE /\ users' = [users EXCEPT ![User(r)] =
                            [NoAccount EXCEPT !.provider = "google",
                                !.verified = TRUE, !.subject = reqs[r].subject]]
            /\ sessions' = Opened(r, User(r))
            /\ GoOn(r, "answer")
    /\ UNCHANGED <<resets, links, clients>>

-----------------------------------------------------------------------------
(* Refresh and logout.                                                      *)

\* rotate_session_by_token_hash: SELECT ... FOR UPDATE, and what follows from
\* the row.  A revoked row starts the revocation of its family; that the
\* transaction keeps the revoked row locked is no obstacle to anybody.
LockSession(r) ==
    /\ Is(r, {"refresh"}, "lock") /\ Tok(r) \notin LockedSessions
    /\ IF Tok(r) = 0 THEN End(r, "rejected") /\ UNCHANGED sessions
       ELSE LET row == sessions[Tok(r)]
            IN  CASE row.state \in {"revoked", "replaced"} ->
                       /\ Waiting(r, "revoke", row.user, FamilyOf(row.family))
                       /\ UNCHANGED sessions
                  [] row.state = "expired" ->
                       /\ sessions' = Revoked({Tok(r)})
                       /\ End(r, "rejected")
                  [] OTHER ->
                       /\ GoOnFor(r, IF users[row.user].disabled
                                     THEN "evict" ELSE "rotate", row.user)
                       /\ UNCHANGED sessions
    /\ UNCHANGED <<users, resets, links, clients>>

\* Mutant: the rotation also writes to the account, whose row it locks second.
RotateTouchingUser(r) ==
    /\ reqs[r].pc \in {"rotate", "evict"} /\ User(r) \notin LockedUsers
    /\ IF Unrevoked(Tok(r))
       THEN /\ sessions' = Rotated(Tok(r), r)
            /\ GoOn(r, IF reqs[r].pc = "rotate" THEN "answer" ELSE "revoke_start")
       ELSE End(r, "error") /\ UNCHANGED sessions
    /\ UNCHANGED <<users, resets, links, clients>>

\* rotate_session, and the commit
Rotate(r) ==
    /\ reqs[r].pc \in {"rotate", "evict"}
    /\ IF Unrevoked(Tok(r))
       THEN /\ sessions' = Rotated(Tok(r), r)
            /\ GoOn(r, IF reqs[r].pc = "rotate" THEN "answer" ELSE "revoke_start")
       ELSE End(r, "error") /\ UNCHANGED sessions
    /\ UNCHANGED <<users, resets, links, clients>>

\* logout finds the family of the token, whatever the state of the row.
FindSession(r) ==
    /\ Is(r, {"logout"}, "read")
    /\ IF Tok(r) = 0 THEN End(r, "ok") ELSE GoOn(r, "revoke_start")
    /\ UNCHANGED <<authTables, clients>>

\* Mutant: logout revokes the presented session only.
StartRevokeOne(r) ==
    /\ reqs[r].pc = "revoke_start"
    /\ Waiting(r, "revoke", User(r),
               {Tok(r)} \cap FamilyOf(sessions[Tok(r)].family))
    /\ UNCHANGED <<authTables, clients>>

\* The UPDATE of _revoke_matching_sessions starts: of the family (logout), or
\* of all sessions of a disabled user (refresh).
StartRevoke(r) ==
    /\ reqs[r].pc = "revoke_start"
    /\ Waiting(r, "revoke", User(r),
               IF reqs[r].op = "logout" THEN FamilyOf(sessions[Tok(r)].family)
               ELSE SessionsOf(User(r)))
    /\ UNCHANGED <<authTables, clients>>

EndRevoke(r) ==
    /\ reqs[r].pc = "revoke" /\ reqs[r].targets \cap LockedSessions = {}
    /\ sessions' = Revoked(reqs[r].targets)
    /\ End(r, IF reqs[r].op = "logout" THEN "ok" ELSE "rejected")
    /\ UNCHANGED <<users, resets, links, clients>>

-----------------------------------------------------------------------------
(* Password reset.                                                          *)

\* request_password_reset answers every address alike.
ReadForgot(r) ==
    /\ Is(r, {"forgot"}, "read")
    /\ IF users[User(r)].provider # "password" \/ users[User(r)].disabled
       THEN End(r, "ok") ELSE GoOn(r, "unsend")
    /\ UNCHANGED <<authTables, clients>>

\* create_password_reset_token: the UPDATE of the pending tokens starts ...
StartReplace(r) ==
    /\ Is(r, {"forgot"}, "unsend")
    /\ Waiting(r, "issue", User(r), Pending(resets, User(r)))
    /\ UNCHANGED <<authTables, clients>>

\* ... and commits with the new token.
EndReplace(r) ==
    /\ Is(r, {"forgot"}, "issue") /\ reqs[r].targets \cap LockedResets = {}
    /\ resets' = Issued(Used(resets, reqs[r].targets), r, User(r))
    /\ GoOn(r, "mail")
    /\ UNCHANGED <<users, sessions, links, clients>>

\* Mutant: whether the token is still unused is not part of the statement.
ConsumeAgain(r) ==
    /\ Is(r, {"reset"}, "consume")
    /\ LET u == resets[Tok(r)].user
       IN  u \notin LockedUsers /\ Waiting(r, "commit", u, SessionsOf(u))
    /\ UNCHANGED <<authTables, clients>>

\* reset_password_with_token consumes the token, writes the password and
\* starts to revoke the sessions of the account, in one transaction.
Consume(r) ==
    /\ Is(r, {"reset"}, "consume") /\ Tok(r) \notin LockedResets
    /\ LET u == resets[Tok(r)].user
       IN  IF resets[Tok(r)].state # "pending" THEN End(r, "rejected")
           ELSE u \notin LockedUsers /\ Waiting(r, "commit", u, SessionsOf(u))
    /\ UNCHANGED <<authTables, clients>>

CommitReset(r) ==
    /\ reqs[r].pc = "commit" /\ reqs[r].targets \cap LockedSessions = {}
    /\ resets' = Used(resets, {Tok(r)})
    /\ users' = WithPassword(User(r), reqs[r].password)
    /\ sessions' = Revoked(reqs[r].targets)
    /\ End(r, "ok")
    /\ UNCHANGED <<links, clients>>

-----------------------------------------------------------------------------
(* Registration and e-mail verification.                                    *)

\* create_password_user; a taken address is refused.
Create(r) ==
    /\ Is(r, {"register"}, "create")
    /\ IF Conflicts(User(r), None) THEN End(r, "rejected") /\ UNCHANGED users
       ELSE /\ users' = [users EXCEPT ![User(r)] =
                            [NoAccount EXCEPT !.provider = "password",
                                              !.password = reqs[r].password]]
            /\ GoOn(r, "unsend")
    /\ UNCHANGED <<sessions, resets, links, clients>>

ReadResend(r) ==
    /\ Is(r, {"resend"}, "read")
    /\ LET a == users[User(r)]
       IN  IF ~Exists(User(r)) \/ a.disabled \/ a.verified THEN End(r, "ok")
           ELSE GoOn(r, "unsend")
    /\ UNCHANGED <<authTables, clients>>

\* send_verification_email: two transactions, then the mail
RevokeLinks(r) ==
    /\ Is(r, {"register", "resend"}, "unsend")
    /\ links' = Used(links, Pending(links, User(r)))
    /\ GoOn(r, "issue")
    /\ UNCHANGED <<users, sessions, resets, clients>>

CreateLink(r) ==
    /\ Is(r, {"register", "resend"}, "issue")
    /\ links' = Issued(links, r, User(r))
    /\ GoOn(r, "mail")
    /\ UNCHANGED <<users, sessions, resets, clients>>

Mail(r) ==
    /\ reqs[r].pc = "mail"
    /\ End(r, "ok")
    /\ UNCHANGED <<authTables, clients>>

\* verify_email_token reads the link,
ReadLink(r) ==
    /\ Is(r, {"verify"}, "read")
    /\ IF links[Tok(r)].state # "pending" THEN End(r, "rejected")
       ELSE GoOnFor(r, "consume", links[Tok(r)].user)
    /\ UNCHANGED <<authTables, clients>>

\* marks it used, unless another request was faster,
UseLink(r) ==
    /\ Is(r, {"verify"}, "consume")
    /\ IF links[Tok(r)].state = "used" THEN End(r, "error") /\ UNCHANGED links
       ELSE links' = Used(links, {Tok(r)}) /\ GoOn(r, "verify")
    /\ UNCHANGED <<users, sessions, resets, clients>>

\* Mutant: the session is opened before disabled_at is looked at.
VerifyUserUnchecked(r) ==
    /\ reqs[r].pc = "verify"
    /\ users' = [users EXCEPT ![User(r)] = [@ EXCEPT !.verified = TRUE]]
    /\ GoOn(r, "open")
    /\ UNCHANGED <<sessions, resets, links, clients>>

\* and verifies the account in a third transaction.
VerifyUser(r) ==
    /\ reqs[r].pc = "verify" /\ User(r) \notin LockedUsers
    /\ users' = [users EXCEPT ![User(r)] = [@ EXCEPT !.verified = TRUE]]
    /\ IF users[User(r)].disabled THEN End(r, "rejected") ELSE GoOn(r, "open")
    /\ UNCHANGED <<sessions, resets, links, clients>>

-----------------------------------------------------------------------------
(* What fails, and what happens to rows meanwhile.                          *)

\* A transaction is rolled back, SMTP refuses, the request is cancelled, or
\* the answer is lost: what was committed stays, and the client learns nothing.
Fail(r) ==
    /\ "fail" \in clients.faults
    /\ reqs[r].pc \notin {"idle", "done"}
    /\ End(r, "error")
    /\ UNCHANGED <<authTables, clients>>

ExpireSession(s) ==
    /\ "expire" \in clients.faults
    /\ sessions[s].state = "open"
    /\ sessions' = [sessions EXCEPT ![s] = [@ EXCEPT !.state = "expired"]]
    /\ UNCHANGED <<users, resets, links, clients, reqs>>

ExpireReset(t) ==
    /\ "expire" \in clients.faults
    /\ resets[t].state = "pending"
    /\ resets' = [resets EXCEPT ![t] = [@ EXCEPT !.state = "expired"]]
    /\ UNCHANGED <<users, sessions, links, clients, reqs>>

ExpireLink(t) ==
    /\ "expire" \in clients.faults
    /\ links[t].state = "pending"
    /\ links' = [links EXCEPT ![t] = [@ EXCEPT !.state = "expired"]]
    /\ UNCHANGED <<users, sessions, resets, clients, reqs>>

\* An operator sets disabled_at; no code of the application does.
Disable(u) ==
    /\ "disable" \in clients.faults
    /\ Exists(u) /\ ~users[u].disabled
    /\ users' = [users EXCEPT ![u] = [@ EXCEPT !.disabled = TRUE]]
    /\ UNCHANGED <<sessions, resets, links, clients, reqs>>

-----------------------------------------------------------------------------
Proceed(r) ==
    \/ ReadLogin(r) \/ Rehash(r) \/ Open(r) \/ Answer(r)
    \/ ReadSubject(r) \/ ReadEmail(r) \/ CreateGoogleUser(r)
    \/ LockSession(r) \/ Rotate(r)
    \/ FindSession(r) \/ StartRevoke(r) \/ EndRevoke(r)
    \/ ReadForgot(r) \/ StartReplace(r) \/ EndReplace(r)
    \/ Consume(r) \/ CommitReset(r)
    \/ Create(r) \/ ReadResend(r) \/ RevokeLinks(r) \/ CreateLink(r) \/ Mail(r)
    \/ ReadLink(r) \/ UseLink(r) \/ VerifyUser(r)

Environment ==
    \/ \E r \in Reqs : Fail(r) \/ ExpireSession(r) \/ ExpireReset(r) \/ ExpireLink(r)
    \/ \E u \in Users : Disable(u)

AuthNext == (\E r \in Reqs : Arrive(r) \/ Proceed(r)) \/ Environment

AuthSpec == AuthInit /\ [][AuthNext]_authVars

\* A request runs on as long as its process lives, and PostgreSQL grants a
\* lock that is free; nothing obliges a client to call, or time to expire.
FairAuthSpec == AuthSpec /\ \A r \in Reqs : WF_authVars(Proceed(r))
=============================================================================
