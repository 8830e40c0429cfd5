------------------------------- MODULE AuthStore -------------------------------
(***************************************************************************)
(* The tables behind authentication (app/store/users.py,                   *)
(* password_resets.py, email_verifications.py): accounts, refresh          *)
(* sessions, password-reset tokens and e-mail verification links, and what *)
(* each statement does to them.  A row is named after the request that     *)
(* inserts it, and so is a password: 0 is the one an account starts with,  *)
(* r the one request r chose.                                              *)
(***************************************************************************)
EXTENDS Integers, FiniteSets

CONSTANTS
    Users,        \* normalised e-mail addresses, each of one account at most
    Subjects,     \* Google subject identifiers
    MaxRequests,  \* bound on the number of requests
    None

ASSUME MaxRequestsAssumption == MaxRequests \in Nat
ASSUME NoneAssumption == None \notin Users \cup Subjects

VARIABLES
    users,     \* users table
    sessions,  \* auth_sessions table
    resets,    \* password_reset_tokens table
    links      \* email_verification_tokens table

authTables == <<users, sessions, resets, links>>

Reqs == 1..MaxRequests
Passwords == 0..MaxRequests

Account == [provider : {"none", "password", "google"},  \* "none": no row
            password : Passwords,
            current  : BOOLEAN,   \* hashed with today's parameters
            verified : BOOLEAN,
            disabled : BOOLEAN,
            subject  : Subjects \cup {None}]

NoAccount == [provider |-> "none", password |-> 0, current |-> TRUE,
              verified |-> FALSE, disabled |-> FALSE, subject |-> None]

NoSession == [state |-> "absent", user |-> None, family |-> 0, next |-> 0]

\* state: "replaced" is a revoked row whose replaced_by_session_id (next) is
\* set.  family is the first row of the family, which gives it its uuid.
Session == {NoSession} \cup
           [state  : {"open", "expired", "revoked", "replaced"},
            user   : Users,
            family : Reqs,
            next   : Passwords]

NoToken == [state |-> "absent", user |-> None]

Token == {NoToken} \cup [state : {"pending", "expired", "used"}, user : Users]

AuthStoreInit ==
    /\ users \in [Users -> {NoAccount}
                     \cup {[NoAccount EXCEPT !.provider = "password",
                                             !.current = c, !.verified = TRUE] :
                              c \in BOOLEAN}]
    /\ sessions = [s \in Reqs |-> NoSession]
    /\ resets = [t \in Reqs |-> NoToken]
    /\ links = [t \in Reqs |-> NoToken]

-----------------------------------------------------------------------------
(* Users.                                                                   *)

Exists(u) == users[u].provider # "none"

\* get_user_by_google_sub
WithSubject(g) == {u \in Users : users[u].subject = g}

\* create_user: email and google_sub are unique.
Conflicts(u, g) == Exists(u) \/ (g # None /\ WithSubject(g) # {})

\* update_password_hash writes whatever hash it is given.
WithPassword(u, p) ==
    [users EXCEPT ![u] = [@ EXCEPT !.password = p, !.current = TRUE]]

-----------------------------------------------------------------------------
(* Sessions.  A revoking statement finds rows whose revoked_at is null when *)
(* it starts, and revokes those of them that still qualify once it holds    *)
(* their locks (READ COMMITTED): it never sees a row inserted meanwhile.    *)

Unrevoked(s) == sessions[s].state \in {"open", "expired"}

FamilyOf(f) == {s \in Reqs : Unrevoked(s) /\ sessions[s].family = f}
SessionsOf(u) == {s \in Reqs : Unrevoked(s) /\ sessions[s].user = u}

Revoked(targets) ==
    [s \in Reqs |->
        IF s \in targets /\ Unrevoked(s)
        THEN [sessions[s] EXCEPT !.state = "revoked"] ELSE sessions[s]]

\* create_session of a new family
Opened(s, u) ==
    [sessions EXCEPT ![s] = [NoSession EXCEPT !.state = "open", !.user = u,
                                              !.family = s]]

\* Mutant: the replacement starts a family of its own.
RotatedApart(s, new) ==
    [sessions EXCEPT ![s] = [@ EXCEPT !.state = "replaced", !.next = new],
                     ![new] = [NoSession EXCEPT !.state = "open",
                                   !.user = sessions[s].user, !.family = new]]

\* rotate_session inserts the replacement and revokes the current row.
Rotated(s, new) ==
    [sessions EXCEPT ![s] = [@ EXCEPT !.state = "replaced", !.next = new],
                     ![new] = [NoSession EXCEPT !.state = "open",
                                   !.user = sessions[s].user,
                                   !.family = sessions[s].family]]

-----------------------------------------------------------------------------
(* One-time tokens of both kinds.                                           *)

Pending(table, u) ==
    {t \in Reqs : table[t].state \in {"pending", "expired"} /\ table[t].user = u}

Used(table, targets) ==
    [t \in Reqs |->
        IF t \in targets THEN [table[t] EXCEPT !.state = "used"] ELSE table[t]]

Issued(table, t, u) == [table EXCEPT ![t] = [state |-> "pending", user |-> u]]
=============================================================================
