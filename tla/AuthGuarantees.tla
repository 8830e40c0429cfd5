----------------------------- MODULE AuthGuarantees -----------------------------
(***************************************************************************)
(* What authentication has to guarantee, whatever its requests and their   *)
(* failures interleave to.                                                 *)
(***************************************************************************)
EXTENDS AuthService

AuthTypeOK ==
    /\ users \in [Users -> Account]
    /\ sessions \in [Reqs -> Session]
    /\ resets \in [Reqs -> Token]
    /\ links \in [Reqs -> Token]
    /\ clients \in Scenarios
    /\ reqs \in [Reqs -> Request]

-----------------------------------------------------------------------------
(* Refresh tokens.                                                          *)

OneUsablePerFamily ==
    \A s, t \in Reqs :
        Unrevoked(s) /\ Unrevoked(t) /\ sessions[s].family = sessions[t].family
        => s = t

\* The sessions of one sign-in form a chain: one of them at most is usable,
\* and each replaced one names the session of the same account and family that
\* replaced it and no other (rotate_session_by_token_hash and rotate_session,
\* for concurrent refreshes with the same token, reuse and logout).
FamilyIsChain ==
    /\ OneUsablePerFamily
    /\ \A s \in Reqs : sessions[s].state = "replaced" =>
          LET n == sessions[s].next
          IN  /\ n \in Reqs /\ sessions[n].state # "absent"
              /\ sessions[n].family = sessions[s].family
              /\ sessions[n].user = sessions[s].user
              /\ \A t \in Reqs : sessions[t].state = "replaced"
                                   /\ sessions[t].next = n => t = s

\* A revocation that commits leaves a session of the family (logout, reuse) or
\* of the account (reset) usable only when the family was being rotated while
\* the UPDATE waited, or when the session was signed in after the UPDATE had
\* started: no statement of _revoke_matching_sessions misses any other.
RevocationIsComplete ==
    [][\A r \in Reqs :
          /\ reqs[r].pc \in {"revoke", "commit"} /\ reqs'[r].pc = "done"
          /\ reqs'[r].result # "error"
          => \A s \in Reqs :
                /\ sessions'[s].state \in {"open", "expired"}
                /\ IF reqs[r].pc = "commit" THEN sessions'[s].user = User(r)
                   ELSE sessions'[s].family = sessions[Tok(r)].family
                => \/ \E t \in reqs[r].targets :
                         /\ sessions'[t].state = "replaced"
                         /\ sessions'[t].family = sessions'[s].family
                   \/ /\ reqs[r].pc = "commit"
                      /\ \A t \in reqs[r].targets :
                            sessions'[t].family # sessions'[s].family]_authVars

\* Sessions follow the abstract token families.
Families == INSTANCE TokenFamilies WITH
    Families <- Reqs,
    Tokens   <- Reqs,
    Holders  <- Users,
    Nobody   <- None,
    holder   <- [f \in Reqs |-> IF sessions[f].family = f
                                THEN sessions[f].user ELSE None],
    usable   <- [f \in Reqs |-> FamilyOf(f)],
    spent    <- [f \in Reqs |-> {s \in Reqs :
                    /\ sessions[s].state \in {"revoked", "replaced"}
                    /\ sessions[s].family = f}]

ImplementsFamilies == Families!Spec

-----------------------------------------------------------------------------
(* One-time tokens and accounts.                                            *)

\* A reset token changes one password, and a verification link signs in one
\* request, however many present it at the same time (consume_token,
\* mark_token_used).
TokensWorkOnce ==
    \A q, r \in Reqs :
        /\ reqs[q].op = reqs[r].op /\ Tok(q) = Tok(r)
        /\ \/ reqs[q].op = "reset" /\ reqs[q].result = "ok" /\ reqs[r].result = "ok"
           \/ /\ reqs[q].op = "verify"
              /\ \A x \in {q, r} : \/ reqs[x].pc \in {"verify", "open", "answer"}
                                   \/ reqs[x].result = "tokens"
        => q = r

\* A request that arrives when its account is already disabled is never given
\* tokens, by whichever way it signs in (_require_active_user, refresh).
DisabledGetsNoTokens ==
    \A r \in Reqs :
        reqs[r].result = "tokens" => sessions[r].user \notin reqs[r].barred

\* Nobody has a session of an account whose address was not confirmed by its
\* own link or by Google.
SignedInIsVerified ==
    \A s \in Reqs :
        sessions[s].state # "absent" =>
            /\ users[sessions[s].user].verified
            /\ \/ users[sessions[s].user].subject # None
               \/ reqs[sessions[s].family].op \in {"login", "verify"}

\* Every request is answered: waiting for row locks goes round in no circle.
EveryRequestEnds ==
    []<>(\A r \in Reqs : reqs[r].pc \in {"idle", "done"})

-----------------------------------------------------------------------------
(* What the code does not do.                                               *)

\* Only a reset that succeeds changes the password an account accepts
\* (reset_password replaces it atomically).  A login that verified the old
\* password writes it back after the reset, with today's hash parameters.
OnlyResetChangesPassword ==
    [][\A u \in Users :
          Exists(u) /\ users'[u].password # users[u].password
          => \E r \in Reqs : reqs[r].pc = "commit" /\ reqs'[r].result = "ok"]_authVars
=============================================================================
