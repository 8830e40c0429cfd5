--------------------------- MODULE AuthServiceProofs ---------------------------
(***************************************************************************)
(* Types, refresh-token families, one-time tokens and disabled accounts,   *)
(* for every value of the constants.  A step changes the sessions in one   *)
(* of five ways (SessionsMove), each of which preserves the chains and is  *)
(* a step of TokenFamilies; the requests that do not step keep what they   *)
(* know, because the tables only grow (Grows).  The last section follows   *)
(* the UPDATE of a revocation from the rows it found to its commit.        *)
(***************************************************************************)
EXTENDS AuthGuarantees, TLAPS

-----------------------------------------------------------------------------
(* The inductive invariant.                                                 *)

\* A session row has the account of its family's first row, which exists.
FamiliesRooted ==
    \A s \in Reqs : sessions[s].state # "absent" =>
        LET f == sessions[s].family
        IN  /\ sessions[f].state # "absent"
            /\ sessions[f].family = f
            /\ sessions[f].user = sessions[s].user

SessionInv == FamilyIsChain /\ FamiliesRooted

\* What an account has tells that it exists.
AccountInv ==
    \A u \in Users :
        /\ users[u].disabled \/ users[u].verified => Exists(u)
        /\ users[u].subject # None => users[u].verified

\* One-time tokens are issued to accounts.
OwnersInv ==
    \A t \in Reqs :
        /\ links[t].state # "absent" => Exists(links[t].user)
        /\ resets[t].state # "absent" => Exists(resets[t].user)

\* The course of each kind of request.
OnCourse(op, pc) ==
    \/ op = "register" /\ pc \in {"create", "unsend", "issue", "mail"}
    \/ op = "resend" /\ pc \in {"read", "unsend", "issue", "mail"}
    \/ op = "verify" /\ pc \in {"read", "consume", "verify", "open", "answer"}
    \/ op = "login" /\ pc \in {"read", "rehash", "open", "answer"}
    \/ op = "google" /\ pc \in {"read", "by_email", "create", "conflict",
                                "refind", "open", "answer"}
    \/ op = "refresh" /\ pc \in {"lock", "rotate", "evict", "revoke_start",
                                 "revoke", "answer"}
    \/ op = "logout" /\ pc \in {"read", "revoke_start", "revoke"}
    \/ op = "forgot" /\ pc \in {"read", "unsend", "issue", "mail"}
    \/ op = "reset" /\ pc \in {"consume", "commit"}
    \/ op = "none" /\ pc = "idle"
    \/ op \in Ops /\ pc = "done"

\* Where a request stands, and whom it acts for.
PlaceInv(r) ==
    /\ OnCourse(reqs[r].op, reqs[r].pc)
    /\ reqs[r].pc # "done" => reqs[r].result = "none"
    /\ reqs[r].op \in {"register", "resend", "login", "google", "forgot"}
       => User(r) \in Users
    /\ reqs[r].op = "google" => reqs[r].subject \in Subjects
    /\ reqs[r].op = "verify" /\ reqs[r].pc \in {"consume", "verify", "open"}
       => User(r) \in Users /\ Exists(User(r))
    /\ reqs[r].op \in {"register", "resend", "forgot"}
       /\ reqs[r].pc \in {"unsend", "issue"} => Exists(User(r))

\* The tokens a request presents are rows.
PresentedInv(r) ==
    /\ reqs[r].op \in {"refresh", "logout"} /\ Tok(r) # 0
       => sessions[Tok(r)].state # "absent"
    /\ reqs[r].pc \in {"rotate", "evict", "revoke_start", "revoke"} => Tok(r) # 0
    /\ reqs[r].pc \in {"rotate", "evict"} => User(r) = sessions[Tok(r)].user
    /\ reqs[r].op = "verify" => Tok(r) # 0 /\ links[Tok(r)].state # "absent"
    /\ reqs[r].op = "reset" => Tok(r) # 0 /\ resets[Tok(r)].state # "absent"
    /\ reqs[r].pc = "commit" => User(r) = resets[Tok(r)].user
    /\ reqs[r].op = "forgot" /\ reqs[r].pc = "issue"
       => \A t \in reqs[r].targets : t \in Reqs /\ resets[t].state # "absent"

\* A row is inserted by the request it is named after, late in its course.
InsertedInv(r) ==
    /\ sessions[r].state # "absent"
       => reqs[r].pc \in {"answer", "revoke_start", "revoke", "done"}
    /\ resets[r].state # "absent" => reqs[r].pc \in {"mail", "done"}
    /\ links[r].state # "absent" => reqs[r].pc \in {"mail", "done"}

\* A request that signs in has checked its account.
CheckedInv(r) ==
    /\ \A u \in reqs[r].barred : users[u].disabled
    /\ reqs[r].pc \in {"rehash", "open"} =>
          /\ User(r) \in Users \ reqs[r].barred
          /\ users[User(r)].verified
          /\ reqs[r].op = "google" => users[User(r)].subject # None
    /\ reqs[r].pc = "rotate" => User(r) \notin reqs[r].barred
    /\ reqs[r].pc = "answer" \/ reqs[r].result = "tokens" =>
          sessions[r].state # "absent" /\ sessions[r].user \notin reqs[r].barred

\* A token that did its work is used up.
ConsumedInv(r) ==
    /\ reqs[r].op = "reset" /\ reqs[r].result = "ok"
       => resets[Tok(r)].state = "used"
    /\ reqs[r].op = "verify" /\ (reqs[r].pc \in {"verify", "open", "answer"}
                                 \/ reqs[r].result = "tokens")
       => links[Tok(r)].state = "used"

RequestInv(r) == /\ PlaceInv(r) /\ PresentedInv(r) /\ InsertedInv(r)
                 /\ CheckedInv(r) /\ ConsumedInv(r)

\* A reset that holds its token's lock is alone with it.
ResetInv ==
    \A q \in Reqs : reqs[q].pc = "commit" =>
        /\ resets[Tok(q)].state \in {"pending", "expired"}
        /\ \A r \in Reqs : reqs[r].pc = "commit" /\ Tok(r) = Tok(q) => r = q

AuthInv == /\ AuthTypeOK /\ SessionInv /\ AccountInv /\ OwnersInv /\ SignedInIsVerified
           /\ TokensWorkOnce /\ ResetInv
           /\ \A r \in Reqs : RequestInv(r)
-----------------------------------------------------------------------------
(* Sessions.                                                                *)

SessionsGrow(r) ==
    \A s \in Reqs :
        /\ sessions[s].state # "absent" =>
              /\ sessions'[s].state # "absent"
              /\ sessions'[s].user = sessions[s].user
              /\ sessions'[s].family = sessions[s].family
        /\ s # r /\ sessions[s].state = "absent" => sessions'[s].state = "absent"

\* What every change of the sessions has to be.
SessionsMove(r) ==
    /\ sessions' \in [Reqs -> Session]
    /\ SessionInv'
    /\ SessionsGrow(r)
    /\ Families!Next \/ UNCHANGED Families!famVars

SessionsOK == sessions \in [Reqs -> Session] /\ SessionInv

LEMMA SessionFields ==
  ASSUME sessions \in [Reqs -> Session], NEW s \in Reqs
  PROVE  /\ sessions[s].state \in {"absent", "open", "expired", "revoked", "replaced"}
         /\ sessions[s].next \in Passwords
         /\ sessions[s].state = "absent" => sessions[s] = NoSession
         /\ sessions[s].state # "absent" =>
               sessions[s].user \in Users /\ sessions[s].family \in Reqs
  BY MaxRequestsAssumption DEF Session, NoSession, Passwords, Reqs

LEMMA SessionsKept ==
  ASSUME SessionsOK, UNCHANGED sessions, NEW r
  PROVE  SessionsMove(r)
  <1>1. UNCHANGED Families!famVars
    BY DEF Families!famVars, FamilyOf, Unrevoked
  <1> QED
    BY <1>1 DEF SessionsMove, SessionsGrow, SessionsOK, SessionInv, FamilyIsChain,
                OneUsablePerFamily, FamiliesRooted, Unrevoked

\* Rows that only lose what makes them usable.
LEMMA EndedMoves ==
  ASSUME SessionsOK, NEW r, sessions' \in [Reqs -> Session],
         \A s \in Reqs :
            /\ sessions'[s].user = sessions[s].user
            /\ sessions'[s].family = sessions[s].family
            /\ sessions'[s].next = sessions[s].next
            /\ \/ sessions'[s].state = sessions[s].state
               \/ Unrevoked(s) /\ sessions'[s].state \in {"expired", "revoked"}
  PROVE  SessionsMove(r)
  <1> USE DEF SessionsOK, SessionInv
  <1>1. \A s \in Reqs :
           /\ Unrevoked(s)' => Unrevoked(s)
           /\ sessions'[s].state = "absent" <=> sessions[s].state = "absent"
           /\ sessions'[s].state = "replaced" <=> sessions[s].state = "replaced"
           /\ ~Unrevoked(s)' => sessions[s].state = "absent"
                                \/ sessions'[s].state \in {"revoked", "replaced"}
    BY SessionFields DEF Unrevoked
  <1>2. FamilyIsChain'
    <2>1. OneUsablePerFamily'
      BY <1>1 DEF FamilyIsChain, OneUsablePerFamily
    <2> QED
      BY <1>1, <2>1 DEF FamilyIsChain
  <1>3. FamiliesRooted'
    BY <1>1, SessionFields DEF FamiliesRooted
  <1>4. SessionsGrow(r)
    BY <1>1 DEF SessionsGrow
  <1>5. Families!EndFamilies
    <2> DEFINE Spent(f) == {s \in Reqs : /\ sessions[s].state \in {"revoked", "replaced"}
                                        /\ sessions[s].family = f}
    <2>1. \A f \in Reqs : (IF sessions[f].family = f THEN sessions[f].user ELSE None)'
                          = IF sessions[f].family = f THEN sessions[f].user ELSE None
      OBVIOUS
    <2>2. ASSUME NEW f \in Reqs
          PROVE  \/ FamilyOf(f)' = FamilyOf(f) /\ Spent(f)' = Spent(f)
                 \/ FamilyOf(f)' = {} /\ Spent(f)' = Spent(f) \cup FamilyOf(f)
      <3>1. CASE \E s \in Reqs : s \in FamilyOf(f)'
        <4>1. \A s \in Reqs : sessions[s].family = f => (Unrevoked(s)' <=> Unrevoked(s))
          BY <1>1, <3>1 DEF FamilyIsChain, OneUsablePerFamily, FamilyOf
        <4>2. \A s \in Reqs : sessions[s].family = f =>
                 (sessions'[s].state \in {"revoked", "replaced"}
                  <=> sessions[s].state \in {"revoked", "replaced"})
          BY <1>1, <4>1, SessionFields DEF Unrevoked
        <4> QED
          BY <4>1, <4>2 DEF FamilyOf
      <3>2. CASE ~ \E s \in Reqs : s \in FamilyOf(f)'
        <4>1. FamilyOf(f)' = {}
          BY <3>2 DEF FamilyOf
        <4>2. \A s \in Reqs : sessions[s].family = f =>
                 (sessions'[s].state \in {"revoked", "replaced"}
                  <=> Unrevoked(s) \/ sessions[s].state \in {"revoked", "replaced"})
          BY <1>1, <3>2, SessionFields DEF FamilyOf, Unrevoked
        <4> QED
          BY <4>1, <4>2 DEF FamilyOf
      <3> QED
        BY <3>1, <3>2
    <2> QED
      BY <2>1, <2>2 DEF Families!EndFamilies, Families!End
  <1> QED
    BY <1>2, <1>3, <1>4, <1>5 DEF SessionsMove, Families!Next

LEMMA RevokedMoves ==
  ASSUME SessionsOK, NEW targets, sessions' = Revoked(targets), NEW r
  PROVE  SessionsMove(r)
  <1>1. \A s \in Reqs :
           /\ \/ sessions'[s] = sessions[s]
              \/ Unrevoked(s) /\ sessions'[s] = [sessions[s] EXCEPT !.state = "revoked"]
           /\ sessions'[s] \in Session
    BY DEF Revoked, SessionsOK, Session, NoSession, Unrevoked
  <1>2. sessions' \in [Reqs -> Session]
    BY <1>1 DEF Revoked
  <1>3. \A s \in Reqs :
           /\ sessions'[s].user = sessions[s].user
           /\ sessions'[s].family = sessions[s].family
           /\ sessions'[s].next = sessions[s].next
           /\ \/ sessions'[s].state = sessions[s].state
              \/ Unrevoked(s) /\ sessions'[s].state \in {"expired", "revoked"}
    <2> SUFFICES ASSUME NEW s \in Reqs, Unrevoked(s),
                        sessions'[s] = [sessions[s] EXCEPT !.state = "revoked"]
                 PROVE  /\ sessions'[s].user = sessions[s].user
                        /\ sessions'[s].family = sessions[s].family
                        /\ sessions'[s].next = sessions[s].next
                        /\ sessions'[s].state = "revoked"
      BY <1>1
    <2>1. sessions[s] \in [state  : {"open", "expired", "revoked", "replaced"},
                           user : Users, family : Reqs, next : Passwords]
      BY DEF SessionsOK, Session, NoSession, Unrevoked
    <2> QED
      BY <2>1
  <1> QED
    BY <1>2, <1>3, EndedMoves

LEMMA ExpiredMoves ==
  ASSUME SessionsOK, NEW s \in Reqs, sessions[s].state = "open", NEW r,
         sessions' = [sessions EXCEPT ![s] = [@ EXCEPT !.state = "expired"]]
  PROVE  SessionsMove(r)
  <1>1. /\ sessions'[s] = [sessions[s] EXCEPT !.state = "expired"]
        /\ \A t \in Reqs : t # s => sessions'[t] = sessions[t]
    BY DEF SessionsOK
  <1>2. sessions[s] \in Session /\ sessions'[s] \in Session
    BY <1>1 DEF SessionsOK, Session, NoSession
  <1>3. sessions' \in [Reqs -> Session]
    BY <1>1, <1>2 DEF SessionsOK
  <1>4. /\ sessions'[s].user = sessions[s].user
        /\ sessions'[s].family = sessions[s].family
        /\ sessions'[s].next = sessions[s].next
        /\ sessions'[s].state = "expired"
    BY <1>1, <1>2 DEF Session, NoSession
  <1> QED
    BY <1>1, <1>3, <1>4, EndedMoves DEF Unrevoked

\* A sign-in.
LEMMA OpenedMoves ==
  ASSUME SessionsOK, NEW r \in Reqs, sessions[r].state = "absent",
         NEW u \in Users, sessions' = Opened(r, u)
  PROVE  /\ SessionsMove(r)
         /\ sessions'[r].state = "open" /\ sessions'[r].user = u
         /\ sessions'[r].family = r
  <1> USE DEF SessionsOK, SessionInv
  <1>1. /\ sessions'[r] = [state |-> "open", user |-> u, family |-> r, next |-> 0]
        /\ \A s \in Reqs : s # r => sessions'[s] = sessions[s]
    BY DEF Opened, NoSession
  <1>2. sessions' \in [Reqs -> Session]
    <2>1. sessions'[r] \in Session
      BY <1>1, MaxRequestsAssumption DEF Session, Passwords
    <2>2. sessions' = [sessions EXCEPT ![r] = sessions'[r]]
      BY <1>1 DEF Opened
    <2> QED
      BY <2>1, <2>2
  <1>3. \A s \in Reqs : sessions[s].state # "absent" => s # r /\ sessions[s].family # r
    BY SessionFields DEF FamiliesRooted
  <1>4. \A s \in Reqs : s # r => (Unrevoked(s)' <=> Unrevoked(s))
    BY <1>1 DEF Unrevoked
  <1>5. OneUsablePerFamily'
    BY <1>1, <1>3, <1>4 DEF FamilyIsChain, OneUsablePerFamily, Unrevoked
  <1>6. FamilyIsChain'
    BY <1>1, <1>3, <1>5 DEF FamilyIsChain
  <1>7. FamiliesRooted'
    BY <1>1, <1>3, SessionFields DEF FamiliesRooted
  <1>8. SessionsGrow(r)
    BY <1>1 DEF SessionsGrow
  <1>9. Families!SignIn(r, r, u)
    <2> DEFINE Holder(f) == IF sessions[f].family = f THEN sessions[f].user ELSE None
               Spent(f) == {s \in Reqs : /\ sessions[s].state \in {"revoked", "replaced"}
                                         /\ sessions[s].family = f}
    <2>1. Holder(r) = None /\ Holder(r)' = u
      BY <1>1, SessionFields DEF NoSession, Reqs
    <2>2. \A f \in Reqs : f # r => Holder(f)' = Holder(f)
      BY <1>1
    <2>3. FamilyOf(r)' = {r}
      BY <1>1, <1>3, <1>4 DEF FamilyOf, Unrevoked
    <2>4. \A f \in Reqs : f # r => FamilyOf(f)' = FamilyOf(f)
      BY <1>1, <1>4 DEF FamilyOf, Unrevoked
    <2>5. \A f \in Reqs : Spent(f)' = Spent(f)
      BY <1>1
    <2>6. \A f \in Reqs : r \notin FamilyOf(f) /\ r \notin Spent(f)
      BY DEF FamilyOf, Unrevoked
    <2> QED
      BY <2>1, <2>2, <2>3, <2>4, <2>5, <2>6 DEF Families!SignIn, Families!NewToken
  <1> QED
    BY <1>1, <1>2, <1>6, <1>7, <1>8, <1>9 DEF SessionsMove, Families!Next

\* A refresh.
LEMMA RotatedMoves ==
  ASSUME SessionsOK, NEW s \in Reqs, Unrevoked(s),
         NEW r \in Reqs, sessions[r].state = "absent", sessions' = Rotated(s, r)
  PROVE  /\ SessionsMove(r)
         /\ sessions'[r].state = "open"
         /\ sessions'[r].user = sessions[s].user
         /\ sessions'[r].family = sessions[s].family
  <1> USE DEF SessionsOK, SessionInv
  <1>0. PICK f \in Reqs : f = sessions[s].family
    BY SessionFields DEF Unrevoked
  <1>1. s # r /\ sessions[s].user \in Users
    BY SessionFields DEF Unrevoked
  <1>2. sessions[s] \in [state  : {"open", "expired", "revoked", "replaced"},
                         user : Users, family : Reqs, next : Passwords]
    BY DEF Session, NoSession, Unrevoked
  <1>3. sessions'[r] = [state |-> "open", user |-> sessions[s].user,
                        family |-> f, next |-> 0]
    BY <1>0, <1>1 DEF Rotated, NoSession
  <1>4. sessions'[s] = [sessions[s] EXCEPT !.state = "replaced", !.next = r]
    BY <1>1 DEF Rotated
  <1>5. /\ sessions'[s].state = "replaced" /\ sessions'[s].next = r
        /\ sessions'[s].user = sessions[s].user /\ sessions'[s].family = f
    BY <1>0, <1>2, <1>4
  <1>6. \A t \in Reqs : t \notin {r, s} => sessions'[t] = sessions[t]
    BY DEF Rotated
  <1>7. sessions' \in [Reqs -> Session]
    <2>1. sessions'[r] \in Session
      BY <1>1, <1>3, MaxRequestsAssumption DEF Session, Passwords
    <2>2. sessions'[s] \in Session
      <3>1. r \in Passwords
        BY MaxRequestsAssumption DEF Passwords, Reqs
      <3>2. sessions'[s] \in [state  : {"open", "expired", "revoked", "replaced"},
                              user : Users, family : Reqs, next : Passwords]
        BY <1>2, <1>4, <3>1
      <3> QED
        BY <3>2 DEF Session
    <2>3. DOMAIN sessions' = Reqs /\ sessions' = [t \in Reqs |-> sessions'[t]]
      BY DEF Rotated
    <2> QED
      BY <1>6, <2>1, <2>2, <2>3
  <1>8. \A t \in Reqs : t # r => /\ sessions'[t].family = sessions[t].family
                                 /\ sessions'[t].user = sessions[t].user
                                 /\ t # s => sessions'[t] = sessions[t]
    BY <1>0, <1>5, <1>6
  <1>9. \A t \in Reqs : Unrevoked(t)' <=> t = r \/ (Unrevoked(t) /\ t # s)
    BY <1>1, <1>3, <1>5, <1>8 DEF Unrevoked
  <1>10. \A t \in Reqs : Unrevoked(t) /\ sessions[t].family = f => t = s
    BY <1>0 DEF FamilyIsChain, OneUsablePerFamily
  <1>11. FamilyIsChain'
    <2>1. OneUsablePerFamily'
      BY <1>3, <1>8, <1>9, <1>10 DEF FamilyIsChain, OneUsablePerFamily, Unrevoked
    <2>2. \A t \in Reqs : sessions[t].state = "replaced" => sessions[t].next # r
      BY DEF FamilyIsChain
    <2>3. \A t \in Reqs : sessions'[t].state = "replaced" =>
             t = s \/ (t \notin {r, s} /\ sessions[t].state = "replaced")
      BY <1>3, <1>6
    <2>4. ASSUME NEW t \in Reqs, sessions'[t].state = "replaced"
          PROVE  LET n == sessions'[t].next
                 IN  /\ n \in Reqs /\ sessions'[n].state # "absent"
                     /\ sessions'[n].family = sessions'[t].family
                     /\ sessions'[n].user = sessions'[t].user
                     /\ \A q \in Reqs : sessions'[q].state = "replaced"
                                          /\ sessions'[q].next = n => q = t
      <3>1. CASE t = s
        BY <1>0, <1>3, <1>5, <1>6, <2>2, <2>3, <3>1
      <3>2. CASE t # s
        <4> DEFINE n == sessions[t].next
        <4>1. sessions'[t] = sessions[t] /\ sessions[t].state = "replaced" /\ n # r
          BY <1>6, <2>2, <2>3, <2>4, <3>2
        <4>2. /\ n \in Reqs /\ sessions[n].state # "absent"
              /\ sessions[n].family = sessions[t].family
              /\ sessions[n].user = sessions[t].user
              /\ \A q \in Reqs : sessions[q].state = "replaced"
                                   /\ sessions[q].next = n => q = t
          BY <4>1 DEF FamilyIsChain
        <4>3. sessions'[n].state # "absent"
          BY <1>5, <1>6, <4>1, <4>2
        <4> QED
          BY <1>5, <1>6, <1>8, <2>3, <4>1, <4>2, <4>3
      <3> QED
        BY <3>1, <3>2
    <2> QED
      BY <2>1, <2>4 DEF FamilyIsChain
  <1>12. sessions[f].state # "absent" /\ sessions[f].family = f
         /\ sessions[f].user = sessions[s].user /\ f # r
    BY <1>0 DEF FamiliesRooted, Unrevoked
  <1>13. \A t \in Reqs : sessions[t].state # "absent" => sessions'[t].state # "absent"
    BY <1>5, <1>6
  <1>14. FamiliesRooted'
    <2>1. ASSUME NEW t \in Reqs, sessions'[t].state # "absent"
          PROVE  LET g == sessions'[t].family
                 IN  /\ sessions'[g].state # "absent" /\ sessions'[g].family = g
                     /\ sessions'[g].user = sessions'[t].user
      <3>1. CASE t = r
        BY <1>0, <1>1, <1>3, <1>8, <1>12, <1>13, <3>1
      <3>2. CASE t # r
        <4>1. sessions[t].state # "absent"
          BY <1>6, <1>2, <2>1, <3>2 DEF Unrevoked
        <4>2. LET g == sessions[t].family
              IN  /\ g \in Reqs /\ sessions[g].state # "absent" /\ sessions[g].family = g
                  /\ sessions[g].user = sessions[t].user /\ g # r
          BY <4>1, SessionFields DEF FamiliesRooted
        <4> QED
          BY <1>8, <1>13, <3>2, <4>2
      <3> QED
        BY <3>1, <3>2
    <2> QED
      BY <2>1 DEF FamiliesRooted
  <1>15. SessionsGrow(r)
    BY <1>6, <1>8, <1>13 DEF SessionsGrow, Unrevoked
  <1>16. Families!Renew(f, s, r)
    <2> DEFINE Holder(g) == IF sessions[g].family = g THEN sessions[g].user ELSE None
               Spent(g) == {t \in Reqs : /\ sessions[t].state \in {"revoked", "replaced"}
                                         /\ sessions[t].family = g}
    <2>1. \A g \in Reqs : Holder(g)' = Holder(g)
      BY <1>0, <1>3, <1>8, <1>12, SessionFields DEF NoSession, Reqs
    <2>2. FamilyOf(f) = {s} /\ FamilyOf(f)' = {r}
      BY <1>0, <1>3, <1>8, <1>9, <1>10 DEF FamilyOf
    <2>3. \A g \in Reqs : g # f => FamilyOf(g)' = FamilyOf(g)
      BY <1>0, <1>3, <1>8, <1>9 DEF FamilyOf, Unrevoked
    <2>4. Spent(f)' = Spent(f) \cup {s}
      BY <1>0, <1>3, <1>5, <1>6, <1>8
    <2>5. \A g \in Reqs : g # f => Spent(g)' = Spent(g)
      BY <1>0, <1>3, <1>5, <1>6, <1>8
    <2>6. \A g \in Reqs : r \notin FamilyOf(g) /\ r \notin Spent(g)
      BY DEF FamilyOf, Unrevoked
    <2>8. [g \in Reqs |-> FamilyOf(g)]' = [[g \in Reqs |-> FamilyOf(g)] EXCEPT ![f] = {r}]
      BY <2>2, <2>3
    <2>9. [g \in Reqs |-> Spent(g)]' = [[g \in Reqs |-> Spent(g)] EXCEPT ![f] = @ \cup {s}]
      <3> HIDE DEF Spent
      <3> QED
        BY <2>4, <2>5
    <2>10. [g \in Reqs |-> Holder(g)]' = [g \in Reqs |-> Holder(g)]
      BY <2>1
    <2>11. Families!NewToken(r)
      BY <2>6 DEF Families!NewToken
    <2> QED
      BY <2>2, <2>8, <2>9, <2>10, <2>11 DEF Families!Renew
  <1> QED
    BY <1>0, <1>1, <1>3, <1>7, <1>11, <1>14, <1>15, <1>16
    DEF SessionsMove, Families!Next

-----------------------------------------------------------------------------
(* Accounts, tokens and the requests that do not step.                      *)

AccountsGrow ==
    /\ users' \in [Users -> Account]
    /\ \A u \in Users :
          /\ Exists(u) => Exists(u)'
          /\ users[u].disabled => users'[u].disabled
          /\ users[u].verified => users'[u].verified
          /\ users[u].subject # None => users'[u].subject # None

\* What a change from table to after, made by request r, has to be.
TokensGrow(table, after, r) ==
    /\ after \in [Reqs -> Token]
    /\ \A t \in Reqs :
          /\ table[t].state # "absent" =>
                after[t].state # "absent" /\ after[t].user = table[t].user
          /\ table[t].state = "used" => after[t].state = "used"
          /\ t # r /\ table[t].state = "absent" => after[t].state = "absent"

TablesGrow(r) == /\ SessionsMove(r) /\ AccountsGrow
                 /\ TokensGrow(resets, resets', r) /\ TokensGrow(links, links', r)

OthersWait(r) == \A q \in Reqs : q # r => reqs'[q] = reqs[q]

LEMMA TypesOfAuthInv ==
  ASSUME AuthInv
  PROVE  /\ SessionsOK
         /\ users \in [Users -> Account]
         /\ resets \in [Reqs -> Token] /\ links \in [Reqs -> Token]
         /\ clients \in Scenarios /\ reqs \in [Reqs -> Request]
  BY DEF AuthInv, AuthTypeOK, SessionsOK

LEMMA TokenFields ==
  ASSUME NEW table \in [Reqs -> Token], NEW t \in Reqs
  PROVE  /\ table[t].state \in {"absent", "pending", "expired", "used"}
         /\ table[t].state # "absent" => table[t].user \in Users
         /\ table[t].user \in Users \cup {None}
  BY DEF Token, NoToken

LEMMA RequestFields ==
  ASSUME reqs \in [Reqs -> Request], NEW r \in Reqs
  PROVE  /\ reqs[r].op \in Ops \cup {"none"} /\ reqs[r].pc \in Pcs
         /\ User(r) \in Users \cup {None} /\ Tok(r) \in Passwords
         /\ reqs[r].password \in Passwords /\ reqs[r].subject \in Subjects \cup {None}
         /\ reqs[r].targets \in SUBSET Reqs /\ reqs[r].barred \in SUBSET Users
         /\ reqs[r].result \in Results
         /\ Tok(r) # 0 => Tok(r) \in Reqs
  BY MaxRequestsAssumption DEF Request, User, Tok, Passwords, Reqs

LEMMA OthersKept ==
  ASSUME AuthInv, NEW r, TablesGrow(r), NEW q \in Reqs, q # r,
         reqs'[q] = reqs[q]
  PROVE  RequestInv(q)'
  <1> USE TypesOfAuthInv
  <1>1. /\ User(q)' = User(q) /\ Tok(q)' = Tok(q)
        /\ Tok(q) # 0 => Tok(q) \in Reqs
        /\ User(q) \in Users \cup {None} /\ reqs[q].barred \subseteq Users
    BY RequestFields DEF User, Tok
  <1>2. RequestInv(q)
    BY DEF AuthInv
  <1>3. PlaceInv(q)'
    BY <1>1, <1>2 DEF RequestInv, PlaceInv, TablesGrow, AccountsGrow
  <1>4. PresentedInv(q)'
    <2>1. /\ reqs[q].pc \in {"rotate", "evict"} => reqs[q].op = "refresh"
          /\ reqs[q].pc = "commit" => reqs[q].op = "reset"
      BY <1>2 DEF RequestInv, PlaceInv, OnCourse
    <2> QED
      BY <1>1, <1>2, <2>1
      DEF RequestInv, PresentedInv, TablesGrow, SessionsMove, SessionsGrow, TokensGrow
  <1>5. InsertedInv(q)'
    BY <1>2
    DEF RequestInv, InsertedInv, TablesGrow, SessionsMove, SessionsGrow, TokensGrow
  <1>6. CheckedInv(q)'
    BY <1>1, <1>2
    DEF RequestInv, CheckedInv, TablesGrow, SessionsMove, SessionsGrow, AccountsGrow
  <1>7. ConsumedInv(q)'
    BY <1>1, <1>2, TokenFields DEF RequestInv, ConsumedInv, PresentedInv, TablesGrow, TokensGrow
  <1> QED
    BY <1>3, <1>4, <1>5, <1>6, <1>7 DEF RequestInv

\* The requests among which TokensWorkOnce allows one for each token.
Won(r) ==
    \/ reqs[r].op = "reset" /\ reqs[r].result = "ok"
    \/ /\ reqs[r].op = "verify"
       /\ reqs[r].pc \in {"verify", "open", "answer"} \/ reqs[r].result = "tokens"

\* What holds of every step.
AuthStep == AuthInv' /\ (Families!Next \/ UNCHANGED Families!famVars)

\* What a step has to establish; r is the request that takes it, if any.
LEMMA Stepped ==
  ASSUME AuthInv, NEW r, TablesGrow(r), OthersWait(r), UNCHANGED clients,
         reqs' \in [Reqs -> Request], AccountInv', ResetInv',
         r \in Reqs =>
            /\ RequestInv(r)'
            /\ reqs[r].pc # "idle" => reqs'[r].op = reqs[r].op
            /\ sessions[r].state = "absent" /\ sessions'[r].state # "absent" =>
                  /\ users'[sessions'[r].user].verified
                  /\ \/ users'[sessions'[r].user].subject # None
                     \/ reqs'[sessions'[r].family].op \in {"login", "verify"}
            /\ links[r].state = "absent" /\ links'[r].state # "absent"
               => Exists(links[r].user)'
            /\ resets[r].state = "absent" /\ resets'[r].state # "absent"
               => Exists(resets[r].user)'
            /\ Won(r)' => \A q \in Reqs : q # r /\ Won(q) =>
                             ~(reqs'[r].op = reqs[q].op /\ Tok(r)' = Tok(q))
  PROVE  AuthStep
  <1> USE TypesOfAuthInv
  <1>1. AuthTypeOK'
    BY DEF AuthTypeOK, TablesGrow, SessionsMove, AccountsGrow, TokensGrow
  <1>2. SessionInv'
    BY DEF TablesGrow, SessionsMove
  <1>3. \A q \in Reqs : RequestInv(q)'
    BY OthersKept DEF OthersWait
  <1>4. SignedInIsVerified'
    <2> SUFFICES ASSUME NEW s \in Reqs, sessions'[s].state # "absent",
                        sessions[s].state # "absent"
                 PROVE  /\ users'[sessions'[s].user].verified
                        /\ \/ users'[sessions'[s].user].subject # None
                           \/ reqs'[sessions'[s].family].op \in {"login", "verify"}
      BY DEF SignedInIsVerified, TablesGrow, SessionsMove, SessionsGrow
    <2> DEFINE f == sessions[s].family
    <2>1. /\ sessions'[s].user = sessions[s].user /\ sessions'[s].family = f
          /\ f \in Reqs /\ sessions[s].user \in Users
      BY SessionFields DEF TablesGrow, SessionsMove, SessionsGrow, SessionsOK
    <2>2. sessions[f].state # "absent"
      BY <2>1 DEF SessionsOK, SessionInv, FamiliesRooted
    <2>3. reqs[f].pc # "idle"
      BY <2>1, <2>2 DEF AuthInv, RequestInv, InsertedInv
    <2>4. reqs'[f].op = reqs[f].op
      BY <2>1, <2>3 DEF OthersWait
    <2> QED
      BY <2>1, <2>4 DEF AuthInv, SignedInIsVerified, TablesGrow, AccountsGrow
  <1>5. TokensWorkOnce'
    <2>1. \A p, q \in Reqs : reqs[p].op = reqs[q].op /\ Tok(p) = Tok(q)
                             /\ Won(p) /\ Won(q) => p = q
      BY DEF AuthInv, TokensWorkOnce, Won
    <2>2. \A q \in Reqs : q # r => (Won(q)' <=> Won(q)) /\ Tok(q)' = Tok(q)
                                   /\ reqs'[q].op = reqs[q].op
      BY DEF OthersWait, Won, Tok
    <2>3. \A p, q \in Reqs : reqs'[p].op = reqs'[q].op /\ Tok(p)' = Tok(q)'
                             /\ Won(p)' /\ Won(q)' => p = q
      BY <2>1, <2>2
    <2> QED
      BY <2>3 DEF TokensWorkOnce, Won
  <1>6. OwnersInv'
    <2>1. \A t \in Reqs : links'[t].state # "absent" =>
             \/ Exists(links[t].user)'
             \/ links'[t].user = links[t].user /\ links[t].state # "absent"
      BY DEF TablesGrow, TokensGrow
    <2>2. \A t \in Reqs : resets'[t].state # "absent" =>
             \/ Exists(resets[t].user)'
             \/ resets'[t].user = resets[t].user /\ resets[t].state # "absent"
      BY DEF TablesGrow, TokensGrow
    <2> QED
      BY <2>1, <2>2, TokenFields DEF AuthInv, OwnersInv, TablesGrow, AccountsGrow, Exists
  <1>7. AuthInv'
    BY <1>1, <1>2, <1>3, <1>4, <1>5, <1>6 DEF AuthInv
  <1> QED
    BY <1>7 DEF AuthStep, TablesGrow, SessionsMove

LEMMA AccountsKept ==
  ASSUME AuthInv, UNCHANGED users
  PROVE  AccountsGrow
  BY TypesOfAuthInv DEF AccountsGrow, Exists

LEMMA TokensKept ==
  ASSUME NEW table \in [Reqs -> Token], NEW after, after = table, NEW r
  PROVE  TokensGrow(table, after, r)
  BY DEF TokensGrow

LEMMA TablesKept ==
  ASSUME AuthInv, UNCHANGED authTables, NEW r
  PROVE  TablesGrow(r)
  <1>1. UNCHANGED <<users, sessions, resets, links>>
    BY DEF authTables
  <1> QED
    BY <1>1, TypesOfAuthInv, AccountsKept, TokensKept, SessionsKept DEF TablesGrow

\* What a step does to its request: the fields the step may set, and the rest.
Moved(r, pc, user, result) ==
    /\ reqs' \in [Reqs -> Request]
    /\ OthersWait(r)
    /\ reqs'[r].pc = pc /\ User(r)' = user /\ reqs'[r].result = result
    /\ reqs'[r].op = reqs[r].op /\ Tok(r)' = Tok(r)
    /\ reqs'[r].password = reqs[r].password
    /\ reqs'[r].subject = reqs[r].subject
    /\ reqs'[r].barred = reqs[r].barred

LEMMA WaitingMoved ==
  ASSUME reqs \in [Reqs -> Request], NEW r \in Reqs, NEW pc \in Pcs,
         NEW u \in Users \cup {None}, NEW rows \in SUBSET Reqs,
         Waiting(r, pc, u, rows)
  PROVE  Moved(r, pc, u, reqs[r].result)
  <1>1. /\ reqs'[r] = [reqs[r] EXCEPT !.pc = pc, !.user = u, !.targets = rows]
        /\ OthersWait(r)
    BY DEF Waiting, OthersWait
  <1>2. reqs[r] \in Request
    OBVIOUS
  <1>3. reqs'[r] \in Request
    BY <1>1, <1>2 DEF Request
  <1>4. reqs' \in [Reqs -> Request]
    BY <1>3 DEF Waiting
  <1> QED
    BY <1>1, <1>2, <1>4 DEF Moved, Request, User, Tok

LEMMA GoOnForMoved ==
  ASSUME reqs \in [Reqs -> Request], NEW r \in Reqs, NEW pc \in Pcs,
         NEW u \in Users \cup {None}, GoOnFor(r, pc, u)
  PROVE  Moved(r, pc, u, reqs[r].result)
  <1>1. /\ reqs'[r] = [reqs[r] EXCEPT !.pc = pc, !.user = u]
        /\ OthersWait(r)
    BY DEF GoOnFor, OthersWait
  <1>2. reqs[r] \in Request
    OBVIOUS
  <1>3. reqs'[r] \in Request
    BY <1>1, <1>2 DEF Request
  <1>4. reqs' \in [Reqs -> Request]
    BY <1>3 DEF GoOnFor
  <1> QED
    BY <1>1, <1>2, <1>4 DEF Moved, Request, User, Tok

LEMMA GoOnMoved ==
  ASSUME reqs \in [Reqs -> Request], NEW r \in Reqs, NEW pc \in Pcs, GoOn(r, pc)
  PROVE  Moved(r, pc, User(r), reqs[r].result)
  <1>1. /\ reqs'[r] = [reqs[r] EXCEPT !.pc = pc]
        /\ OthersWait(r)
    BY DEF GoOn, OthersWait
  <1>2. reqs[r] \in Request
    OBVIOUS
  <1>3. reqs'[r] \in Request
    BY <1>1, <1>2 DEF Request
  <1>4. reqs' \in [Reqs -> Request]
    BY <1>3 DEF GoOn
  <1> QED
    BY <1>1, <1>2, <1>4 DEF Moved, Request, User, Tok

LEMMA EndMoved ==
  ASSUME reqs \in [Reqs -> Request], NEW r \in Reqs, NEW result \in Results,
         End(r, result)
  PROVE  Moved(r, "done", User(r), result)
  <1>1. /\ reqs'[r] = [reqs[r] EXCEPT !.pc = "done", !.targets = {}, !.result = result]
        /\ OthersWait(r)
    BY DEF End, OthersWait
  <1>2. reqs[r] \in Request
    OBVIOUS
  <1>3. reqs'[r] \in Request
    BY <1>1, <1>2 DEF Request, Pcs
  <1>4. reqs' \in [Reqs -> Request]
    BY <1>3 DEF End
  <1> QED
    BY <1>1, <1>2, <1>4 DEF Moved, Request, User, Tok

LEMMA AccountInvKept ==
  ASSUME AccountInv, UNCHANGED users
  PROVE  AccountInv'
  BY DEF AccountInv, Exists

LEMMA ResetInvKept ==
  ASSUME AuthInv, UNCHANGED resets, NEW r \in Reqs, OthersWait(r),
         reqs'[r].pc # "commit"
  PROVE  ResetInv'
  <1>1. \A q \in Reqs : reqs'[q].pc = "commit" => q # r /\ reqs'[q] = reqs[q]
    BY DEF OthersWait
  <1> QED
    BY <1>1 DEF AuthInv, ResetInv, Tok

\* A request that is refused, or ends without tokens and without a new
\* password, keeps what it knows.
LEMMA DoneKept ==
  ASSUME AuthInv, NEW r \in Reqs, TablesGrow(r), NEW result \in Results,
         Moved(r, "done", User(r), result), reqs[r].op # "none",
         result # "tokens", reqs[r].op = "reset" => result # "ok"
  PROVE  RequestInv(r)'
  <1> USE TypesOfAuthInv
  <1>1. /\ reqs[r].op \in Ops
        /\ Tok(r) # 0 => Tok(r) \in Reqs
        /\ reqs[r].barred \subseteq Users
    BY RequestFields
  <1>2. RequestInv(r)
    BY DEF AuthInv
  <1>3. /\ reqs'[r].pc = "done" /\ User(r)' = User(r) /\ reqs'[r].result = result
        /\ reqs'[r].op = reqs[r].op /\ Tok(r)' = Tok(r)
        /\ reqs'[r].barred = reqs[r].barred
        /\ reqs'[r].subject = reqs[r].subject
    BY DEF Moved
  <1>4. PlaceInv(r)'
    BY <1>1, <1>2, <1>3 DEF RequestInv, PlaceInv, OnCourse
  <1>5. PresentedInv(r)'
    BY <1>1, <1>2, <1>3
    DEF RequestInv, PresentedInv, TablesGrow, SessionsMove, SessionsGrow, TokensGrow
  <1>6. InsertedInv(r)' /\ ConsumedInv(r)'
    BY <1>3 DEF InsertedInv, ConsumedInv
  <1>7. CheckedInv(r)'
    BY <1>1, <1>2, <1>3 DEF RequestInv, CheckedInv, TablesGrow, AccountsGrow
  <1> QED
    BY <1>4, <1>5, <1>6, <1>7 DEF RequestInv

\* A step that only reads.
LEMMA ReadStepped ==
  ASSUME AuthInv, NEW r \in Reqs, UNCHANGED <<authTables, clients>>,
         NEW pc, NEW u, NEW result, Moved(r, pc, u, result), pc # "commit",
         RequestInv(r)', Won(r)' => Won(r)
  PROVE  AuthStep
  <1> USE TypesOfAuthInv
  <1>1. TablesGrow(r) /\ UNCHANGED <<users, sessions, resets, links>>
    BY TablesKept DEF authTables
  <1>2. AccountInv'
    BY <1>1, AccountInvKept DEF AuthInv
  <1>3. ResetInv'
    BY <1>1, ResetInvKept DEF Moved
  <1>4. Won(r)' => \A q \in Reqs : q # r /\ Won(q) =>
                      ~(reqs'[r].op = reqs[q].op /\ Tok(r)' = Tok(q))
    BY DEF AuthInv, TokensWorkOnce, Won, Moved
  <1> QED
    BY <1>1, <1>2, <1>3, <1>4, Stepped DEF Moved

\* A request that ends without having changed anything in this step.
LEMMA EndStepped ==
  ASSUME AuthInv, NEW r \in Reqs, UNCHANGED <<authTables, clients>>,
         NEW result \in {"ok", "rejected", "link", "error"}, End(r, result),
         reqs[r].op # "none", reqs[r].op = "reset" => result # "ok"
  PROVE  AuthStep
  <1> USE TypesOfAuthInv
  <1>1. result \in Results
    BY DEF Results
  <1>2. Moved(r, "done", User(r), result)
    BY <1>1, EndMoved
  <1>3. RequestInv(r)'
    BY <1>1, <1>2, TablesKept, DoneKept
  <1>4. Won(r)' => Won(r)
    BY <1>2 DEF Moved, Won
  <1> QED
    BY <1>2, <1>3, <1>4, ReadStepped

\* A request of which only the place changes: it keeps what it knows about
\* accounts and tokens, as long as its new place asks for no more.
LEMMA PlaceKept ==
  ASSUME AuthInv, NEW r \in Reqs, TablesGrow(r), NEW pc \in Pcs,
         Moved(r, pc, User(r), reqs[r].result), OnCourse(reqs[r].op, pc),
         reqs[r].pc \notin {"idle", "done"}, reqs[r].op # "verify",
         pc \notin {"rotate", "evict", "rehash", "open", "answer", "done", "commit"},
         reqs[r].op = "forgot" /\ pc = "issue" =>
            \A t \in reqs'[r].targets : t \in Reqs /\ resets'[t].state # "absent",
         pc \in {"revoke_start", "revoke"} => Tok(r) # 0,
         reqs[r].op \in {"register", "resend", "forgot"} => Exists(User(r))'
  PROVE  /\ PlaceInv(r)' /\ PresentedInv(r)'
         /\ CheckedInv(r)' /\ ConsumedInv(r)'
  <1> USE TypesOfAuthInv
  <1>1. /\ Tok(r) # 0 => Tok(r) \in Reqs
        /\ reqs[r].barred \subseteq Users
    BY RequestFields
  <1>2. RequestInv(r)
    BY DEF AuthInv
  <1>3. /\ reqs'[r].pc = pc /\ User(r)' = User(r) /\ reqs'[r].result = "none"
        /\ reqs'[r].op = reqs[r].op /\ Tok(r)' = Tok(r)
        /\ reqs'[r].barred = reqs[r].barred
        /\ reqs'[r].subject = reqs[r].subject
    BY <1>2 DEF Moved, RequestInv, PlaceInv
  <1>4. PlaceInv(r)'
    BY <1>2, <1>3 DEF RequestInv, PlaceInv
  <1>5. PresentedInv(r)'
    BY <1>1, <1>2, <1>3
    DEF RequestInv, PresentedInv, TablesGrow, SessionsMove, SessionsGrow, TokensGrow
  <1>6. ConsumedInv(r)'
    BY <1>3 DEF ConsumedInv
  <1>7. CheckedInv(r)'
    BY <1>1, <1>2, <1>3 DEF RequestInv, CheckedInv, TablesGrow, AccountsGrow
  <1> QED
    BY <1>4, <1>5, <1>6, <1>7

LEMMA PlaceStepped ==
  ASSUME AuthInv, NEW r \in Reqs, UNCHANGED <<authTables, clients>>, NEW pc \in Pcs,
         Moved(r, pc, User(r), reqs[r].result), OnCourse(reqs[r].op, pc),
         reqs[r].pc \notin {"idle", "done", "answer", "mail", "revoke_start", "revoke"},
         reqs[r].op # "verify",
         pc \notin {"rotate", "evict", "rehash", "open", "answer", "done", "commit"},
         reqs[r].op = "forgot" /\ pc = "issue" =>
            \A t \in reqs'[r].targets : t \in Reqs /\ resets'[t].state # "absent",
         pc \in {"revoke_start", "revoke"} => Tok(r) # 0,
         reqs[r].op \in {"register", "resend", "forgot"} => Exists(User(r))'
  PROVE  AuthStep
  <1>1. /\ PlaceInv(r)' /\ PresentedInv(r)'
        /\ CheckedInv(r)' /\ ConsumedInv(r)'
    BY TablesKept, PlaceKept
  <1>2. InsertedInv(r)'
    BY DEF AuthInv, RequestInv, InsertedInv, authTables
  <1>3. Won(r)' => Won(r)
    BY DEF Moved, Won
  <1> QED
    BY <1>1, <1>2, <1>3, ReadStepped DEF RequestInv

-----------------------------------------------------------------------------
(* The steps that only read.                                                *)

LEMMA ReadLoginStep ==
  ASSUME AuthInv, NEW r \in Reqs, ReadLogin(r)
  PROVE  AuthStep
  <1> USE TypesOfAuthInv
  <1> DEFINE a == users[User(r)]
  <1>1. reqs[r].op = "login" /\ reqs[r].pc = "read"
    BY DEF ReadLogin, Is
  <1>2. CASE End(r, "rejected")
    BY <1>1, <1>2, EndStepped DEF ReadLogin
  <1>3. CASE ~End(r, "rejected")
    <2>1. PICK pc \in {"open", "rehash"} : GoOn(r, pc)
      BY <1>3 DEF ReadLogin
    <2>2. ~a.disabled /\ a.verified
      BY <1>3 DEF ReadLogin
    <2>3. Moved(r, pc, User(r), reqs[r].result)
      BY <2>1, GoOnMoved DEF Pcs
    <2>4. UNCHANGED <<users, sessions, resets, links>>
      BY DEF ReadLogin, authTables
    <2>5. RequestInv(r)
      BY DEF AuthInv
    <2>6. PlaceInv(r)' /\ PresentedInv(r)' /\ ConsumedInv(r)' /\ InsertedInv(r)'
      BY <1>1, <2>1, <2>3, <2>4, <2>5
      DEF Moved, RequestInv, PlaceInv, OnCourse, PresentedInv, ConsumedInv, InsertedInv
    <2>7. CheckedInv(r)'
      BY <1>1, <2>1, <2>2, <2>3, <2>4, <2>5
      DEF Moved, RequestInv, PlaceInv, CheckedInv
    <2>8. Won(r)' => Won(r)
      BY <1>1, <2>3 DEF Moved, Won
    <2> QED
      BY <2>1, <2>3, <2>6, <2>7, <2>8, ReadStepped DEF ReadLogin, RequestInv
  <1> QED
    BY <1>2, <1>3

LEMMA AnswerStep ==
  ASSUME AuthInv, NEW r \in Reqs, Answer(r)
  PROVE  AuthStep
  <1> USE TypesOfAuthInv
  <1>1. reqs[r].pc = "answer" /\ End(r, "tokens") /\ UNCHANGED <<authTables, clients>>
    BY DEF Answer
  <1>2. Moved(r, "done", User(r), "tokens")
    BY <1>1, EndMoved DEF Results
  <1>3. UNCHANGED <<users, sessions, resets, links>>
    BY <1>1 DEF authTables
  <1>4. RequestInv(r)
    BY DEF AuthInv
  <1>5. PlaceInv(r)' /\ PresentedInv(r)' /\ InsertedInv(r)' /\ ConsumedInv(r)'
    BY <1>1, <1>2, <1>3, <1>4
    DEF Moved, RequestInv, PlaceInv, OnCourse, Ops, PresentedInv, InsertedInv, ConsumedInv
  <1>6. CheckedInv(r)'
    BY <1>1, <1>2, <1>3, <1>4 DEF Moved, RequestInv, CheckedInv
  <1>7. Won(r)' => Won(r)
    BY <1>1, <1>2, <1>4 DEF Moved, Won, RequestInv, PlaceInv, OnCourse
  <1> QED
    BY <1>1, <1>2, <1>5, <1>6, <1>7, ReadStepped DEF RequestInv

LEMMA ReadSubjectStep ==
  ASSUME AuthInv, NEW r \in Reqs, ReadSubject(r)
  PROVE  AuthStep
  <1> USE TypesOfAuthInv
  <1> DEFINE found == WithSubject(reqs[r].subject)
  <1>1. /\ reqs[r].op = "google" /\ reqs[r].pc \in {"read", "conflict"}
        /\ UNCHANGED <<authTables, clients>>
    BY DEF ReadSubject
  <1>2. RequestInv(r)
    BY DEF AuthInv
  <1>3. CASE found = {}
    <2>1. PICK pc \in {"by_email", "refind"} : GoOn(r, pc)
      BY <1>3 DEF ReadSubject
    <2>2. Moved(r, pc, User(r), reqs[r].result)
      BY <2>1, GoOnMoved DEF Pcs
    <2> QED
      BY <1>1, <2>1, <2>2, PlaceStepped DEF OnCourse, Pcs
  <1>4. CASE found # {}
    <2>1. PICK u \in found : IF users[u].disabled THEN End(r, "rejected")
                             ELSE GoOnFor(r, "open", u)
      BY <1>4 DEF ReadSubject
    <2>2. CASE users[u].disabled
      BY <1>1, <2>1, <2>2, EndStepped
    <2>3. CASE ~users[u].disabled
      <3>1. u \in Users /\ users[u].subject = reqs[r].subject
        BY DEF WithSubject
      <3>2. Moved(r, "open", u, reqs[r].result)
        BY <2>1, <2>3, <3>1, GoOnForMoved DEF Pcs
      <3>3. UNCHANGED <<users, sessions, resets, links>>
        BY <1>1 DEF authTables
      <3>4. reqs[r].subject \in Subjects
        BY <1>1, <1>2 DEF RequestInv, PlaceInv
      <3>5. users[u].subject # None /\ users[u].verified
        BY <3>1, <3>4, NoneAssumption DEF AuthInv, AccountInv
      <3>6. PlaceInv(r)' /\ PresentedInv(r)' /\ ConsumedInv(r)' /\ InsertedInv(r)'
        BY <1>1, <1>2, <3>1, <3>2, <3>3
        DEF Moved, RequestInv, PlaceInv, OnCourse, PresentedInv, ConsumedInv, InsertedInv
      <3>7. CheckedInv(r)'
        BY <1>1, <1>2, <2>3, <3>1, <3>2, <3>3, <3>5
        DEF Moved, RequestInv, PlaceInv, CheckedInv
      <3>8. Won(r)' => Won(r)
        BY <1>1, <3>2 DEF Moved, Won
      <3> QED
        BY <1>1, <3>2, <3>6, <3>7, <3>8, ReadStepped DEF RequestInv
    <2> QED
      BY <2>2, <2>3
  <1> QED
    BY <1>3, <1>4

LEMMA ReadEmailStep ==
  ASSUME AuthInv, NEW r \in Reqs, ReadEmail(r)
  PROVE  AuthStep
  <1> USE TypesOfAuthInv
  <1>1. reqs[r].pc \in {"by_email", "refind"} /\ UNCHANGED <<authTables, clients>>
    BY DEF ReadEmail
  <1>2. reqs[r].op = "google"
    BY <1>1 DEF AuthInv, RequestInv, PlaceInv, OnCourse
  <1>3. CASE GoOn(r, "create")
    <2>1. Moved(r, "create", User(r), reqs[r].result)
      BY <1>3, GoOnMoved DEF Pcs
    <2> QED
      BY <1>1, <1>2, <2>1, PlaceStepped DEF OnCourse, Pcs
  <1>4. CASE End(r, "link") \/ End(r, "error")
    BY <1>1, <1>2, <1>4, EndStepped
  <1> QED
    BY <1>3, <1>4 DEF ReadEmail

LEMMA FindSessionStep ==
  ASSUME AuthInv, NEW r \in Reqs, FindSession(r)
  PROVE  AuthStep
  <1> USE TypesOfAuthInv
  <1>1. /\ reqs[r].op = "logout" /\ reqs[r].pc = "read"
        /\ UNCHANGED <<authTables, clients>>
    BY DEF FindSession, Is
  <1>2. CASE Tok(r) = 0
    BY <1>1, <1>2, EndStepped DEF FindSession
  <1>3. CASE Tok(r) # 0
    <2>1. Moved(r, "revoke_start", User(r), reqs[r].result)
      BY <1>3, GoOnMoved DEF FindSession, Pcs
    <2> QED
      BY <1>1, <1>3, <2>1, PlaceStepped DEF OnCourse, Pcs
  <1> QED
    BY <1>2, <1>3

LEMMA ReadForgotStep ==
  ASSUME AuthInv, NEW r \in Reqs, ReadForgot(r)
  PROVE  AuthStep
  <1> USE TypesOfAuthInv
  <1>1. /\ reqs[r].op = "forgot" /\ reqs[r].pc = "read"
        /\ UNCHANGED <<authTables, clients>>
    BY DEF ReadForgot, Is
  <1>2. CASE End(r, "ok")
    BY <1>1, <1>2, EndStepped
  <1>3. CASE ~End(r, "ok")
    <2>1. GoOn(r, "unsend") /\ Exists(User(r))
      BY <1>3 DEF ReadForgot, Exists
    <2>2. Moved(r, "unsend", User(r), reqs[r].result)
      BY <2>1, GoOnMoved DEF Pcs
    <2>3. Exists(User(r))'
      BY <1>1, <2>1, <2>2 DEF Moved, Exists, authTables
    <2> QED
      BY <1>1, <2>2, <2>3, PlaceStepped DEF OnCourse, Pcs
  <1> QED
    BY <1>2, <1>3

LEMMA StartReplaceStep ==
  ASSUME AuthInv, NEW r \in Reqs, StartReplace(r)
  PROVE  AuthStep
  <1> USE TypesOfAuthInv
  <1>1. /\ reqs[r].op = "forgot" /\ reqs[r].pc = "unsend"
        /\ UNCHANGED <<authTables, clients>>
    BY DEF StartReplace, Is
  <1>2. Pending(resets, User(r)) \in SUBSET Reqs
    BY DEF Pending
  <1>3. Moved(r, "issue", User(r), reqs[r].result)
    BY <1>2, RequestFields, WaitingMoved DEF StartReplace, Pcs
  <1>4. \A t \in reqs'[r].targets : t \in Reqs /\ resets'[t].state # "absent"
    BY <1>1 DEF StartReplace, Waiting, Pending, authTables
  <1>5. Exists(User(r))'
    BY <1>1, <1>3 DEF Moved, Exists, authTables, AuthInv, RequestInv, PlaceInv
  <1> QED
    BY <1>1, <1>3, <1>4, <1>5, PlaceStepped DEF OnCourse, Pcs

LEMMA ReadResendStep ==
  ASSUME AuthInv, NEW r \in Reqs, ReadResend(r)
  PROVE  AuthStep
  <1> USE TypesOfAuthInv
  <1>1. /\ reqs[r].op = "resend" /\ reqs[r].pc = "read"
        /\ UNCHANGED <<authTables, clients>>
    BY DEF ReadResend, Is
  <1>2. CASE End(r, "ok")
    BY <1>1, <1>2, EndStepped
  <1>3. CASE ~End(r, "ok")
    <2>1. GoOn(r, "unsend") /\ Exists(User(r))
      BY <1>3 DEF ReadResend
    <2>2. Moved(r, "unsend", User(r), reqs[r].result)
      BY <2>1, GoOnMoved DEF Pcs
    <2>3. Exists(User(r))'
      BY <1>1, <2>1, <2>2 DEF Moved, Exists, authTables
    <2> QED
      BY <1>1, <2>2, <2>3, PlaceStepped DEF OnCourse, Pcs
  <1> QED
    BY <1>2, <1>3

LEMMA MailStep ==
  ASSUME AuthInv, NEW r \in Reqs, Mail(r)
  PROVE  AuthStep
  <1>1. reqs[r].op \notin {"none", "reset"}
    BY DEF Mail, AuthInv, RequestInv, PlaceInv, OnCourse
  <1> QED
    BY <1>1, EndStepped DEF Mail

LEMMA FailStep ==
  ASSUME AuthInv, NEW r \in Reqs, Fail(r)
  PROVE  AuthStep
  <1>1. reqs[r].op # "none"
    BY DEF Fail, AuthInv, RequestInv, PlaceInv, OnCourse, Ops
  <1> QED
    BY <1>1, EndStepped DEF Fail

LEMMA ReadLinkStep ==
  ASSUME AuthInv, NEW r \in Reqs, ReadLink(r)
  PROVE  AuthStep
  <1> USE TypesOfAuthInv
  <1> DEFINE u == links[Tok(r)].user
  <1>1. /\ reqs[r].op = "verify" /\ reqs[r].pc = "read"
        /\ UNCHANGED <<authTables, clients>>
    BY DEF ReadLink, Is
  <1>2. CASE links[Tok(r)].state # "pending"
    BY <1>1, <1>2, EndStepped DEF ReadLink
  <1>3. CASE links[Tok(r)].state = "pending"
    <2>1. RequestInv(r)
      BY DEF AuthInv
    <2>2. Tok(r) \in Reqs
      BY <1>1, <2>1, RequestFields DEF RequestInv, PresentedInv
    <2>3. u \in Users /\ Exists(u)
      BY <1>3, <2>2, TokenFields DEF AuthInv, OwnersInv
    <2>4. Moved(r, "consume", u, reqs[r].result)
      BY <1>3, <2>3, GoOnForMoved DEF ReadLink, Pcs
    <2>5. UNCHANGED <<users, sessions, resets, links>>
      BY <1>1 DEF authTables
    <2>6. PlaceInv(r)' /\ PresentedInv(r)' /\ ConsumedInv(r)' /\ InsertedInv(r)'
      BY <1>1, <2>1, <2>3, <2>4, <2>5
      DEF Moved, RequestInv, PlaceInv, OnCourse, PresentedInv, ConsumedInv,
          InsertedInv, Exists
    <2>7. CheckedInv(r)'
      BY <1>1, <2>1, <2>4, <2>5 DEF Moved, RequestInv, PlaceInv, CheckedInv
    <2>8. Won(r)' => Won(r)
      BY <1>1, <2>1, <2>4 DEF Moved, Won, RequestInv, PlaceInv
    <2> QED
      BY <1>1, <2>4, <2>6, <2>7, <2>8, ReadStepped DEF RequestInv
  <1> QED
    BY <1>2, <1>3

\* Both revocations wait with the rows they found.
LEMMA StartRevokeStep ==
  ASSUME AuthInv, NEW r \in Reqs, StartRevoke(r)
  PROVE  AuthStep
  <1> USE TypesOfAuthInv
  <1>1. reqs[r].pc = "revoke_start" /\ UNCHANGED <<authTables, clients>>
    BY DEF StartRevoke
  <1>2. PICK rows \in SUBSET Reqs : Waiting(r, "revoke", User(r), rows)
    BY DEF StartRevoke, FamilyOf, SessionsOf
  <1>3. Moved(r, "revoke", User(r), reqs[r].result)
    BY <1>2, RequestFields, WaitingMoved DEF Pcs
  <1>4. RequestInv(r) /\ reqs[r].op \in {"refresh", "logout"}
    BY <1>1 DEF AuthInv, RequestInv, PlaceInv, OnCourse
  <1>5. /\ PlaceInv(r)' /\ PresentedInv(r)'
        /\ CheckedInv(r)' /\ ConsumedInv(r)'
    BY <1>1, <1>3, <1>4, TablesKept, PlaceKept
    DEF OnCourse, Pcs, RequestInv, PresentedInv
  <1>6. InsertedInv(r)'
    BY <1>1, <1>3, <1>4 DEF Moved, RequestInv, InsertedInv, authTables
  <1>7. Won(r)' => Won(r)
    BY <1>3, <1>4 DEF Moved, Won
  <1> QED
    BY <1>1, <1>3, <1>5, <1>6, <1>7, ReadStepped DEF RequestInv

\* Nothing but a clock or an operator steps.
LEMMA EnvironmentStepped ==
  ASSUME AuthInv, TablesGrow(0), UNCHANGED <<clients, reqs>>, AccountInv', ResetInv'
  PROVE  AuthStep
  <1>1. 0 \notin Reqs
    BY DEF Reqs
  <1>2. OthersWait(0) /\ reqs' \in [Reqs -> Request]
    BY TypesOfAuthInv DEF OthersWait
  <1> QED
    BY <1>1, <1>2, Stepped

-----------------------------------------------------------------------------
(* The steps that write one-time tokens.                                    *)

LEMMA UsedGrows ==
  ASSUME NEW table \in [Reqs -> Token], NEW targets, NEW r,
         NEW after, after = Used(table, targets),
         \A t \in Reqs : t \in targets => table[t].state # "absent"
  PROVE  /\ TokensGrow(table, after, r)
         /\ \A t \in Reqs : t \in targets => after[t].state = "used"
         /\ \A t \in Reqs : t \notin targets => after[t] = table[t]
  <1>1. \A t \in Reqs : after[t] = IF t \in targets
                                   THEN [table[t] EXCEPT !.state = "used"] ELSE table[t]
    BY DEF Used
  <1>2. ASSUME NEW t \in Reqs, t \in targets
        PROVE  /\ after[t] \in Token /\ after[t].state = "used"
               /\ after[t].user = table[t].user
    <2>1. table[t] \in [state : {"pending", "expired", "used"}, user : Users]
      BY <1>2 DEF Token, NoToken
    <2> QED
      BY <1>1, <1>2, <2>1 DEF Token
  <1>3. after \in [Reqs -> Token]
    BY <1>1, <1>2 DEF Used
  <1> QED
    BY <1>1, <1>2, <1>3 DEF TokensGrow

LEMMA IssuedGrows ==
  ASSUME NEW table \in [Reqs -> Token], NEW r \in Reqs, table[r].state = "absent",
         NEW u \in Users, NEW after, after = Issued(table, r, u)
  PROVE  /\ TokensGrow(table, after, r)
         /\ after[r].state = "pending" /\ after[r].user = u
         /\ \A t \in Reqs : t # r => after[t] = table[t]
  <1>1. /\ after[r] = [state |-> "pending", user |-> u]
        /\ \A t \in Reqs : t # r => after[t] = table[t]
        /\ after \in [Reqs -> Token]
    BY DEF Issued, Token
  <1> QED
    BY <1>1 DEF TokensGrow

LEMMA ConsumeStep ==
  ASSUME AuthInv, NEW r \in Reqs, Consume(r)
  PROVE  AuthStep
  <1> USE TypesOfAuthInv
  <1> DEFINE u == resets[Tok(r)].user
  <1>1. /\ reqs[r].op = "reset" /\ reqs[r].pc = "consume"
        /\ Tok(r) \notin LockedResets /\ UNCHANGED <<authTables, clients>>
    BY DEF Consume, Is
  <1>2. CASE resets[Tok(r)].state # "pending"
    BY <1>1, <1>2, EndStepped DEF Consume
  <1>3. CASE resets[Tok(r)].state = "pending"
    <2>1. RequestInv(r)
      BY DEF AuthInv
    <2>2. Tok(r) \in Reqs /\ SessionsOf(u) \in SUBSET Reqs
      BY <1>1, <2>1, RequestFields DEF RequestInv, PresentedInv, SessionsOf
    <2>3. u \in Users \cup {None}
      BY <2>2, TokenFields
    <2>4. Moved(r, "commit", u, reqs[r].result)
      BY <1>3, <2>2, <2>3, WaitingMoved DEF Consume, Pcs
    <2>5. UNCHANGED <<users, sessions, resets, links>>
      BY <1>1 DEF authTables
    <2>6. RequestInv(r)'
      BY <1>1, <2>1, <2>4, <2>5
      DEF Moved, RequestInv, PlaceInv, OnCourse, PresentedInv, ConsumedInv,
          InsertedInv, CheckedInv
    <2>7. ResetInv'
      <3>1. \A q \in Reqs : reqs[q].pc = "commit" => Tok(q) # Tok(r)
        BY <1>1 DEF LockedResets
      <3>2. \A q \in Reqs : q # r => (reqs'[q].pc = "commit" <=> reqs[q].pc = "commit")
                                     /\ Tok(q)' = Tok(q)
        BY <2>4 DEF Moved, OthersWait, Tok
      <3>3. Tok(r)' = Tok(r)
        BY <2>4 DEF Moved
      <3> QED
        BY <1>3, <2>5, <3>1, <3>2, <3>3 DEF AuthInv, ResetInv
    <2>8. AccountInv'
      BY <2>5, AccountInvKept DEF AuthInv
    <2>9. ~Won(r)'
      BY <1>1, <2>1, <2>4 DEF Moved, Won, RequestInv, PlaceInv
    <2> QED
      BY <1>1, <2>4, <2>5, <2>6, <2>7, <2>8, <2>9, TablesKept, Stepped DEF Moved
  <1> QED
    BY <1>2, <1>3

LEMMA EndReplaceStep ==
  ASSUME AuthInv, NEW r \in Reqs, EndReplace(r)
  PROVE  AuthStep
  <1> USE TypesOfAuthInv
  <1> DEFINE used == Used(resets, reqs[r].targets)
  <1>1. /\ reqs[r].op = "forgot" /\ reqs[r].pc = "issue"
        /\ reqs[r].targets \cap LockedResets = {} /\ GoOn(r, "mail")
        /\ UNCHANGED <<users, sessions, links, clients>>
        /\ resets' = Issued(used, r, User(r))
    BY DEF EndReplace, Is
  <1>2. RequestInv(r)
    BY DEF AuthInv
  <1>3. /\ \A t \in reqs[r].targets : t \in Reqs /\ resets[t].state # "absent"
        /\ resets[r].state = "absent" /\ User(r) \in Users
    BY <1>1, <1>2 DEF RequestInv, PresentedInv, InsertedInv, PlaceInv
  <1>4. /\ TokensGrow(resets, used, r)
        /\ \A t \in Reqs : t \notin reqs[r].targets => used[t] = resets[t]
    BY <1>3, UsedGrows
  <1>5. used[r].state = "absent" /\ used \in [Reqs -> Token]
    BY <1>3, <1>4 DEF TokensGrow
  <1> HIDE DEF used
  <1>6. /\ TokensGrow(used, resets', r) /\ resets'[r].user = User(r)
        /\ \A t \in Reqs : t # r => resets'[t] = used[t]
    BY <1>1, <1>3, <1>5, IssuedGrows
  <1>7. TokensGrow(resets, resets', r)
    BY <1>4, <1>6 DEF TokensGrow
  <1>8. TablesGrow(r)
    BY <1>1, <1>7, AccountsKept, TokensKept, SessionsKept DEF TablesGrow
  <1>9. Moved(r, "mail", User(r), reqs[r].result)
    BY <1>1, GoOnMoved DEF Pcs
  <1>10. RequestInv(r)' /\ Exists(User(r))'
    <2>1. Exists(User(r))'
      BY <1>1, <1>2, <1>9 DEF Moved, RequestInv, PlaceInv, Exists
    <2> QED
      BY <1>1, <1>2, <1>8, <1>9, <2>1, PlaceKept
      DEF OnCourse, Pcs, RequestInv, InsertedInv, Moved
  <1>11. ResetInv'
    <2>1. \A q \in Reqs : reqs'[q].pc = "commit" =>
             reqs[q].pc = "commit" /\ Tok(q)' = Tok(q)
      BY <1>9 DEF Moved, OthersWait, Tok
    <2>2. ASSUME NEW q \in Reqs, reqs[q].pc = "commit"
          PROVE  resets'[Tok(q)] = resets[Tok(q)]
      <3>1. Tok(q) \in Reqs /\ resets[Tok(q)].state # "absent"
        BY <2>2, RequestFields
        DEF AuthInv, RequestInv, PresentedInv, PlaceInv, OnCourse
      <3>2. Tok(q) \notin reqs[r].targets /\ Tok(q) # r
        BY <1>1, <1>3, <2>2, <3>1 DEF LockedResets
      <3> QED
        BY <1>4, <1>6, <3>1, <3>2
    <2> QED
      BY <2>1, <2>2 DEF AuthInv, ResetInv
  <1>12. AccountInv'
    BY <1>1, AccountInvKept DEF AuthInv
  <1>13. ~Won(r)'
    BY <1>1, <1>9 DEF Moved, Won
  <1>14. Exists(resets[r].user)'
    BY <1>6, <1>9, <1>10 DEF Moved, Exists
  <1> QED
    BY <1>1, <1>8, <1>9, <1>10, <1>11, <1>12, <1>13, <1>14, Stepped DEF Moved

\* The links of an account are marked, whoever presented them.
LEMMA RevokeLinksStep ==
  ASSUME AuthInv, NEW r \in Reqs, RevokeLinks(r)
  PROVE  AuthStep
  <1> USE TypesOfAuthInv
  <1>1. /\ reqs[r].op \in {"register", "resend"} /\ reqs[r].pc = "unsend"
        /\ GoOn(r, "issue") /\ UNCHANGED <<users, sessions, resets, clients>>
        /\ links' = Used(links, Pending(links, User(r)))
    BY DEF RevokeLinks, Is
  <1>2. RequestInv(r)
    BY DEF AuthInv
  <1>3. \A t \in Reqs : t \in Pending(links, User(r)) => links[t].state # "absent"
    BY DEF Pending
  <1>4. /\ TokensGrow(links, links', r)
        /\ \A t \in Reqs : t \notin Pending(links, User(r)) => links'[t] = links[t]
    BY <1>1, <1>3, UsedGrows
  <1>5. TablesGrow(r)
    BY <1>1, <1>4, AccountsKept, TokensKept, SessionsKept DEF TablesGrow
  <1>6. Moved(r, "issue", User(r), reqs[r].result)
    BY <1>1, GoOnMoved DEF Pcs
  <1>7. Exists(User(r))'
    BY <1>1, <1>2, <1>6 DEF Moved, RequestInv, PlaceInv, Exists
  <1>8. links'[r].state = "absent"
    BY <1>1, <1>2, <1>3, <1>4 DEF RequestInv, InsertedInv
  <1>9. InsertedInv(r)'
    BY <1>1, <1>2, <1>8 DEF RequestInv, InsertedInv
  <1>10. RequestInv(r)'
    BY <1>1, <1>2, <1>5, <1>6, <1>7, <1>9, PlaceKept DEF OnCourse, Pcs, RequestInv
  <1>11. ResetInv'
    BY <1>1, <1>6, ResetInvKept DEF Moved
  <1>12. AccountInv'
    <2>1. \A t \in Reqs : links'[t].state # "absent" =>
             links[t].state # "absent" /\ links'[t].user = links[t].user
      BY <1>3, <1>4 DEF TokensGrow
    <2> QED
      BY <1>1, <2>1 DEF AuthInv, AccountInv, Exists
  <1>13. ~Won(r)'
    BY <1>1, <1>6 DEF Moved, Won
  <1> QED
    BY <1>1, <1>5, <1>6, <1>8, <1>10, <1>11, <1>12, <1>13, Stepped DEF Moved

LEMMA CreateLinkStep ==
  ASSUME AuthInv, NEW r \in Reqs, CreateLink(r)
  PROVE  AuthStep
  <1> USE TypesOfAuthInv
  <1>1. /\ reqs[r].op \in {"register", "resend"} /\ reqs[r].pc = "issue"
        /\ GoOn(r, "mail") /\ UNCHANGED <<users, sessions, resets, clients>>
        /\ links' = Issued(links, r, User(r))
    BY DEF CreateLink, Is
  <1>2. RequestInv(r)
    BY DEF AuthInv
  <1>3. links[r].state = "absent" /\ User(r) \in Users /\ Exists(User(r))
    BY <1>1, <1>2 DEF RequestInv, InsertedInv, PlaceInv
  <1>4. /\ TokensGrow(links, links', r) /\ links'[r].user = User(r)
        /\ \A t \in Reqs : t # r => links'[t] = links[t]
    BY <1>1, <1>3, IssuedGrows
  <1>5. TablesGrow(r)
    BY <1>1, <1>4, AccountsKept, TokensKept, SessionsKept DEF TablesGrow
  <1>6. Moved(r, "mail", User(r), reqs[r].result)
    BY <1>1, GoOnMoved DEF Pcs
  <1>7. Exists(User(r))'
    BY <1>1, <1>3, <1>6 DEF Moved, Exists
  <1>8. RequestInv(r)'
    BY <1>1, <1>2, <1>5, <1>6, <1>7, PlaceKept
    DEF OnCourse, Pcs, RequestInv, InsertedInv, Moved
  <1>9. ResetInv'
    BY <1>1, <1>6, ResetInvKept DEF Moved
  <1>10. AccountInv'
    BY <1>1, <1>3, <1>4 DEF AuthInv, AccountInv, Exists
  <1>11. ~Won(r)'
    BY <1>1, <1>6 DEF Moved, Won
  <1>12. Exists(links[r].user)'
    BY <1>4, <1>6, <1>7 DEF Moved, Exists
  <1> QED
    BY <1>1, <1>5, <1>6, <1>8, <1>9, <1>10, <1>11, <1>12, Stepped DEF Moved

LEMMA UseLinkStep ==
  ASSUME AuthInv, NEW r \in Reqs, UseLink(r)
  PROVE  AuthStep
  <1> USE TypesOfAuthInv
  <1>1. reqs[r].op = "verify" /\ reqs[r].pc = "consume"
        /\ UNCHANGED <<users, sessions, resets, clients>>
    BY DEF UseLink, Is
  <1>2. CASE links[Tok(r)].state = "used"
    BY <1>1, <1>2, EndStepped DEF UseLink, authTables
  <1>3. CASE links[Tok(r)].state # "used"
    <2>1. links' = Used(links, {Tok(r)}) /\ GoOn(r, "verify")
      BY <1>3 DEF UseLink
    <2>2. RequestInv(r)
      BY DEF AuthInv
    <2>3. Tok(r) \in Reqs /\ links[Tok(r)].state # "absent"
      BY <1>1, <2>2, RequestFields DEF RequestInv, PresentedInv
    <2>4. /\ TokensGrow(links, links', r) /\ links'[Tok(r)].state = "used"
          /\ \A t \in Reqs : t # Tok(r) => links'[t] = links[t]
      <3> DEFINE targets == {Tok(r)}
      <3>1. /\ \A t \in Reqs : t \in targets => links[t].state # "absent"
            /\ \A t \in Reqs : t \in targets <=> t = Tok(r)
        BY <2>3
      <3>2. links' = Used(links, targets)
        BY <2>1
      <3> HIDE DEF targets
      <3> QED
        BY <2>3, <3>1, <3>2, UsedGrows
    <2>5. TablesGrow(r)
      BY <1>1, <2>4, AccountsKept, TokensKept, SessionsKept DEF TablesGrow
    <2>6. Moved(r, "verify", User(r), reqs[r].result)
      BY <2>1, GoOnMoved DEF Pcs
    <2>7. Tok(r) # r
      BY <1>1, <2>2, <2>3 DEF RequestInv, InsertedInv
    <2>8. PlaceInv(r)' /\ PresentedInv(r)' /\ ConsumedInv(r)'
      BY <1>1, <2>2, <2>3, <2>4, <2>6
      DEF Moved, RequestInv, PlaceInv, OnCourse, PresentedInv, ConsumedInv, Exists
    <2>9. InsertedInv(r)' /\ CheckedInv(r)'
      BY <1>1, <2>2, <2>4, <2>6, <2>7
      DEF Moved, RequestInv, PlaceInv, InsertedInv, CheckedInv
    <2>10. ResetInv'
      BY <1>1, <2>6, ResetInvKept DEF Moved
    <2>11. AccountInv'
      BY <1>1, <2>3, <2>4 DEF AuthInv, AccountInv, Exists, TokensGrow
    <2>12. Won(r)' => \A q \in Reqs : q # r /\ Won(q) =>
                         ~(reqs'[r].op = reqs[q].op /\ Tok(r)' = Tok(q))
      BY <1>1, <1>3, <2>6 DEF Moved, Won, AuthInv, RequestInv, ConsumedInv
    <2> QED
      BY <1>1, <2>4, <2>5, <2>6, <2>7, <2>8, <2>9, <2>10, <2>11, <2>12, Stepped
      DEF Moved, RequestInv
  <1> QED
    BY <1>2, <1>3

-----------------------------------------------------------------------------
(* The steps that write accounts.                                           *)

\* A row that changes in what it may, or one that is inserted.
LEMMA AccountSet ==
  ASSUME AuthInv, NEW u \in Users, NEW a \in Account,
         users' = [users EXCEPT ![u] = a], UNCHANGED links,
         a.provider # "none",
         users[u].disabled => a.disabled,
         users[u].verified => a.verified,
         users[u].subject # None => a.subject # None,
         a.subject # None => a.verified
  PROVE  AccountsGrow /\ AccountInv' /\ users'[u] = a
  <1> USE TypesOfAuthInv
  <1>1. /\ users'[u] = a /\ users' \in [Users -> Account]
        /\ \A v \in Users : v # u => users'[v] = users[v]
    OBVIOUS
  <1>2. AccountsGrow
    BY <1>1 DEF AccountsGrow, Exists
  <1>3. AccountInv'
    BY <1>1, TokenFields DEF AuthInv, AccountInv, Exists
  <1> QED
    BY <1>1, <1>2, <1>3

LEMMA WithPasswordSet ==
  ASSUME AuthInv, NEW u \in Users, Exists(u), NEW p \in Passwords,
         users' = WithPassword(u, p), UNCHANGED links
  PROVE  /\ AccountsGrow /\ AccountInv'
         /\ users'[u].verified = users[u].verified
         /\ users'[u].subject = users[u].subject
  <1> USE TypesOfAuthInv
  <1> DEFINE a == [users[u] EXCEPT !.password = p, !.current = TRUE]
  <1>1. users[u] \in Account
    OBVIOUS
  <1>2. /\ a \in Account /\ a.provider = users[u].provider
        /\ a.disabled = users[u].disabled /\ a.verified = users[u].verified
        /\ a.subject = users[u].subject
    BY <1>1 DEF Account
  <1>3. users' = [users EXCEPT ![u] = a]
    BY DEF WithPassword
  <1>4. a.provider # "none" /\ (a.subject # None => a.verified)
    BY <1>2 DEF Exists, AuthInv, AccountInv
  <1> HIDE DEF a
  <1>5. AccountsGrow /\ AccountInv' /\ users'[u] = a
    BY <1>2, <1>3, <1>4, AccountSet
  <1> QED
    BY <1>2, <1>5

LEMMA RehashStep ==
  ASSUME AuthInv, NEW r \in Reqs, Rehash(r)
  PROVE  AuthStep
  <1> USE TypesOfAuthInv
  <1>1. /\ reqs[r].op = "login" /\ reqs[r].pc = "rehash" /\ GoOn(r, "open")
        /\ users' = WithPassword(User(r), reqs[r].password)
        /\ UNCHANGED <<sessions, resets, links, clients>>
    BY DEF Rehash, Is
  <1>2. RequestInv(r)
    BY DEF AuthInv
  <1>3. /\ User(r) \in Users /\ User(r) \notin reqs[r].barred
        /\ users[User(r)].verified /\ Exists(User(r))
    BY <1>1, <1>2 DEF RequestInv, CheckedInv, AuthInv, AccountInv
  <1>4. /\ AccountsGrow /\ AccountInv'
        /\ users'[User(r)].verified
    BY <1>1, <1>3, RequestFields, WithPasswordSet
  <1>5. TablesGrow(r)
    BY <1>1, <1>4, TokensKept, SessionsKept DEF TablesGrow
  <1>6. Moved(r, "open", User(r), reqs[r].result)
    BY <1>1, GoOnMoved DEF Pcs
  <1>7. PlaceInv(r)' /\ PresentedInv(r)' /\ ConsumedInv(r)' /\ InsertedInv(r)'
    BY <1>1, <1>2, <1>6
    DEF Moved, RequestInv, PlaceInv, OnCourse, PresentedInv, ConsumedInv, InsertedInv
  <1>8. CheckedInv(r)'
    BY <1>1, <1>2, <1>3, <1>4, <1>6, RequestFields
    DEF Moved, RequestInv, PlaceInv, CheckedInv, AccountsGrow
  <1>9. ResetInv'
    BY <1>1, <1>6, ResetInvKept DEF Moved
  <1>10. ~Won(r)'
    BY <1>1, <1>6 DEF Moved, Won
  <1> QED
    BY <1>1, <1>4, <1>5, <1>6, <1>7, <1>8, <1>9, <1>10, Stepped DEF Moved, RequestInv

LEMMA CreateStep ==
  ASSUME AuthInv, NEW r \in Reqs, Create(r)
  PROVE  AuthStep
  <1> USE TypesOfAuthInv
  <1>1. /\ reqs[r].op = "register" /\ reqs[r].pc = "create"
        /\ UNCHANGED <<sessions, resets, links, clients>>
    BY DEF Create, Is
  <1>2. CASE Conflicts(User(r), None)
    BY <1>1, <1>2, EndStepped DEF Create, authTables
  <1>3. CASE ~Conflicts(User(r), None)
    <2> DEFINE a == [NoAccount EXCEPT !.provider = "password",
                                      !.password = reqs[r].password]
    <2>1. RequestInv(r)
      BY DEF AuthInv
    <2>2. User(r) \in Users /\ ~Exists(User(r)) /\ reqs[r].password \in Passwords
      BY <1>1, <1>3, <2>1, RequestFields DEF RequestInv, PlaceInv, Conflicts
    <2>3. /\ a \in Account /\ a.provider = "password" /\ a.subject = None
      <3>1. NoAccount \in Account
        BY MaxRequestsAssumption DEF NoAccount, Account, Passwords
      <3> QED
        BY <2>2, <3>1 DEF NoAccount, Account
    <2>4. users' = [users EXCEPT ![User(r)] = a] /\ GoOn(r, "unsend")
      BY <1>3 DEF Create
    <2>5. ~users[User(r)].disabled /\ ~users[User(r)].verified
          /\ users[User(r)].subject = None
      BY <2>2 DEF AuthInv, AccountInv
    <2>6. AccountsGrow /\ AccountInv' /\ users'[User(r)] = a
      <3> HIDE DEF a
      <3> QED
        BY <1>1, <2>2, <2>3, <2>4, <2>5, AccountSet
    <2>7. TablesGrow(r)
      BY <1>1, <2>6, TokensKept, SessionsKept DEF TablesGrow
    <2>8. Moved(r, "unsend", User(r), reqs[r].result)
      BY <2>4, GoOnMoved DEF Pcs
    <2>9. Exists(User(r))'
      BY <2>3, <2>6, <2>8 DEF Moved, Exists
    <2>10. RequestInv(r)'
      BY <1>1, <2>1, <2>7, <2>8, <2>9, PlaceKept
      DEF OnCourse, Pcs, RequestInv, InsertedInv
    <2>11. ResetInv'
      BY <1>1, <2>8, ResetInvKept DEF Moved
    <2>12. ~Won(r)'
      BY <1>1, <2>8 DEF Moved, Won
    <2> QED
      BY <1>1, <2>6, <2>7, <2>8, <2>10, <2>11, <2>12, Stepped DEF Moved
  <1> QED
    BY <1>2, <1>3

LEMMA VerifyUserStep ==
  ASSUME AuthInv, NEW r \in Reqs, VerifyUser(r)
  PROVE  AuthStep
  <1> USE TypesOfAuthInv
  <1> DEFINE u == User(r)
             a == [users[u] EXCEPT !.verified = TRUE]
  <1>1. reqs[r].pc = "verify" /\ UNCHANGED <<sessions, resets, links, clients>>
        /\ users' = [users EXCEPT ![u] = a]
    BY DEF VerifyUser
  <1>2. RequestInv(r) /\ reqs[r].op = "verify"
    BY <1>1 DEF AuthInv, RequestInv, PlaceInv, OnCourse
  <1>3. u \in Users /\ Exists(u)
    BY <1>1, <1>2 DEF RequestInv, PlaceInv
  <1>4. users[u] \in Account
    BY <1>3
  <1>5. /\ a \in Account /\ a.provider = users[u].provider
        /\ a.disabled = users[u].disabled /\ a.verified
        /\ a.subject = users[u].subject
    BY <1>4 DEF Account
  <1> HIDE DEF a
  <1>6. AccountsGrow /\ AccountInv' /\ users'[u] = a
    BY <1>1, <1>3, <1>5, AccountSet DEF Exists
  <1>7. TablesGrow(r)
    BY <1>1, <1>6, TokensKept, SessionsKept DEF TablesGrow
  <1>8. CASE users[u].disabled
    <2>1. End(r, "rejected")
      BY <1>8 DEF VerifyUser
    <2>2. Moved(r, "done", u, "rejected")
      BY <2>1, EndMoved DEF Results
    <2>3. RequestInv(r)'
      BY <1>2, <1>7, <2>2, DoneKept DEF Results
    <2>4. ResetInv'
      BY <1>1, <2>2, ResetInvKept DEF Moved
    <2>5. ~Won(r)'
      BY <1>2, <2>2 DEF Moved, Won
    <2> QED
      BY <1>1, <1>6, <1>7, <2>2, <2>3, <2>4, <2>5, Stepped DEF Moved
  <1>9. CASE ~users[u].disabled
    <2>1. GoOn(r, "open")
      BY <1>9 DEF VerifyUser
    <2>2. Moved(r, "open", u, reqs[r].result)
      BY <2>1, GoOnMoved DEF Pcs
    <2>3. u \notin reqs[r].barred
      BY <1>2, <1>9 DEF RequestInv, CheckedInv
    <2>4. PlaceInv(r)' /\ PresentedInv(r)' /\ ConsumedInv(r)' /\ InsertedInv(r)'
      BY <1>1, <1>2, <1>3, <1>5, <1>6, <2>2
      DEF Moved, RequestInv, PlaceInv, OnCourse, PresentedInv, ConsumedInv,
          InsertedInv, Exists
    <2>5. CheckedInv(r)'
      BY <1>1, <1>2, <1>3, <1>5, <1>6, <2>2, <2>3, RequestFields
      DEF Moved, RequestInv, PlaceInv, CheckedInv, AccountsGrow
    <2>6. ResetInv'
      BY <1>1, <2>2, ResetInvKept DEF Moved
    <2>7. Won(r)' => \A q \in Reqs : q # r /\ Won(q) =>
                        ~(reqs'[r].op = reqs[q].op /\ Tok(r)' = Tok(q))
      BY <1>1, <1>2, <2>2 DEF Moved, Won, AuthInv, TokensWorkOnce
    <2> QED
      BY <1>1, <1>6, <1>7, <2>2, <2>4, <2>5, <2>6, <2>7, Stepped DEF Moved, RequestInv
  <1> QED
    BY <1>8, <1>9

-----------------------------------------------------------------------------
(* The steps that write sessions.                                           *)

\* What a request has to know when it is to answer with its session.
LEMMA AnswersNext ==
  ASSUME AuthInv, NEW r \in Reqs, TablesGrow(r),
         Moved(r, "answer", User(r), reqs[r].result),
         reqs[r].pc \notin {"idle", "done"}, OnCourse(reqs[r].op, "answer"),
         reqs[r].op = "verify" => Won(r),
         sessions'[r].state # "absent", sessions'[r].user \notin reqs[r].barred,
         resets' = resets, links' = links,
         reqs[r].pc \notin {"mail", "done"}
  PROVE  RequestInv(r)'
  <1> USE TypesOfAuthInv
  <1>1. RequestInv(r)
    BY DEF AuthInv
  <1>2. /\ reqs'[r].pc = "answer" /\ User(r)' = User(r) /\ reqs'[r].result = "none"
        /\ reqs'[r].op = reqs[r].op /\ Tok(r)' = Tok(r)
        /\ reqs'[r].barred = reqs[r].barred /\ reqs'[r].subject = reqs[r].subject
    BY <1>1 DEF Moved, RequestInv, PlaceInv
  <1>3. /\ Tok(r) # 0 => Tok(r) \in Reqs
        /\ reqs[r].barred \subseteq Users
    BY RequestFields
  <1>4. PlaceInv(r)'
    BY <1>1, <1>2 DEF RequestInv, PlaceInv, OnCourse
  <1>5. PresentedInv(r)'
    BY <1>1, <1>2, <1>3
    DEF RequestInv, PresentedInv, TablesGrow, SessionsMove, SessionsGrow
  <1>6. InsertedInv(r)'
    BY <1>1, <1>2 DEF RequestInv, InsertedInv
  <1>7. CheckedInv(r)'
    BY <1>1, <1>2, <1>3 DEF RequestInv, CheckedInv, TablesGrow, AccountsGrow
  <1>8. ConsumedInv(r)'
    BY <1>1, <1>2 DEF RequestInv, PlaceInv, ConsumedInv, Won
  <1> QED
    BY <1>4, <1>5, <1>6, <1>7, <1>8 DEF RequestInv

LEMMA OpenStep ==
  ASSUME AuthInv, NEW r \in Reqs, Open(r)
  PROVE  AuthStep
  <1> USE TypesOfAuthInv
  <1> DEFINE u == User(r)
  <1>1. /\ reqs[r].pc = "open" /\ sessions' = Opened(r, u) /\ GoOn(r, "answer")
        /\ UNCHANGED <<users, resets, links, clients>>
    BY DEF Open
  <1>2. RequestInv(r) /\ reqs[r].op \in {"login", "google", "verify"}
    BY <1>1 DEF AuthInv, RequestInv, PlaceInv, OnCourse
  <1>3. /\ u \in Users /\ u \notin reqs[r].barred /\ users[u].verified
        /\ reqs[r].op = "google" => users[u].subject # None
        /\ sessions[r].state = "absent"
    BY <1>1, <1>2 DEF RequestInv, CheckedInv, InsertedInv
  <1>4. /\ SessionsMove(r) /\ sessions'[r].state = "open"
        /\ sessions'[r].user = u /\ sessions'[r].family = r
    BY <1>1, <1>3, OpenedMoves
  <1>5. TablesGrow(r)
    BY <1>1, <1>4, AccountsKept, TokensKept DEF TablesGrow
  <1>6. Moved(r, "answer", u, reqs[r].result)
    BY <1>1, GoOnMoved DEF Pcs
  <1>7. reqs[r].op = "verify" => Won(r)
    BY <1>1 DEF Won
  <1>8. RequestInv(r)'
    BY <1>1, <1>2, <1>3, <1>4, <1>5, <1>6, <1>7, AnswersNext DEF OnCourse
  <1>9. ResetInv' /\ AccountInv'
    BY <1>1, <1>6, ResetInvKept, AccountInvKept DEF Moved, AuthInv
  <1>10. Won(r)' => \A q \in Reqs : q # r /\ Won(q) =>
                       ~(reqs'[r].op = reqs[q].op /\ Tok(r)' = Tok(q))
    BY <1>2, <1>6, <1>7 DEF Moved, Won, AuthInv, TokensWorkOnce, RequestInv, PlaceInv
  <1>11. /\ users'[sessions'[r].user].verified
         /\ \/ users'[sessions'[r].user].subject # None
            \/ reqs'[sessions'[r].family].op \in {"login", "verify"}
    BY <1>1, <1>2, <1>3, <1>4, <1>6 DEF Moved
  <1> QED
    BY <1>1, <1>5, <1>6, <1>8, <1>9, <1>10, <1>11, Stepped DEF Moved

LEMMA CreateGoogleUserStep ==
  ASSUME AuthInv, NEW r \in Reqs, CreateGoogleUser(r)
  PROVE  AuthStep
  <1> USE TypesOfAuthInv
  <1> DEFINE u == User(r)
             g == reqs[r].subject
  <1>1. /\ reqs[r].op = "google" /\ reqs[r].pc = "create"
        /\ UNCHANGED <<resets, links, clients>>
    BY DEF CreateGoogleUser, Is
  <1>2. RequestInv(r)
    BY DEF AuthInv
  <1>3. CASE Conflicts(u, g)
    <2>1. GoOn(r, "conflict") /\ UNCHANGED authTables
      BY <1>1, <1>3 DEF CreateGoogleUser, authTables
    <2>2. Moved(r, "conflict", u, reqs[r].result)
      BY <2>1, GoOnMoved DEF Pcs
    <2> QED
      BY <1>1, <2>1, <2>2, PlaceStepped DEF OnCourse, Pcs
  <1>4. CASE ~Conflicts(u, g)
    <2> DEFINE a == [NoAccount EXCEPT !.provider = "google", !.verified = TRUE,
                                      !.subject = g]
    <2>1. /\ u \in Users /\ ~Exists(u) /\ g \in Subjects
          /\ sessions[r].state = "absent"
      BY <1>1, <1>2, <1>4 DEF RequestInv, PlaceInv, InsertedInv, Conflicts
    <2>2. /\ users' = [users EXCEPT ![u] = a] /\ sessions' = Opened(r, u)
          /\ GoOn(r, "answer")
      BY <1>4 DEF CreateGoogleUser
    <2>3. /\ a \in Account /\ a.provider = "google" /\ a.verified /\ a.subject = g
      <3>1. NoAccount \in Account
        BY MaxRequestsAssumption DEF NoAccount, Account, Passwords
      <3> QED
        BY <2>1, <3>1 DEF NoAccount, Account
    <2>4. ~users[u].disabled /\ ~users[u].verified /\ users[u].subject = None
      BY <2>1 DEF AuthInv, AccountInv
    <2>5. g # None
      BY <2>1, NoneAssumption
    <2>6. AccountsGrow /\ AccountInv' /\ users'[u] = a
      <3> HIDE DEF a
      <3> QED
        BY <1>1, <2>1, <2>2, <2>3, <2>4, AccountSet
    <2>7. /\ SessionsMove(r) /\ sessions'[r].state = "open"
          /\ sessions'[r].user = u /\ sessions'[r].family = r
      BY <2>1, <2>2, OpenedMoves
    <2>8. TablesGrow(r)
      BY <1>1, <2>6, <2>7, TokensKept DEF TablesGrow
    <2>9. Moved(r, "answer", u, reqs[r].result)
      BY <2>2, GoOnMoved DEF Pcs
    <2>10. u \notin reqs[r].barred
      BY <1>2, <2>4 DEF RequestInv, CheckedInv
    <2>11. RequestInv(r)'
      BY <1>1, <2>7, <2>8, <2>9, <2>10, AnswersNext DEF OnCourse
    <2>12. ResetInv'
      BY <1>1, <2>9, ResetInvKept DEF Moved
    <2>13. ~Won(r)'
      BY <1>1, <2>9 DEF Moved, Won
    <2>14. users'[sessions'[r].user].verified /\ users'[sessions'[r].user].subject # None
      BY <2>3, <2>5, <2>6, <2>7
    <2> QED
      BY <1>1, <2>6, <2>8, <2>9, <2>11, <2>12, <2>13, <2>14, Stepped DEF Moved
  <1> QED
    BY <1>3, <1>4

LEMMA LockSessionStep ==
  ASSUME AuthInv, NEW r \in Reqs, LockSession(r)
  PROVE  AuthStep
  <1> USE TypesOfAuthInv
  <1> DEFINE row == sessions[Tok(r)]
  <1>1. /\ reqs[r].op = "refresh" /\ reqs[r].pc = "lock"
        /\ UNCHANGED <<users, resets, links, clients>>
    BY DEF LockSession, Is
  <1>2. RequestInv(r)
    BY DEF AuthInv
  <1>3. CASE Tok(r) = 0
    BY <1>1, <1>3, EndStepped DEF LockSession, authTables
  <1>4. CASE Tok(r) # 0
    <2>1. /\ Tok(r) \in Reqs /\ row.state # "absent"
          /\ row.state \in {"open", "expired", "revoked", "replaced"}
          /\ row.user \in Users
      BY <1>1, <1>2, <1>4, RequestFields, SessionFields
      DEF RequestInv, PresentedInv, SessionsOK
    <2>2. CASE row.state \in {"revoked", "replaced"}
      <3>1. /\ Waiting(r, "revoke", row.user, FamilyOf(row.family))
            /\ UNCHANGED authTables
        BY <1>1, <1>4, <2>2 DEF LockSession, authTables
      <3>2. Moved(r, "revoke", row.user, reqs[r].result)
        BY <2>1, <3>1, WaitingMoved DEF Pcs, FamilyOf
      <3>3. UNCHANGED <<users, sessions, resets, links>>
        BY <3>1 DEF authTables
      <3>4. RequestInv(r)'
        BY <1>1, <1>2, <1>4, <3>2, <3>3
        DEF Moved, RequestInv, PlaceInv, OnCourse, PresentedInv, InsertedInv,
            CheckedInv, ConsumedInv
      <3>5. Won(r)' => Won(r)
        BY <1>1, <3>2 DEF Moved, Won
      <3> QED
        BY <1>1, <3>1, <3>2, <3>4, <3>5, ReadStepped
    <2>3. CASE row.state = "expired"
      <3>1. sessions' = Revoked({Tok(r)}) /\ End(r, "rejected")
        BY <1>4, <2>3 DEF LockSession
      <3>2. SessionsMove(r)
        BY <3>1, RevokedMoves
      <3>3. TablesGrow(r)
        BY <1>1, <3>2, AccountsKept, TokensKept DEF TablesGrow
      <3>4. Moved(r, "done", User(r), "rejected")
        BY <3>1, EndMoved DEF Results
      <3>5. RequestInv(r)'
        BY <1>1, <3>3, <3>4, DoneKept DEF Results
      <3>6. ResetInv' /\ AccountInv'
        BY <1>1, <3>4, ResetInvKept, AccountInvKept DEF Moved, AuthInv
      <3>7. ~Won(r)' /\ sessions[r].state = sessions[r].state
        BY <1>1, <3>4 DEF Moved, Won
      <3>8. sessions[r].state = "absent" => sessions'[r].state = "absent"
        BY <3>1 DEF Revoked, Unrevoked
      <3> QED
        BY <1>1, <3>3, <3>4, <3>5, <3>6, <3>7, <3>8, Stepped DEF Moved
    <2>4. CASE row.state = "open"
      <3>1. PICK pc \in {"rotate", "evict"} :
               /\ GoOnFor(r, pc, row.user) /\ UNCHANGED sessions
               /\ pc = "rotate" => ~users[row.user].disabled
        BY <1>4, <2>4 DEF LockSession
      <3>2. Moved(r, pc, row.user, reqs[r].result)
        BY <2>1, <3>1, GoOnForMoved DEF Pcs
      <3>3. UNCHANGED <<users, sessions, resets, links>> /\ UNCHANGED authTables
        BY <1>1, <3>1 DEF authTables
      <3>4. RequestInv(r)'
        BY <1>1, <1>2, <1>4, <3>1, <3>2, <3>3
        DEF Moved, RequestInv, PlaceInv, OnCourse, PresentedInv, InsertedInv,
            CheckedInv, ConsumedInv
      <3>5. Won(r)' => Won(r)
        BY <1>1, <3>2 DEF Moved, Won
      <3> QED
        BY <1>1, <3>1, <3>2, <3>3, <3>4, <3>5, ReadStepped
    <2> QED
      BY <2>1, <2>2, <2>3, <2>4
  <1> QED
    BY <1>3, <1>4

LEMMA RotateStep ==
  ASSUME AuthInv, NEW r \in Reqs, Rotate(r)
  PROVE  AuthStep
  <1> USE TypesOfAuthInv
  <1> DEFINE s == Tok(r)
  <1>1. /\ reqs[r].pc \in {"rotate", "evict"}
        /\ UNCHANGED <<users, resets, links, clients>>
    BY DEF Rotate
  <1>2. RequestInv(r) /\ reqs[r].op = "refresh"
    BY <1>1 DEF AuthInv, RequestInv, PlaceInv, OnCourse
  <1>3. s \in Reqs /\ sessions[s].state # "absent" /\ sessions[r].state = "absent"
    BY <1>1, <1>2, RequestFields DEF RequestInv, PresentedInv, InsertedInv
  <1>4. CASE ~Unrevoked(s)
    BY <1>1, <1>2, <1>4, EndStepped DEF Rotate, authTables
  <1>5. CASE Unrevoked(s)
    <2>1. PICK pc \in {"answer", "revoke_start"} :
             /\ GoOn(r, pc) /\ sessions' = Rotated(s, r)
             /\ pc = "answer" => reqs[r].pc = "rotate"
      BY <1>1, <1>5 DEF Rotate
    <2>2. /\ SessionsMove(r) /\ sessions'[r].state = "open"
          /\ sessions'[r].user = sessions[s].user
          /\ sessions'[r].family = sessions[s].family
      BY <1>3, <1>5, <2>1, RotatedMoves
    <2>3. TablesGrow(r)
      BY <1>1, <2>2, AccountsKept, TokensKept DEF TablesGrow
    <2>4. Moved(r, pc, User(r), reqs[r].result)
      BY <2>1, GoOnMoved DEF Pcs
    <2>5. RequestInv(r)'
      <3>1. CASE pc = "answer"
        <4>1. sessions'[r].user \notin reqs[r].barred
          BY <1>1, <1>2, <2>1, <2>2, <3>1 DEF RequestInv, CheckedInv, PresentedInv
        <4> QED
          BY <1>1, <1>2, <2>2, <2>3, <2>4, <3>1, <4>1, AnswersNext DEF OnCourse
      <3>2. CASE pc = "revoke_start"
        BY <1>1, <1>2, <1>3, <2>3, <2>4, <3>2, PlaceKept
        DEF OnCourse, Pcs, RequestInv, InsertedInv, Moved, Reqs
      <3> QED
        BY <3>1, <3>2
    <2>6. ResetInv' /\ AccountInv'
      BY <1>1, <2>4, ResetInvKept, AccountInvKept DEF Moved, AuthInv
    <2>7. ~Won(r)'
      BY <1>2, <2>4 DEF Moved, Won
    <2>8. /\ users'[sessions'[r].user].verified
          /\ \/ users'[sessions'[r].user].subject # None
             \/ reqs'[sessions'[r].family].op \in {"login", "verify"}
      <3> DEFINE f == sessions[s].family
      <3>1. f \in Reqs /\ sessions[f].state # "absent"
        BY <1>3, SessionFields DEF SessionsOK, SessionInv, FamiliesRooted
      <3>2. f # r /\ reqs'[f].op = reqs[f].op
        BY <1>3, <2>4, <3>1 DEF Moved, OthersWait
      <3>3. /\ users[sessions[s].user].verified
            /\ \/ users[sessions[s].user].subject # None
               \/ reqs[f].op \in {"login", "verify"}
        BY <1>3 DEF AuthInv, SignedInIsVerified
      <3> QED
        BY <1>1, <2>2, <3>2, <3>3
    <2> QED
      BY <1>1, <2>3, <2>4, <2>5, <2>6, <2>7, <2>8, Stepped DEF Moved
  <1> QED
    BY <1>4, <1>5

LEMMA EndRevokeStep ==
  ASSUME AuthInv, NEW r \in Reqs, EndRevoke(r)
  PROVE  AuthStep
  <1> USE TypesOfAuthInv
  <1>1. /\ reqs[r].pc = "revoke" /\ sessions' = Revoked(reqs[r].targets)
        /\ UNCHANGED <<users, resets, links, clients>>
    BY DEF EndRevoke
  <1>2. PICK result \in {"ok", "rejected"} : End(r, result)
    BY DEF EndRevoke
  <1>3. reqs[r].op \in {"refresh", "logout"}
    BY <1>1 DEF AuthInv, RequestInv, PlaceInv, OnCourse
  <1>4. SessionsMove(r)
    BY <1>1, RevokedMoves
  <1>5. TablesGrow(r)
    BY <1>1, <1>4, AccountsKept, TokensKept DEF TablesGrow
  <1>6. Moved(r, "done", User(r), result)
    BY <1>2, EndMoved DEF Results
  <1>7. RequestInv(r)'
    BY <1>3, <1>5, <1>6, DoneKept DEF Results
  <1>8. ResetInv' /\ AccountInv'
    BY <1>1, <1>6, ResetInvKept, AccountInvKept DEF Moved, AuthInv
  <1>9. ~Won(r)'
    BY <1>3, <1>6 DEF Moved, Won
  <1>10. sessions[r].state = "absent" => sessions'[r].state = "absent"
    BY <1>1 DEF Revoked, Unrevoked
  <1> QED
    BY <1>1, <1>5, <1>6, <1>7, <1>8, <1>9, <1>10, Stepped DEF Moved

LEMMA CommitResetStep ==
  ASSUME AuthInv, NEW r \in Reqs, CommitReset(r)
  PROVE  AuthStep
  <1> USE TypesOfAuthInv
  <1>1. /\ reqs[r].pc = "commit" /\ resets' = Used(resets, {Tok(r)})
        /\ users' = WithPassword(User(r), reqs[r].password)
        /\ sessions' = Revoked(reqs[r].targets) /\ End(r, "ok")
        /\ UNCHANGED <<links, clients>>
    BY DEF CommitReset
  <1>2. RequestInv(r) /\ reqs[r].op = "reset"
    BY <1>1 DEF AuthInv, RequestInv, PlaceInv, OnCourse
  <1>3. /\ Tok(r) \in Reqs /\ User(r) \in Users /\ Exists(User(r))
        /\ resets[Tok(r)].state # "absent"
    BY <1>1, <1>2, RequestFields, TokenFields
    DEF RequestInv, PresentedInv, AuthInv, OwnersInv
  <1>4. AccountsGrow /\ AccountInv'
    BY <1>1, <1>3, RequestFields, WithPasswordSet
  <1>5. SessionsMove(r)
    BY <1>1, RevokedMoves
  <1>6. /\ TokensGrow(resets, resets', r) /\ resets'[Tok(r)].state = "used"
        /\ \A t \in Reqs : t # Tok(r) => resets'[t] = resets[t]
    <2> DEFINE targets == {Tok(r)}
    <2>1. /\ \A t \in Reqs : t \in targets => resets[t].state # "absent"
          /\ \A t \in Reqs : t \in targets <=> t = Tok(r)
      BY <1>3
    <2>2. resets' = Used(resets, targets)
      BY <1>1
    <2> HIDE DEF targets
    <2> QED
      BY <1>3, <2>1, <2>2, UsedGrows
  <1>7. TablesGrow(r)
    BY <1>1, <1>4, <1>5, <1>6, TokensKept DEF TablesGrow
  <1>8. Moved(r, "done", User(r), "ok")
    BY <1>1, EndMoved DEF Results
  <1>9. RequestInv(r)'
    <2>1. PlaceInv(r)' /\ PresentedInv(r)' /\ InsertedInv(r)' /\ ConsumedInv(r)'
      BY <1>2, <1>6, <1>8
      DEF Moved, RequestInv, PlaceInv, OnCourse, Ops, PresentedInv, InsertedInv,
          ConsumedInv
    <2>2. CheckedInv(r)'
      BY <1>1, <1>2, <1>4, <1>8, RequestFields
      DEF Moved, RequestInv, PlaceInv, CheckedInv, AccountsGrow
    <2> QED
      BY <2>1, <2>2 DEF RequestInv
  <1>10. ResetInv'
    <2>1. \A q \in Reqs : reqs'[q].pc = "commit" =>
             q # r /\ reqs[q].pc = "commit" /\ Tok(q)' = Tok(q)
      BY <1>8 DEF Moved, OthersWait, Tok
    <2>2. \A q \in Reqs : q # r /\ reqs[q].pc = "commit" =>
             Tok(q) \in Reqs /\ Tok(q) # Tok(r)
      BY <1>1, RequestFields
      DEF AuthInv, ResetInv, RequestInv, PresentedInv, PlaceInv, OnCourse
    <2> QED
      BY <1>6, <2>1, <2>2 DEF AuthInv, ResetInv
  <1>11. Won(r)' => \A q \in Reqs : q # r /\ Won(q) =>
                       ~(reqs'[r].op = reqs[q].op /\ Tok(r)' = Tok(q))
    BY <1>1, <1>2, <1>8 DEF Moved, Won, AuthInv, RequestInv, ConsumedInv, ResetInv
  <1>12. sessions[r].state = "absent" => sessions'[r].state = "absent"
    BY <1>1 DEF Revoked, Unrevoked
  <1>13. resets[r].state = "absent" => resets'[r].state = "absent"
    BY <1>3, <1>6
  <1> QED
    BY <1>1, <1>4, <1>7, <1>8, <1>9, <1>10, <1>11, <1>12, <1>13, Stepped DEF Moved

-----------------------------------------------------------------------------
(* Clocks and operators.                                                    *)

LEMMA ExpireSessionStep ==
  ASSUME AuthInv, NEW s \in Reqs, ExpireSession(s)
  PROVE  AuthStep
  <1> USE TypesOfAuthInv
  <1>1. /\ sessions[s].state = "open"
        /\ sessions' = [sessions EXCEPT ![s] = [@ EXCEPT !.state = "expired"]]
        /\ UNCHANGED <<users, resets, links, clients, reqs>>
    BY DEF ExpireSession
  <1>2. TablesGrow(0)
    BY <1>1, ExpiredMoves, AccountsKept, TokensKept DEF TablesGrow
  <1>3. AccountInv' /\ ResetInv'
    BY <1>1 DEF AuthInv, AccountInv, ResetInv, Exists, Tok
  <1> QED
    BY <1>1, <1>2, <1>3, EnvironmentStepped

LEMMA ExpiredGrows ==
  ASSUME NEW table \in [Reqs -> Token], NEW t \in Reqs, table[t].state = "pending",
         NEW after, after = [table EXCEPT ![t] = [@ EXCEPT !.state = "expired"]]
  PROVE  /\ TokensGrow(table, after, 0)
         /\ after[t].state = "expired"
         /\ \A q \in Reqs : q # t => after[q] = table[q]
  <1>1. table[t] \in [state : {"pending", "expired", "used"}, user : Users]
    BY DEF Token, NoToken
  <1>2. /\ after[t] \in Token /\ after[t].state = "expired"
        /\ after[t].user = table[t].user
        /\ \A q \in Reqs : q # t => after[q] = table[q]
    BY <1>1 DEF Token
  <1>3. after \in [Reqs -> Token]
    BY <1>2
  <1> QED
    BY <1>2, <1>3 DEF TokensGrow

LEMMA ExpireResetStep ==
  ASSUME AuthInv, NEW t \in Reqs, ExpireReset(t)
  PROVE  AuthStep
  <1> USE TypesOfAuthInv
  <1>1. /\ resets[t].state = "pending"
        /\ resets' = [resets EXCEPT ![t] = [@ EXCEPT !.state = "expired"]]
        /\ UNCHANGED <<users, sessions, links, clients, reqs>>
    BY DEF ExpireReset
  <1>2. /\ TokensGrow(resets, resets', 0) /\ resets'[t].state = "expired"
        /\ \A q \in Reqs : q # t => resets'[q] = resets[q]
    BY <1>1, ExpiredGrows
  <1>3. TablesGrow(0)
    BY <1>1, <1>2, SessionsKept, AccountsKept, TokensKept DEF TablesGrow
  <1>4. \A q \in Reqs : reqs[q].pc = "commit" => Tok(q) \in Reqs
    BY RequestFields DEF AuthInv, RequestInv, PresentedInv, PlaceInv, OnCourse
  <1>5. AccountInv' /\ ResetInv'
    BY <1>1, <1>2, <1>4 DEF AuthInv, AccountInv, ResetInv, Exists, Tok
  <1> QED
    BY <1>1, <1>3, <1>5, EnvironmentStepped

LEMMA ExpireLinkStep ==
  ASSUME AuthInv, NEW t \in Reqs, ExpireLink(t)
  PROVE  AuthStep
  <1> USE TypesOfAuthInv
  <1>1. /\ links[t].state = "pending"
        /\ links' = [links EXCEPT ![t] = [@ EXCEPT !.state = "expired"]]
        /\ UNCHANGED <<users, sessions, resets, clients, reqs>>
    BY DEF ExpireLink
  <1>2. TokensGrow(links, links', 0)
    BY <1>1, ExpiredGrows
  <1>3. TablesGrow(0)
    BY <1>1, <1>2, SessionsKept, AccountsKept, TokensKept DEF TablesGrow
  <1>4. AccountInv' /\ ResetInv'
    BY <1>1 DEF AuthInv, AccountInv, ResetInv, Exists, Tok
  <1> QED
    BY <1>1, <1>3, <1>4, EnvironmentStepped

LEMMA DisableStep ==
  ASSUME AuthInv, NEW u \in Users, Disable(u)
  PROVE  AuthStep
  <1> USE TypesOfAuthInv
  <1> DEFINE a == [users[u] EXCEPT !.disabled = TRUE]
  <1>1. /\ Exists(u) /\ users' = [users EXCEPT ![u] = a]
        /\ UNCHANGED <<sessions, resets, links, clients, reqs>>
    BY DEF Disable
  <1>2. users[u] \in Account
    OBVIOUS
  <1>3. /\ a \in Account /\ a.provider = users[u].provider
        /\ a.disabled /\ a.verified = users[u].verified
        /\ a.subject = users[u].subject
    BY <1>2 DEF Account
  <1>4. a.provider # "none" /\ (a.subject # None => a.verified)
    BY <1>1, <1>3 DEF Exists, AuthInv, AccountInv
  <1> HIDE DEF a
  <1>5. AccountsGrow /\ AccountInv'
    BY <1>1, <1>3, <1>4, AccountSet
  <1>6. TablesGrow(0)
    BY <1>1, <1>5, SessionsKept, TokensKept DEF TablesGrow
  <1>7. ResetInv'
    BY <1>1 DEF AuthInv, ResetInv, Tok
  <1> QED
    BY <1>1, <1>5, <1>6, <1>7, EnvironmentStepped

-----------------------------------------------------------------------------
(* Arrivals.                                                                *)

\* What the inputs of a new request have in common.
LEMMA InputsOK ==
  ASSUME AuthInv, NEW r \in Reqs, NEW op \in clients.ops, NEW q \in Inputs(r, op)
  PROVE  /\ op \in Ops /\ q \in Request /\ q.op = op /\ q.result = "none"
         /\ q.targets = {}
         /\ \A u \in q.barred : u \in Users /\ users[u].disabled
         /\ \/ op = "register" /\ q.pc = "create"
            \/ op = "refresh" /\ q.pc = "lock"
            \/ op = "reset" /\ q.pc = "consume"
            \/ op \in Ops \ {"register", "refresh", "reset"} /\ q.pc = "read"
         /\ op \in {"register", "resend", "login", "google", "forgot"}
            => q.user \in Users
         /\ op = "google" => q.subject \in Subjects
         /\ op \in {"refresh", "logout"} =>
               q.token = 0 \/ (q.token \in Reqs /\ reqs[q.token].result = "tokens")
         /\ op = "verify" => q.token \in Reqs /\ links[q.token].state # "absent"
         /\ op = "reset" => q.token \in Reqs /\ resets[q.token].state # "absent"
  <1> USE TypesOfAuthInv
  <1>1. clients.ops \subseteq Ops /\ clients.users \subseteq Users
    BY ScenariosAssumption
  <1>2. op \in Ops
    BY <1>1
  <1>3. /\ FirstStep(op) \in Pcs
        /\ \/ op = "register" /\ FirstStep(op) = "create"
           \/ op = "refresh" /\ FirstStep(op) = "lock"
           \/ op = "reset" /\ FirstStep(op) = "consume"
           \/ op \in Ops \ {"register", "refresh", "reset"} /\ FirstStep(op) = "read"
    BY <1>2 DEF FirstStep, Ops, Pcs
  <1>4. /\ New(op) \in Request /\ New(op).op = op /\ New(op).pc = FirstStep(op)
        /\ New(op).result = "none" /\ New(op).targets = {}
        /\ New(op).barred = {u \in Users : users[u].disabled}
        /\ New(op).token = 0
    <2>1. NoRequest \in Request
      BY MaxRequestsAssumption DEF NoRequest, Request, Passwords, Pcs, Results
    <2>2. {u \in Users : users[u].disabled} \in SUBSET Users
      OBVIOUS
    <2> QED
      BY <1>2, <1>3, <2>1, <2>2 DEF New, Request, NoRequest
  <1>5. r \in Passwords /\ 0 \in Passwords /\ \A t \in Reqs : t \in Passwords
    BY MaxRequestsAssumption DEF Passwords, Reqs
  <1>6. CASE op \in {"refresh", "logout", "verify", "reset"}
    <2>1. PICK t \in TokensFor(op) :
             q = [New(op) EXCEPT !.token = t,
                                 !.password = IF op = "reset" THEN r ELSE 0]
      BY <1>6 DEF Inputs, Bearing
    <2>2. /\ op \in {"refresh", "logout"} =>
                t = 0 \/ (t \in Reqs /\ reqs[t].result = "tokens")
          /\ op = "verify" => t \in Reqs /\ links[t].state # "absent"
          /\ op = "reset" => t \in Reqs /\ resets[t].state # "absent"
      BY DEF TokensFor, GivenTokens, GivenSessions
    <2>3. t \in Passwords
      BY <1>5, <1>6, <2>2
    <2>4. /\ q \in Request /\ q.op = op /\ q.pc = FirstStep(op) /\ q.result = "none"
          /\ q.targets = {} /\ q.barred = New(op).barred /\ q.token = t
      BY <1>4, <1>5, <2>1, <2>3 DEF Request
    <2> QED
      BY <1>2, <1>3, <1>4, <1>6, <2>2, <2>4
  <1>7. CASE op \notin {"refresh", "logout", "verify", "reset"}
    <2>0. PICK b \in Bodies(r, op) :
             q = [New(op) EXCEPT !.user = b.user, !.password = b.password,
                                 !.subject = b.subject]
      BY <1>7 DEF Inputs, Named
    <2> DEFINE u == b.user
               p == b.password
               g == b.subject
    <2>1. /\ u \in clients.users /\ p \in PasswordsFor(r, op) /\ g \in SubjectsFor(op)
          /\ q = [New(op) EXCEPT !.user = u, !.password = p, !.subject = g]
      BY <2>0 DEF Bodies
    <2> HIDE DEF u, p, g
    <2>2. /\ u \in Users /\ p \in Passwords
          /\ g \in Subjects \cup {None}
          /\ op = "google" => g \in Subjects
      <3>1. u \in Users
        BY <1>1, <2>1
      <3>2. \/ PasswordsFor(r, op) = {r}
            \/ PasswordsFor(r, op) = 0..(r - 1)
            \/ PasswordsFor(r, op) = {0}
        BY DEF PasswordsFor
      <3>3. 0..(r - 1) \subseteq Passwords
        BY MaxRequestsAssumption DEF Passwords, Reqs
      <3>4. p \in Passwords
        BY <1>5, <2>1, <3>2, <3>3
      <3>5. g \in Subjects \cup {None} /\ (op = "google" => g \in Subjects)
        BY <2>1 DEF SubjectsFor
      <3> QED
        BY <3>1, <3>4, <3>5
    <2>3. /\ q \in Request /\ q.op = op /\ q.pc = FirstStep(op) /\ q.result = "none"
          /\ q.targets = {} /\ q.barred = New(op).barred
          /\ q.user = u /\ q.subject = g
      BY <1>4, <2>1, <2>2 DEF Request
    <2> QED
      BY <1>2, <1>3, <1>4, <1>7, <2>2, <2>3
  <1> QED
    BY <1>6, <1>7

LEMMA ArriveStep ==
  ASSUME AuthInv, NEW r \in Reqs, Arrive(r)
  PROVE  AuthStep
  <1> USE TypesOfAuthInv
  <1>1. PICK op \in clients.ops : \E q \in Inputs(r, op) : reqs' = [reqs EXCEPT ![r] = q]
    BY DEF Arrive
  <1>2. PICK q \in Inputs(r, op) : reqs' = [reqs EXCEPT ![r] = q]
    BY <1>1
  <1>3. reqs[r].pc = "idle" /\ UNCHANGED <<authTables, clients>>
    BY DEF Arrive
  <1>4. UNCHANGED <<users, sessions, resets, links>>
    BY <1>3 DEF authTables
  <1>5. /\ op \in Ops /\ q \in Request /\ q.op = op /\ q.result = "none"
        /\ \A u \in q.barred : u \in Users /\ users[u].disabled
        /\ \/ op = "register" /\ q.pc = "create"
           \/ op = "refresh" /\ q.pc = "lock"
           \/ op = "reset" /\ q.pc = "consume"
           \/ op \in Ops \ {"register", "refresh", "reset"} /\ q.pc = "read"
        /\ op \in {"register", "resend", "login", "google", "forgot"}
           => q.user \in Users
        /\ op = "google" => q.subject \in Subjects
        /\ op \in {"refresh", "logout"} =>
              q.token = 0 \/ (q.token \in Reqs /\ reqs[q.token].result = "tokens")
        /\ op = "verify" => q.token \in Reqs /\ links[q.token].state # "absent"
        /\ op = "reset" => q.token \in Reqs /\ resets[q.token].state # "absent"
    BY InputsOK
  <1>6. /\ reqs'[r] = q /\ OthersWait(r) /\ reqs' \in [Reqs -> Request]
    BY <1>2, <1>5 DEF OthersWait
  <1>7. RequestInv(r)
    BY DEF AuthInv
  <1>8. PlaceInv(r)'
    BY <1>5, <1>6 DEF PlaceInv, OnCourse, Ops, User
  <1>9. PresentedInv(r)'
    <2>1. q.token \in Reqs /\ reqs[q.token].result = "tokens"
          => sessions[q.token].state # "absent"
      BY DEF AuthInv, RequestInv, CheckedInv
    <2>2. 0 \notin Reqs
      BY DEF Reqs
    <2> QED
      BY <1>4, <1>5, <1>6, <2>1, <2>2 DEF PresentedInv, Tok
  <1>10. InsertedInv(r)'
    BY <1>3, <1>4, <1>7 DEF RequestInv, InsertedInv
  <1>11. CheckedInv(r)' /\ ConsumedInv(r)'
    BY <1>4, <1>5, <1>6 DEF CheckedInv, ConsumedInv
  <1>12. reqs'[r].pc # "commit"
    BY <1>5, <1>6
  <1>13. ResetInv' /\ AccountInv'
    BY <1>4, <1>6, <1>12, ResetInvKept, AccountInvKept DEF AuthInv
  <1>14. ~Won(r)'
    BY <1>5, <1>6 DEF Won
  <1>15. TablesGrow(r)
    BY <1>3, TablesKept
  <1> QED
    BY <1>3, <1>4, <1>6, <1>8, <1>9, <1>10, <1>11, <1>13, <1>14, <1>15, Stepped
    DEF RequestInv

-----------------------------------------------------------------------------
(* The theorems.                                                            *)

LEMMA AuthInvInit ==
  ASSUME AuthInit
  PROVE  AuthInv
  <1>1. /\ sessions = [s \in Reqs |-> NoSession] /\ clients \in Scenarios
        /\ resets = [t \in Reqs |-> NoToken] /\ links = [t \in Reqs |-> NoToken]
        /\ reqs = [r \in Reqs |-> NoRequest]
    BY DEF AuthInit, AuthStoreInit
  <1>2. \A u \in Users : \/ users[u] = NoAccount
                         \/ \E c \in BOOLEAN : users[u] =
                               [NoAccount EXCEPT !.provider = "password",
                                                 !.current = c, !.verified = TRUE]
    BY DEF AuthInit, AuthStoreInit
  <1>3. NoAccount \in Account
    BY MaxRequestsAssumption DEF NoAccount, Account, Passwords
  <1>4. \A u \in Users : /\ users[u] \in Account /\ ~users[u].disabled
                         /\ users[u].verified => Exists(u)
                         /\ users[u].subject = None
    <2> TAKE u \in Users
    <2>1. CASE users[u] = NoAccount
      BY <1>3, <2>1 DEF NoAccount
    <2>2. CASE users[u] # NoAccount
      <3>1. PICK c \in BOOLEAN : users[u] =
               [NoAccount EXCEPT !.provider = "password",
                                 !.current = c, !.verified = TRUE]
        BY <1>2, <2>2
      <3> QED
        BY <1>3, <3>1 DEF NoAccount, Account, Exists
    <2> QED
      BY <2>1, <2>2
  <1>5. users \in [Users -> Account]
    BY <1>4 DEF AuthInit, AuthStoreInit
  <1>6. NoRequest \in Request
    BY MaxRequestsAssumption DEF NoRequest, Request, Passwords, Pcs, Results
  <1>7. AuthTypeOK
    BY <1>1, <1>5, <1>6 DEF AuthTypeOK, Session, Token
  <1>8. SessionInv
    BY <1>1 DEF SessionInv, FamilyIsChain, OneUsablePerFamily, FamiliesRooted,
                Unrevoked, NoSession
  <1>9. AccountInv /\ OwnersInv
    BY <1>1, <1>4 DEF AccountInv, OwnersInv, NoToken
  <1>10. SignedInIsVerified /\ TokensWorkOnce /\ ResetInv
    BY <1>1 DEF SignedInIsVerified, TokensWorkOnce, ResetInv, NoSession, NoRequest
  <1>11. \A r \in Reqs : RequestInv(r)
    BY <1>1 DEF RequestInv, PlaceInv, PresentedInv, InsertedInv, CheckedInv,
                ConsumedInv, OnCourse, NoRequest, NoSession, NoToken, User, Tok
  <1> QED
    BY <1>7, <1>8, <1>9, <1>10, <1>11 DEF AuthInv

LEMMA AuthInvNext ==
  ASSUME AuthInv, [AuthNext]_authVars
  PROVE  AuthStep
  <1>1. CASE UNCHANGED authVars
    <2>1. UNCHANGED <<clients, reqs, authTables>> /\ UNCHANGED <<users, resets>>
      BY <1>1 DEF authVars, authTables
    <2>2. AccountInv' /\ ResetInv'
      BY <2>1 DEF AuthInv, AccountInv, ResetInv, Exists, Tok
    <2> QED
      BY <2>1, <2>2, TablesKept, EnvironmentStepped
  <1>2. ASSUME NEW r \in Reqs, Proceed(r)
        PROVE  AuthStep
    BY <1>2, ReadLoginStep, RehashStep, OpenStep, AnswerStep, ReadSubjectStep,
       ReadEmailStep, CreateGoogleUserStep, LockSessionStep, RotateStep,
       FindSessionStep, StartRevokeStep, EndRevokeStep, ReadForgotStep,
       StartReplaceStep, EndReplaceStep, ConsumeStep, CommitResetStep, CreateStep,
       ReadResendStep, RevokeLinksStep, CreateLinkStep, MailStep, ReadLinkStep,
       UseLinkStep, VerifyUserStep
    DEF Proceed
  <1>3. CASE Environment
    BY <1>3, FailStep, ExpireSessionStep, ExpireResetStep, ExpireLinkStep,
       DisableStep DEF Environment
  <1> QED
    BY <1>1, <1>2, <1>3, ArriveStep DEF AuthNext

LEMMA AuthInvHolds == AuthSpec => []AuthInv
  <1>1. AuthInv /\ [AuthNext]_authVars => AuthInv'
    BY AuthInvNext DEF AuthStep
  <1> QED
    BY <1>1, AuthInvInit, PTL DEF AuthSpec

\* The tables and the requests keep their types, with every session and token
\* row owned by an account.
THEOREM AuthTypesHold == AuthSpec => []AuthTypeOK
  BY AuthInvHolds, PTL DEF AuthInv

\* The sessions of each sign-in form a chain with one usable end at most.
THEOREM FamiliesAreChains == AuthSpec => []FamilyIsChain
  <1>1. AuthInv => FamilyIsChain
    BY DEF AuthInv, SessionInv
  <1> QED
    BY <1>1, AuthInvHolds, PTL

\* A reset token changes one password, a link signs in one request.
THEOREM OneTimeTokens == AuthSpec => []TokensWorkOnce
  <1>1. AuthInv => TokensWorkOnce
    BY DEF AuthInv
  <1> QED
    BY <1>1, AuthInvHolds, PTL

\* An account that was disabled when a request arrived gives it no tokens.
THEOREM DisabledStayOut == AuthSpec => []DisabledGetsNoTokens
  <1>1. AuthInv => DisabledGetsNoTokens
    BY DEF AuthInv, RequestInv, CheckedInv, DisabledGetsNoTokens
  <1> QED
    BY <1>1, AuthInvHolds, PTL

\* Sessions belong to accounts whose address was confirmed.
THEOREM OnlyVerifiedSignIn == AuthSpec => []SignedInIsVerified
  <1>1. AuthInv => SignedInIsVerified
    BY DEF AuthInv
  <1> QED
    BY <1>1, AuthInvHolds, PTL

\* Every step of sign-in, refresh, logout, reuse detection, reset and expiry is
\* a step of TokenFamilies or leaves the families alone.
THEOREM SessionsImplementFamilies == AuthSpec => ImplementsFamilies
  <1>1. AuthInit => Families!Init
    <2> SUFFICES ASSUME AuthInit
                 PROVE  Families!Init
      OBVIOUS
    <2>1. \A s \in Reqs : /\ sessions[s].state = "absent" /\ sessions[s].family = 0
                           /\ s # 0
      <3>1. sessions = [s \in Reqs |-> NoSession]
        BY DEF AuthInit, AuthStoreInit
      <3> QED
        BY <3>1 DEF NoSession, Reqs
    <2>2. \A f \in Reqs : sessions[f].family # f /\ FamilyOf(f) = {}
      BY <2>1 DEF FamilyOf, Unrevoked
    <2>3. \A f \in Reqs :
             {s \in Reqs : /\ sessions[s].state \in {"revoked", "replaced"}
                           /\ sessions[s].family = f} = {}
      BY <2>1
    <2> QED
      BY <2>2, <2>3 DEF Families!Init
  <1>2. AuthInv /\ [AuthNext]_authVars => [Families!Next]_Families!famVars
    BY AuthInvNext DEF AuthStep
  <1> QED
    BY <1>1, <1>2, AuthInvHolds, PTL DEF AuthSpec, ImplementsFamilies, Families!Spec

-----------------------------------------------------------------------------
(* Revocations: what an UPDATE that waited for its locks can have missed.   *)

\* The sessions the request is to revoke.
InScope(r, s) == IF reqs[r].pc = "commit" THEN sessions[s].user = User(r)
                 ELSE sessions[s].family = sessions[Tok(r)].family

\* The statement has found the session, or a session of its family that was
\* rotated meanwhile, or the session's family did not exist yet.
Covered(r, s) ==
    \/ s \in reqs[r].targets
    \/ \E t \in reqs[r].targets : /\ sessions[t].state = "replaced"
                                  /\ sessions[t].family = sessions[s].family
    \/ /\ reqs[r].pc = "commit"
       /\ \A t \in reqs[r].targets : sessions[t].family # sessions[s].family

RevokesInv(r) ==
    /\ reqs[r].pc = "revoke_start" /\ reqs[r].op = "refresh"
          => User(r) = sessions[Tok(r)].user
    /\ reqs[r].pc \in {"revoke", "commit"} =>
          /\ \A t \in reqs[r].targets : sessions[t].state # "absent"
          /\ \A s \in Reqs : Unrevoked(s) /\ InScope(r, s) => Covered(r, s)

RevokingInv == \A r \in Reqs : RevokesInv(r)

\* Every change of the sessions is one of these.
Weakened ==
    \A s \in Reqs :
        /\ sessions'[s].user = sessions[s].user
        /\ sessions'[s].family = sessions[s].family
        /\ Unrevoked(s)' => Unrevoked(s)
        /\ sessions[s].state = "replaced" => sessions'[s].state = "replaced"
        /\ sessions[s].state # "absent" => sessions'[s].state # "absent"
Started(n) ==
    /\ sessions[n].state = "absent"
    /\ sessions'[n].state = "open" /\ sessions'[n].family = n
    /\ \A s \in Reqs : s # n => sessions'[s] = sessions[s]
Renewed(p, n) ==
    /\ Unrevoked(p) /\ sessions[n].state = "absent"
    /\ sessions'[n].state = "open"
    /\ sessions'[n].user = sessions[p].user
    /\ sessions'[n].family = sessions[p].family
    /\ sessions'[p].state = "replaced"
    /\ sessions'[p].user = sessions[p].user
    /\ sessions'[p].family = sessions[p].family
    /\ \A s \in Reqs : s \notin {p, n} => sessions'[s] = sessions[s]

SessionsTurn == \/ Weakened
                \/ \E n \in Reqs : Started(n)
                \/ \E p, n \in Reqs : Renewed(p, n)

LEMMA UnchangedTurns == ASSUME UNCHANGED sessions PROVE SessionsTurn
  BY DEF SessionsTurn, Weakened, Unrevoked

LEMMA RevokedTurns ==
  ASSUME AuthInv, NEW targets, sessions' = Revoked(targets)
  PROVE  /\ SessionsTurn
         /\ \A s \in Reqs : Unrevoked(s)' => s \notin targets
  <1> USE TypesOfAuthInv
  <1>1. \A s \in Reqs :
           \/ sessions'[s] = sessions[s] /\ (s \notin targets \/ ~Unrevoked(s))
           \/ Unrevoked(s) /\ sessions'[s] = [sessions[s] EXCEPT !.state = "revoked"]
    BY DEF Revoked
  <1>2. ASSUME NEW s \in Reqs, Unrevoked(s),
               sessions'[s] = [sessions[s] EXCEPT !.state = "revoked"]
        PROVE  /\ sessions'[s].user = sessions[s].user
               /\ sessions'[s].family = sessions[s].family
               /\ sessions'[s].state = "revoked"
    <2>1. sessions[s] \in [state  : {"open", "expired", "revoked", "replaced"},
                           user : Users, family : Reqs, next : Passwords]
      BY <1>2 DEF SessionsOK, Session, NoSession, Unrevoked
    <2> QED
      BY <1>2, <2>1
  <1> QED
    BY <1>1, <1>2 DEF SessionsTurn, Weakened, Unrevoked

LEMMA ExpiredTurns ==
  ASSUME AuthInv, NEW s \in Reqs, ExpireSession(s)
  PROVE  SessionsTurn
  <1> USE TypesOfAuthInv
  <1>1. /\ sessions[s].state = "open"
        /\ sessions'[s] = [sessions[s] EXCEPT !.state = "expired"]
        /\ \A t \in Reqs : t # s => sessions'[t] = sessions[t]
    BY DEF ExpireSession, SessionsOK
  <1>2. sessions[s] \in [state  : {"open", "expired", "revoked", "replaced"},
                         user : Users, family : Reqs, next : Passwords]
    BY <1>1 DEF SessionsOK, Session, NoSession
  <1> QED
    BY <1>1, <1>2 DEF SessionsTurn, Weakened, Unrevoked

LEMMA OpenedTurns ==
  ASSUME AuthInv, NEW r \in Reqs, sessions[r].state = "absent",
         NEW u \in Users, sessions' = Opened(r, u)
  PROVE  SessionsTurn
  BY TypesOfAuthInv DEF SessionsTurn, Started, Opened, NoSession, SessionsOK

LEMMA RotatedTurns ==
  ASSUME AuthInv, NEW s \in Reqs, Unrevoked(s),
         NEW r \in Reqs, sessions[r].state = "absent", sessions' = Rotated(s, r)
  PROVE  SessionsTurn
  <1> USE TypesOfAuthInv
  <1>1. s # r
    BY DEF Unrevoked
  <1>2. /\ sessions'[s] = [sessions[s] EXCEPT !.state = "replaced", !.next = r]
        /\ sessions'[r] = [NoSession EXCEPT !.state = "open",
                              !.user = sessions[s].user, !.family = sessions[s].family]
        /\ \A t \in Reqs : t \notin {s, r} => sessions'[t] = sessions[t]
    BY <1>1 DEF Rotated, SessionsOK
  <1>3. sessions[s] \in [state  : {"open", "expired", "revoked", "replaced"},
                         user : Users, family : Reqs, next : Passwords]
    BY DEF SessionsOK, Session, NoSession, Unrevoked
  <1>4. /\ sessions'[r].state = "open"
        /\ sessions'[r].user = sessions[s].user
        /\ sessions'[r].family = sessions[s].family
    BY <1>2 DEF NoSession
  <1>5. /\ sessions'[s].state = "replaced"
        /\ sessions'[s].user = sessions[s].user
        /\ sessions'[s].family = sessions[s].family
    BY <1>2, <1>3
  <1>6. Renewed(s, r)
    BY <1>2, <1>4, <1>5 DEF Renewed
  <1> QED
    BY <1>6 DEF SessionsTurn

\* A request whose statement waits stays covered.
LEMMA CoveredKept ==
  ASSUME AuthInv, NEW r \in Reqs, RevokesInv(r), reqs'[r] = reqs[r], SessionsTurn
  PROVE  RevokesInv(r)'
  <1> USE TypesOfAuthInv
  <1>1. RequestInv(r) /\ FamiliesRooted
    BY DEF AuthInv, SessionInv
  <1>2. /\ User(r)' = User(r) /\ Tok(r)' = Tok(r) /\ reqs[r].targets \subseteq Reqs
        /\ reqs[r].pc \in {"revoke_start", "revoke"} /\ reqs[r].op \in {"refresh", "logout"} =>
              Tok(r) \in Reqs /\ sessions[Tok(r)].state # "absent"
        /\ reqs[r].pc \in {"revoke_start", "revoke"} => reqs[r].op \in {"refresh", "logout"}
    BY <1>1, RequestFields DEF User, Tok, RequestInv, PresentedInv, PlaceInv, OnCourse
  <1>3. \A s \in Reqs : sessions[s].state # "absent" =>
           /\ sessions'[s].state # "absent"
           /\ sessions'[s].user = sessions[s].user
           /\ sessions'[s].family = sessions[s].family
    BY DEF SessionsTurn, Weakened, Started, Renewed, Unrevoked
  <1>4. \A s \in Reqs : sessions[s].state = "replaced" => sessions'[s].state = "replaced"
    BY DEF SessionsTurn, Weakened, Started, Renewed, Unrevoked
  <1>5. reqs'[r].pc = "revoke_start" /\ reqs'[r].op = "refresh"
           => User(r)' = (sessions[Tok(r)].user)'
    BY <1>2, <1>3 DEF RevokesInv
  <1>6. ASSUME reqs'[r].pc \in {"revoke", "commit"}
        PROVE  /\ \A t \in reqs'[r].targets : sessions'[t].state # "absent"
               /\ \A s \in Reqs : Unrevoked(s)' /\ InScope(r, s)' => Covered(r, s)'
    <2>1. \A t \in reqs[r].targets : t \in Reqs /\ sessions[t].state # "absent"
      BY <1>2, <1>6 DEF RevokesInv
    <2>2. ASSUME NEW s \in Reqs, sessions[s].state # "absent", Covered(r, s)
          PROVE  Covered(r, s)'
      BY <1>3, <1>4, <2>1, <2>2 DEF Covered
    <2>3. ASSUME NEW s \in Reqs, Unrevoked(s), InScope(r, s)'
          PROVE  Covered(r, s)'
      <3>1. InScope(r, s)
        BY <1>2, <1>3, <1>6, <2>3 DEF InScope, Unrevoked
      <3> QED
        BY <1>6, <2>2, <2>3, <3>1 DEF RevokesInv, Unrevoked
    <2>4. ASSUME NEW n \in Reqs, Started(n), InScope(r, n)'
          PROVE  Covered(r, n)'
      <3>1. \A s \in Reqs : sessions[s].state # "absent" => sessions[s].family # n
        BY <1>1, <2>4, SessionFields DEF FamiliesRooted, Started, SessionsOK
      <3>2. \A t \in reqs[r].targets : sessions'[t].family # sessions'[n].family
        BY <1>3, <2>1, <2>4, <3>1 DEF Started
      <3>3. reqs[r].pc = "commit"
        BY <1>2, <1>3, <1>6, <2>4, <3>1 DEF InScope, Started
      <3> QED
        BY <3>2, <3>3 DEF Covered
    <2>5. ASSUME NEW p \in Reqs, NEW n \in Reqs, Renewed(p, n), InScope(r, n)'
          PROVE  Covered(r, n)'
      <3>1. InScope(r, p)
        BY <1>2, <1>3, <1>6, <2>5 DEF InScope, Renewed
      <3>2. Covered(r, p)
        BY <1>6, <2>5, <3>1 DEF RevokesInv, Renewed
      <3>3. CASE p \in reqs[r].targets
        BY <2>5, <3>3 DEF Covered, Renewed
      <3>4. CASE p \notin reqs[r].targets
        BY <1>3, <1>4, <2>1, <2>5, <3>2, <3>4 DEF Covered, Renewed
      <3> QED
        BY <3>3, <3>4
    <2>6. \A s \in Reqs : Unrevoked(s)' =>
             \/ Unrevoked(s)
             \/ Started(s)
             \/ \E p \in Reqs : Renewed(p, s)
      BY DEF SessionsTurn, Weakened, Started, Renewed, Unrevoked
    <2> QED
      BY <1>2, <1>3, <2>1, <2>3, <2>4, <2>5, <2>6
  <1> QED
    BY <1>5, <1>6 DEF RevokesInv

\* The places of RevokesInv.
Revoking == {"revoke_start", "revoke", "commit"}

LEMMA RevokingKept ==
  ASSUME AuthInv, RevokingInv, NEW r \in Reqs, SessionsTurn, OthersWait(r),
         RevokesInv(r)'
  PROVE  RevokingInv'
  BY CoveredKept DEF RevokingInv, OthersWait

LEMMA RestKept ==
  ASSUME AuthInv, RevokingInv, NEW r \in Reqs, SessionsTurn, OthersWait(r),
         reqs'[r].pc \notin Revoking
  PROVE  RevokingInv'
  <1>1. RevokesInv(r)'
    BY DEF RevokesInv, Revoking
  <1> QED
    BY <1>1, RevokingKept

LEMMA TurnsAside ==
  ASSUME AuthInv, NEW r \in Reqs,
         \/ \E pc \in Pcs : GoOn(r, pc) /\ pc \notin Revoking
         \/ \E pc \in Pcs, u \in Users \cup {None} :
               GoOnFor(r, pc, u) /\ pc \notin Revoking
         \/ \E result \in Results : End(r, result)
         \/ \E pc, u, rows : Waiting(r, pc, u, rows) /\ pc \notin Revoking
  PROVE  OthersWait(r) /\ reqs'[r].pc \notin Revoking
  <1> USE TypesOfAuthInv
  <1>1. reqs[r] \in [op : Ops \cup {"none"}, pc : Pcs, user : Users \cup {None},
                     token : Passwords, password : Passwords,
                     subject : Subjects \cup {None}, targets : SUBSET Reqs,
                     barred : SUBSET Users, result : Results]
    BY DEF Request
  <1>2. ASSUME NEW pc, pc \notin Revoking,
               \/ GoOn(r, pc)
               \/ \E u : GoOnFor(r, pc, u)
               \/ \E u, rows : Waiting(r, pc, u, rows)
        PROVE  OthersWait(r) /\ reqs'[r].pc \notin Revoking
    <2>1. CASE GoOn(r, pc)
      <3>1. reqs'[r] = [reqs[r] EXCEPT !.pc = pc] /\ OthersWait(r)
        BY <2>1 DEF GoOn, OthersWait
      <3> QED
        BY <1>1, <1>2, <3>1
    <2>2. CASE \E u : GoOnFor(r, pc, u)
      <3>1. PICK u : GoOnFor(r, pc, u)
        BY <2>2
      <3>2. reqs'[r] = [reqs[r] EXCEPT !.pc = pc, !.user = u] /\ OthersWait(r)
        BY <3>1 DEF GoOnFor, OthersWait
      <3> QED
        BY <1>1, <1>2, <3>2
    <2>3. CASE \E u, rows : Waiting(r, pc, u, rows)
      <3>1. PICK u, rows : Waiting(r, pc, u, rows)
        BY <2>3
      <3>2. /\ reqs'[r] = [reqs[r] EXCEPT !.pc = pc, !.user = u, !.targets = rows]
            /\ OthersWait(r)
        BY <3>1 DEF Waiting, OthersWait
      <3> QED
        BY <1>1, <1>2, <3>2
    <2> QED
      BY <1>2, <2>1, <2>2, <2>3
  <1>3. ASSUME NEW result \in Results, End(r, result)
        PROVE  OthersWait(r) /\ reqs'[r].pc \notin Revoking
    BY <1>3, EndMoved DEF Moved, Revoking
  <1> QED
    BY <1>2, <1>3

\* The steps that leave the sessions alone and revoke nothing.
LEMMA AsideKept ==
  ASSUME AuthInv, RevokingInv, NEW r \in Reqs,
         \/ ReadLogin(r) \/ Rehash(r) \/ Answer(r) \/ ReadSubject(r)
         \/ ReadEmail(r) \/ ReadForgot(r) \/ StartReplace(r) \/ EndReplace(r)
         \/ Create(r) \/ ReadResend(r) \/ RevokeLinks(r) \/ CreateLink(r)
         \/ Mail(r) \/ ReadLink(r) \/ UseLink(r) \/ VerifyUser(r) \/ Fail(r)
  PROVE  RevokingInv'
  <1>1. SessionsTurn
    BY UnchangedTurns
    DEF ReadLogin, Rehash, Answer, ReadSubject, ReadEmail, ReadForgot,
        StartReplace, EndReplace, Create, ReadResend, RevokeLinks, CreateLink,
        Mail, ReadLink, UseLink, VerifyUser, Fail, authTables
  <1>2. ASSUME ReadLogin(r) \/ Rehash(r) \/ Answer(r) \/ ReadEmail(r)
               \/ ReadForgot(r) \/ EndReplace(r) \/ Create(r) \/ ReadResend(r)
               \/ RevokeLinks(r) \/ CreateLink(r) \/ Mail(r) \/ UseLink(r)
               \/ VerifyUser(r) \/ Fail(r)
        PROVE  \/ \E pc \in Pcs : GoOn(r, pc) /\ pc \notin Revoking
               \/ \E result \in Results : End(r, result)
    BY <1>2
    DEF ReadLogin, Rehash, Answer, ReadEmail, ReadForgot, EndReplace, Create,
        ReadResend, RevokeLinks, CreateLink, Mail, UseLink, VerifyUser, Fail,
        Pcs, Results, Revoking
  <1>3. ASSUME ReadSubject(r)
        PROVE  \/ \E pc \in Pcs : GoOn(r, pc) /\ pc \notin Revoking
               \/ \E pc \in Pcs, u \in Users \cup {None} :
                     GoOnFor(r, pc, u) /\ pc \notin Revoking
               \/ \E result \in Results : End(r, result)
    BY <1>3 DEF ReadSubject, WithSubject, Pcs, Results, Revoking
  <1>4. ASSUME ReadLink(r)
        PROVE  \/ \E pc \in Pcs, u \in Users \cup {None} :
                     GoOnFor(r, pc, u) /\ pc \notin Revoking
               \/ \E result \in Results : End(r, result)
    <2>1. Tok(r) \in Reqs
      BY <1>4, RequestFields, TypesOfAuthInv
      DEF ReadLink, Is, AuthInv, RequestInv, PresentedInv
    <2>2. links[Tok(r)].user \in Users \cup {None}
      BY <2>1, TokenFields, TypesOfAuthInv
    <2> QED
      BY <1>4, <2>2 DEF ReadLink, Pcs, Results, Revoking
  <1>5. ASSUME StartReplace(r)
        PROVE  \E pc, u, rows : Waiting(r, pc, u, rows) /\ pc \notin Revoking
    BY <1>5 DEF StartReplace, Revoking
  <1>6. OthersWait(r) /\ reqs'[r].pc \notin Revoking
    BY <1>2, <1>3, <1>4, <1>5, TurnsAside
  <1> QED
    BY <1>1, <1>6, RestKept

\* An UPDATE that starts finds every session it is to revoke.
LEMMA WaitingCovers ==
  ASSUME AuthInv, NEW r \in Reqs, UNCHANGED sessions,
         NEW pc \in {"revoke", "commit"}, NEW u, NEW rows \in SUBSET Reqs,
         Waiting(r, pc, u, rows),
         \A t \in rows : sessions[t].state # "absent",
         \A s \in Reqs :
            /\ Unrevoked(s)
            /\ IF pc = "commit" THEN sessions[s].user = u
               ELSE sessions[s].family = sessions[Tok(r)].family
            => s \in rows
  PROVE  OthersWait(r) /\ RevokesInv(r)'
  <1> USE TypesOfAuthInv
  <1>1. reqs[r] \in [op : Ops \cup {"none"}, pc : Pcs, user : Users \cup {None},
                     token : Passwords, password : Passwords,
                     subject : Subjects \cup {None}, targets : SUBSET Reqs,
                     barred : SUBSET Users, result : Results]
    BY DEF Request
  <1>2. /\ reqs'[r] = [reqs[r] EXCEPT !.pc = pc, !.user = u, !.targets = rows]
        /\ OthersWait(r)
    BY DEF Waiting, OthersWait
  <1>3. /\ reqs'[r].pc = pc /\ User(r)' = u /\ Tok(r)' = Tok(r)
        /\ reqs'[r].targets = rows
    BY <1>1, <1>2 DEF User, Tok
  <1>4. \A s \in Reqs : Unrevoked(s)' /\ InScope(r, s)' => s \in rows
    BY <1>3 DEF InScope, Unrevoked
  <1> QED
    BY <1>2, <1>3, <1>4 DEF RevokesInv, Covered

LEMMA LockSessionKept ==
  ASSUME AuthInv, RevokingInv, NEW r \in Reqs, LockSession(r)
  PROVE  RevokingInv'
  <1> USE TypesOfAuthInv
  <1> DEFINE row == sessions[Tok(r)]
  <1>1. reqs[r].op = "refresh" /\ reqs[r].pc = "lock"
    BY DEF LockSession, Is
  <1>2. CASE Tok(r) = 0
    <2>1. End(r, "rejected") /\ UNCHANGED sessions
      BY <1>2 DEF LockSession
    <2>2. OthersWait(r) /\ reqs'[r].pc \notin Revoking
      BY <2>1, TurnsAside DEF Results
    <2> QED
      BY <2>1, <2>2, UnchangedTurns, RestKept
  <1>3. CASE Tok(r) # 0
    <2>1. /\ Tok(r) \in Reqs /\ row.user \in Users
          /\ row.state \in {"open", "expired", "revoked", "replaced"}
      BY <1>1, <1>3, RequestFields, SessionFields
      DEF AuthInv, RequestInv, PresentedInv, SessionsOK
    <2>2. CASE row.state \in {"revoked", "replaced"}
      <3>1. Waiting(r, "revoke", row.user, FamilyOf(row.family)) /\ UNCHANGED sessions
        BY <1>3, <2>2 DEF LockSession
      <3>2. /\ FamilyOf(row.family) \in SUBSET Reqs
            /\ \A t \in FamilyOf(row.family) : sessions[t].state # "absent"
            /\ \A s \in Reqs : Unrevoked(s) /\ sessions[s].family = row.family
                                 => s \in FamilyOf(row.family)
        BY DEF FamilyOf, Unrevoked
      <3>3. OthersWait(r) /\ RevokesInv(r)'
        BY <3>1, <3>2, WaitingCovers
      <3> QED
        BY <3>1, <3>3, UnchangedTurns, RevokingKept
    <2>3. CASE row.state = "expired"
      <3>1. sessions' = Revoked({Tok(r)}) /\ End(r, "rejected")
        BY <1>3, <2>3 DEF LockSession
      <3>2. OthersWait(r) /\ reqs'[r].pc \notin Revoking
        BY <3>1, TurnsAside DEF Results
      <3> QED
        BY <3>1, <3>2, RevokedTurns, RestKept
    <2>4. CASE row.state = "open"
      <3>1. PICK pc \in {"rotate", "evict"} :
               GoOnFor(r, pc, row.user) /\ UNCHANGED sessions
        BY <1>3, <2>4 DEF LockSession
      <3>2. OthersWait(r) /\ reqs'[r].pc \notin Revoking
        BY <2>1, <3>1, TurnsAside DEF Pcs, Revoking
      <3> QED
        BY <3>1, <3>2, UnchangedTurns, RestKept
    <2> QED
      BY <2>1, <2>2, <2>3, <2>4
  <1> QED
    BY <1>2, <1>3

LEMMA RotateKept ==
  ASSUME AuthInv, RevokingInv, NEW r \in Reqs, Rotate(r)
  PROVE  RevokingInv'
  <1> USE TypesOfAuthInv
  <1>1. reqs[r].pc \in {"rotate", "evict"} /\ RequestInv(r)
    BY DEF Rotate, AuthInv
  <1>2. /\ Tok(r) \in Reqs /\ sessions[Tok(r)].state # "absent"
        /\ sessions[r].state = "absent" /\ User(r) = sessions[Tok(r)].user
    BY <1>1, RequestFields DEF RequestInv, PlaceInv, OnCourse, PresentedInv, InsertedInv
  <1>3. CASE ~Unrevoked(Tok(r))
    <2>1. End(r, "error") /\ UNCHANGED sessions
      BY <1>3 DEF Rotate
    <2>2. OthersWait(r) /\ reqs'[r].pc \notin Revoking
      BY <2>1, TurnsAside DEF Results
    <2> QED
      BY <2>1, <2>2, UnchangedTurns, RestKept
  <1>4. CASE Unrevoked(Tok(r))
    <2>1. PICK pc \in {"answer", "revoke_start"} :
             GoOn(r, pc) /\ sessions' = Rotated(Tok(r), r)
      BY <1>1, <1>4 DEF Rotate
    <2>2. SessionsTurn
      BY <1>2, <1>4, <2>1, RotatedTurns
    <2>3. Moved(r, pc, User(r), reqs[r].result)
      BY <2>1, GoOnMoved DEF Pcs
    <2>4. sessions'[Tok(r)].user = sessions[Tok(r)].user
      BY <1>2, <1>4, <2>1, RotatedMoves DEF SessionsMove, SessionsGrow
    <2>5. RevokesInv(r)'
      BY <1>2, <2>1, <2>3, <2>4 DEF Moved, RevokesInv
    <2> QED
      BY <2>2, <2>3, <2>5, RevokingKept DEF Moved
  <1> QED
    BY <1>3, <1>4

LEMMA FindSessionKept ==
  ASSUME AuthInv, RevokingInv, NEW r \in Reqs, FindSession(r)
  PROVE  RevokingInv'
  <1> USE TypesOfAuthInv
  <1>1. reqs[r].op = "logout" /\ UNCHANGED sessions
    BY DEF FindSession, Is, authTables
  <1>2. CASE Tok(r) = 0
    <2>1. OthersWait(r) /\ reqs'[r].pc \notin Revoking
      BY <1>2, TurnsAside DEF FindSession, Results
    <2> QED
      BY <1>1, <2>1, UnchangedTurns, RestKept
  <1>3. CASE Tok(r) # 0
    <2>1. Moved(r, "revoke_start", User(r), reqs[r].result)
      BY <1>3, GoOnMoved DEF FindSession, Pcs
    <2>2. RevokesInv(r)'
      BY <1>1, <2>1 DEF Moved, RevokesInv
    <2> QED
      BY <1>1, <2>1, <2>2, UnchangedTurns, RevokingKept DEF Moved
  <1> QED
    BY <1>2, <1>3

LEMMA StartRevokeKept ==
  ASSUME AuthInv, RevokingInv, NEW r \in Reqs, StartRevoke(r)
  PROVE  RevokingInv'
  <1> USE TypesOfAuthInv
  <1> DEFINE f == sessions[Tok(r)].family
             rows == IF reqs[r].op = "logout" THEN FamilyOf(f)
                     ELSE SessionsOf(User(r))
  <1>1. /\ reqs[r].pc = "revoke_start" /\ UNCHANGED sessions
        /\ Waiting(r, "revoke", User(r), rows)
    BY DEF StartRevoke, authTables
  <1>2. RequestInv(r) /\ RevokesInv(r) /\ FamiliesRooted
    BY DEF AuthInv, RevokingInv, SessionInv
  <1>3. /\ reqs[r].op \in {"refresh", "logout"}
        /\ Tok(r) \in Reqs /\ sessions[Tok(r)].state # "absent"
    BY <1>1, <1>2, RequestFields DEF RequestInv, PlaceInv, OnCourse, PresentedInv
  <1>4. rows \in SUBSET Reqs /\ \A t \in rows : sessions[t].state # "absent"
    BY DEF FamilyOf, SessionsOf, Unrevoked
  <1>5. ASSUME NEW s \in Reqs, Unrevoked(s), sessions[s].family = f
        PROVE  s \in rows
    <2>1. CASE reqs[r].op = "logout"
      BY <1>5, <2>1 DEF FamilyOf
    <2>2. CASE reqs[r].op = "refresh"
      <3>1. User(r) = sessions[Tok(r)].user
        BY <1>1, <1>2, <2>2 DEF RevokesInv
      <3>2. sessions[s].user = sessions[f].user /\ sessions[Tok(r)].user = sessions[f].user
        BY <1>2, <1>3, <1>5 DEF FamiliesRooted, Unrevoked
      <3> QED
        BY <1>5, <2>2, <3>1, <3>2 DEF SessionsOf
    <2> QED
      BY <1>3, <2>1, <2>2
  <1>6. OthersWait(r) /\ RevokesInv(r)'
    <2> HIDE DEF rows
    <2> QED
      BY <1>1, <1>4, <1>5, WaitingCovers
  <1> QED
    BY <1>1, <1>6, UnchangedTurns, RevokingKept

LEMMA ConsumeKept ==
  ASSUME AuthInv, RevokingInv, NEW r \in Reqs, Consume(r)
  PROVE  RevokingInv'
  <1> USE TypesOfAuthInv
  <1> DEFINE u == resets[Tok(r)].user
  <1>1. UNCHANGED sessions
    BY DEF Consume, authTables
  <1>2. CASE resets[Tok(r)].state # "pending"
    <2>1. OthersWait(r) /\ reqs'[r].pc \notin Revoking
      BY <1>2, TurnsAside DEF Consume, Results
    <2> QED
      BY <1>1, <2>1, UnchangedTurns, RestKept
  <1>3. CASE resets[Tok(r)].state = "pending"
    <2>1. Waiting(r, "commit", u, SessionsOf(u))
      BY <1>3 DEF Consume
    <2>2. /\ SessionsOf(u) \in SUBSET Reqs
          /\ \A t \in SessionsOf(u) : sessions[t].state # "absent"
          /\ \A s \in Reqs : Unrevoked(s) /\ sessions[s].user = u => s \in SessionsOf(u)
      BY DEF SessionsOf, Unrevoked
    <2>3. OthersWait(r) /\ RevokesInv(r)'
      BY <1>1, <2>1, <2>2, WaitingCovers
    <2> QED
      BY <1>1, <2>3, UnchangedTurns, RevokingKept
  <1> QED
    BY <1>2, <1>3

\* The statements that revoke, and sign-ins.
LEMMA EndsAndSignInsKept ==
  ASSUME AuthInv, RevokingInv, NEW r \in Reqs,
         EndRevoke(r) \/ CommitReset(r) \/ Open(r) \/ CreateGoogleUser(r)
  PROVE  RevokingInv'
  <1> USE TypesOfAuthInv
  <1>1. RequestInv(r)
    BY DEF AuthInv
  <1>2. SessionsTurn
    <2>1. CASE EndRevoke(r) \/ CommitReset(r)
      BY <2>1, RevokedTurns DEF EndRevoke, CommitReset
    <2>2. CASE Open(r)
      <3>1. reqs[r].pc = "open" /\ sessions' = Opened(r, User(r))
        BY <2>2 DEF Open
      <3>2. User(r) \in Users /\ sessions[r].state = "absent"
        BY <1>1, <3>1 DEF RequestInv, CheckedInv, InsertedInv
      <3> QED
        BY <3>1, <3>2, OpenedTurns
    <2>3. CASE CreateGoogleUser(r)
      <3>1. /\ reqs[r].op = "google" /\ reqs[r].pc = "create"
            /\ sessions' = Opened(r, User(r)) \/ UNCHANGED sessions
        BY <2>3 DEF CreateGoogleUser, Is
      <3>2. User(r) \in Users /\ sessions[r].state = "absent"
        BY <1>1, <3>1 DEF RequestInv, PlaceInv, InsertedInv
      <3> QED
        BY <3>1, <3>2, OpenedTurns, UnchangedTurns
    <2> QED
      BY <2>1, <2>2, <2>3
  <1>3. OthersWait(r) /\ reqs'[r].pc \notin Revoking
    <2>1. \/ \E pc \in Pcs : GoOn(r, pc) /\ pc \notin Revoking
          \/ \E result \in Results : End(r, result)
      BY DEF EndRevoke, CommitReset, Open, CreateGoogleUser, Pcs, Results, Revoking
    <2> QED
      BY <2>1, TurnsAside
  <1> QED
    BY <1>2, <1>3, RestKept

LEMMA ArriveKept ==
  ASSUME AuthInv, RevokingInv, NEW r \in Reqs, Arrive(r)
  PROVE  RevokingInv'
  <1> USE TypesOfAuthInv
  <1>1. PICK op \in clients.ops : \E q \in Inputs(r, op) : reqs' = [reqs EXCEPT ![r] = q]
    BY DEF Arrive
  <1>2. PICK q \in Inputs(r, op) : reqs' = [reqs EXCEPT ![r] = q]
    BY <1>1
  <1>3. q.pc \in {"create", "lock", "consume", "read"}
    BY InputsOK
  <1>4. OthersWait(r) /\ reqs'[r].pc \notin Revoking
    BY <1>2, <1>3 DEF OthersWait, Revoking
  <1>5. SessionsTurn
    BY UnchangedTurns DEF Arrive, authTables
  <1> QED
    BY <1>4, <1>5, RestKept

LEMMA RevokingNext ==
  ASSUME AuthInv, RevokingInv, [AuthNext]_authVars
  PROVE  RevokingInv'
  <1>1. ASSUME SessionsTurn, UNCHANGED reqs
        PROVE  RevokingInv'
    BY <1>1, CoveredKept DEF RevokingInv
  <1>2. CASE UNCHANGED authVars
    BY <1>1, <1>2, UnchangedTurns DEF authVars, authTables
  <1>3. ASSUME NEW r \in Reqs, Proceed(r)
        PROVE  RevokingInv'
    BY <1>3, AsideKept, LockSessionKept, RotateKept, FindSessionKept,
       StartRevokeKept, ConsumeKept, EndsAndSignInsKept DEF Proceed
  <1>4. CASE Environment
    <2>1. ASSUME NEW s \in Reqs, ExpireSession(s)
          PROVE  RevokingInv'
      BY <1>1, <2>1, ExpiredTurns DEF ExpireSession
    <2>2. ASSUME \/ \E t \in Reqs : ExpireReset(t) \/ ExpireLink(t)
                 \/ \E u \in Users : Disable(u)
          PROVE  RevokingInv'
      BY <1>1, <2>2, UnchangedTurns DEF ExpireReset, ExpireLink, Disable
    <2> QED
      BY <1>4, <2>1, <2>2, AsideKept DEF Environment
  <1> QED
    BY <1>2, <1>3, <1>4, ArriveKept DEF AuthNext

LEMMA RevokingInvHolds == AuthSpec => [](AuthInv /\ RevokingInv)
  <1>1. AuthInit => RevokingInv
    <2> SUFFICES ASSUME AuthInit, NEW r \in Reqs
                 PROVE  RevokesInv(r)
      BY DEF RevokingInv
    <2>1. reqs[r].pc = "idle"
      BY DEF AuthInit, NoRequest
    <2> QED
      BY <2>1 DEF RevokesInv
  <1>2. AuthInv /\ RevokingInv /\ [AuthNext]_authVars => RevokingInv'
    BY RevokingNext
  <1> QED
    BY <1>1, <1>2, AuthInvHolds, PTL DEF AuthSpec

\* A statement that ends revokes what it found, and misses only what it may.
LEMMA EndedComplete ==
  ASSUME AuthInv, RevokingInv, NEW r \in Reqs,
         reqs[r].pc \in {"revoke", "commit"},
         sessions' = Revoked(reqs[r].targets),
         NEW s \in Reqs, sessions'[s].state \in {"open", "expired"},
         IF reqs[r].pc = "commit" THEN sessions'[s].user = User(r)
         ELSE sessions'[s].family = sessions[Tok(r)].family
  PROVE  \/ \E t \in reqs[r].targets : /\ sessions'[t].state = "replaced"
                                       /\ sessions'[t].family = sessions'[s].family
         \/ /\ reqs[r].pc = "commit"
            /\ \A t \in reqs[r].targets : sessions'[t].family # sessions'[s].family
  <1> USE TypesOfAuthInv
  <1>1. s \notin reqs[r].targets
    BY RevokedTurns DEF Unrevoked
  <1>2. sessions'[s] = sessions[s]
    BY <1>1 DEF Revoked
  <1>3. Covered(r, s)
    BY <1>2 DEF RevokingInv, RevokesInv, InScope, Unrevoked
  <1>4. reqs[r].targets \in SUBSET Reqs
    BY RequestFields
  <1>5. \A t \in reqs[r].targets :
           sessions[t].state # "absent" /\ sessions'[t].family = sessions[t].family
    <2>1. SessionsMove(r)
      BY RevokedMoves
    <2> QED
      BY <1>4, <2>1 DEF RevokingInv, RevokesInv, SessionsMove, SessionsGrow
  <1>6. \A t \in reqs[r].targets : sessions[t].state = "replaced" =>
           sessions'[t].state = "replaced"
    BY <1>4 DEF Revoked, Unrevoked
  <1> QED
    BY <1>1, <1>2, <1>3, <1>5, <1>6 DEF Covered

\* A request is changed by its own steps only.
LEMMA OwnSteps ==
  ASSUME reqs \in [Reqs -> Request], NEW q \in Reqs,
         Arrive(q) \/ Proceed(q) \/ Fail(q)
  PROVE  OthersWait(q)
  <1> USE DEF GoOn, GoOnFor, Waiting, End
  <1>1. ASSUME NEW x, reqs' = [reqs EXCEPT ![q] = x]
        PROVE  OthersWait(q)
    BY <1>1 DEF OthersWait
  <1>2. CASE Arrive(q)
    BY <1>1, <1>2 DEF Arrive
  <1>3. CASE \/ ReadLogin(q) \/ Rehash(q) \/ Open(q) \/ Answer(q) \/ ReadEmail(q)
             \/ CreateGoogleUser(q) \/ Rotate(q) \/ FindSession(q) \/ EndRevoke(q)
             \/ ReadForgot(q) \/ EndReplace(q) \/ CommitReset(q) \/ Create(q)
             \/ ReadResend(q) \/ RevokeLinks(q) \/ CreateLink(q) \/ Mail(q)
             \/ UseLink(q) \/ VerifyUser(q) \/ Fail(q)
    <2>1. (\E pc : GoOn(q, pc)) \/ (\E result : End(q, result))
      BY <1>3
      DEF ReadLogin, Rehash, Open, Answer, ReadEmail, CreateGoogleUser, Rotate,
          FindSession, EndRevoke, ReadForgot, EndReplace, CommitReset, Create,
          ReadResend, RevokeLinks, CreateLink, Mail, UseLink, VerifyUser, Fail
    <2> QED
      BY <1>1, <2>1
  <1>4. CASE ReadSubject(q)
    BY <1>1, <1>4 DEF ReadSubject
  <1>5. CASE ReadLink(q) \/ StartReplace(q) \/ StartRevoke(q) \/ Consume(q)
    BY <1>1, <1>5 DEF ReadLink, StartReplace, StartRevoke, Consume
  <1>6. CASE LockSession(q)
    BY <1>1, <1>6 DEF LockSession
  <1> QED
    BY <1>2, <1>3, <1>4, <1>5, <1>6 DEF Proceed

\* Only the end of its statement lets a request that revokes be done, or a
\* failure that the client hears of.
LEMMA DoneRevoking ==
  ASSUME AuthInv, [AuthNext]_authVars, NEW r \in Reqs,
         reqs[r].pc \in {"revoke", "commit"}, reqs'[r].pc = "done",
         reqs'[r].result # "error"
  PROVE  sessions' = Revoked(reqs[r].targets)
  <1> USE TypesOfAuthInv
  <1>1. reqs'[r] # reqs[r]
    OBVIOUS
  <1>2. PICK q \in Reqs : Arrive(q) \/ Proceed(q) \/ Fail(q)
    BY <1>1 DEF AuthNext, Environment, ExpireSession, ExpireReset, ExpireLink,
                Disable, authVars
  <1>3. q = r
    BY <1>1, <1>2, OwnSteps DEF OthersWait
  <1>4. ~Fail(r)
    <2>1. Fail(r) => Moved(r, "done", User(r), "error")
      BY EndMoved DEF Fail, Results
    <2> QED
      BY <2>1 DEF Moved
  <1>5. EndRevoke(r) \/ CommitReset(r)
    BY <1>2, <1>3, <1>4
    DEF Arrive, Proceed, Is, ReadLogin, Rehash, Open, Answer, ReadSubject, ReadEmail,
        CreateGoogleUser, LockSession, Rotate, FindSession, StartRevoke, ReadForgot,
        StartReplace, EndReplace, Consume, Create, ReadResend, RevokeLinks,
        CreateLink, Mail, ReadLink, UseLink, VerifyUser
  <1> QED
    BY <1>5 DEF EndRevoke, CommitReset

\* A revocation that commits, by logout, reuse or reset, leaves a session of its
\* family or account usable only when a refresh rotated the family while the
\* UPDATE waited, or when the sign-in came after the UPDATE had started.
THEOREM RevocationsComplete == AuthSpec => RevocationIsComplete
  <1> DEFINE Missed(r) ==
         \A s \in Reqs :
            /\ sessions'[s].state \in {"open", "expired"}
            /\ IF reqs[r].pc = "commit" THEN sessions'[s].user = User(r)
               ELSE sessions'[s].family = sessions[Tok(r)].family
            => \/ \E t \in reqs[r].targets :
                     /\ sessions'[t].state = "replaced"
                     /\ sessions'[t].family = sessions'[s].family
               \/ /\ reqs[r].pc = "commit"
                  /\ \A t \in reqs[r].targets :
                        sessions'[t].family # sessions'[s].family
  <1> DEFINE Complete ==
         \A r \in Reqs :
            /\ reqs[r].pc \in {"revoke", "commit"} /\ reqs'[r].pc = "done"
            /\ reqs'[r].result # "error"
            => Missed(r)
  <1>1. AuthInv /\ RevokingInv /\ [AuthNext]_authVars => Complete
    <2> SUFFICES ASSUME AuthInv, RevokingInv, [AuthNext]_authVars, NEW r \in Reqs,
                        reqs[r].pc \in {"revoke", "commit"}, reqs'[r].pc = "done",
                        reqs'[r].result # "error"
                 PROVE  Missed(r)
      OBVIOUS
    <2>1. sessions' = Revoked(reqs[r].targets)
      BY DoneRevoking
    <2> QED
      BY <2>1, EndedComplete
  <1> QED
    BY <1>1, RevokingInvHolds, PTL DEF AuthSpec, RevocationIsComplete
=============================================================================
