------------------------------- MODULE CliSession -------------------------------
(***************************************************************************)
(* The command-line client (src/cli): every command is a process that      *)
(* loads one shared session file when it starts, sends its requests, and   *)
(* may rotate, replace or remove the session.  The server's refresh tokens *)
(* are TokenFamilies, which AuthService implements.  A command, the tokens *)
(* issued to it and the family of its login have one number; the access    *)
(* and the refresh token of one answer are one token.                      *)
(***************************************************************************)
EXTENDS Integers, FiniteSets

CONSTANTS
    MaxCommands,  \* bound on the commands ever started
    MaxTogether,  \* bound on those that run at the same time
    Kinds,        \* kinds of command that are started
    Faults,       \* what may go wrong
    None

ASSUME MaxCommandsAssumption == MaxCommands \in Nat /\ MaxTogether \in Nat
ASSUME KindsAssumption == Kinds \subseteq {"login", "logout", "job"}
ASSUME FaultsAssumption ==
    Faults \subseteq {"network", "server", "disk", "kill", "expire", "end"}
ASSUME NoneAssumption == None \notin Int

VARIABLES
    holder, usable, spent,  \* the server's token families
    stale,                  \* access tokens that have expired
    ended,                  \* families the server ended by itself
    file,                   \* the token in the session file
    cmds

families == <<holder, usable, spent>>
cliVars == <<families, stale, ended, file, cmds>>

Cmds == 1..MaxCommands

Server == INSTANCE TokenFamilies WITH
    Families <- Cmds, Tokens <- Cmds, Holders <- {"user"}, Nobody <- None

Command == [kind    : Kinds \cup {None},
            pc      : {"idle", "login", "call", "refresh", "save", "logout",
                       "clear", "done"},
            session : Cmds \cup {None},   \* KyrgApiClient._session
            retry   : BOOLEAN,            \* the refresh has been tried
            result  : {"none", "ok", "error"},
            loaded  : Cmds \cup {None},   \* history: what the file held
            alone   : BOOLEAN,            \* history: no other command ran
            smooth  : BOOLEAN]            \* history: nothing went wrong

NewCommand == [kind |-> None, pc |-> "idle", session |-> None, retry |-> FALSE,
               result |-> "none", loaded |-> None, alone |-> TRUE, smooth |-> TRUE]

CliInit ==
    /\ Server!Init
    /\ stale = {} /\ ended = {}
    /\ file = None
    /\ cmds = [c \in Cmds |-> NewCommand]

-----------------------------------------------------------------------------
At(c, pc) == cmds[c].pc = pc
Active(c) == cmds[c].pc \notin {"idle", "done"}
Token(c) == cmds[c].session

Family(t) == {f \in Cmds : t \in usable[f] \cup spent[f]}
Usable(t) == \E f \in Cmds : t \in usable[f]

Goto(c, pc) == cmds' = [cmds EXCEPT ![c] = [@ EXCEPT !.pc = pc]]
Finish(c, result) ==
    cmds' = [cmds EXCEPT ![c] = [@ EXCEPT !.pc = "done", !.result = result]]
Upset(c, pc, result) ==
    cmds' = [cmds EXCEPT ![c] = [@ EXCEPT !.pc = pc, !.result = result,
                                          !.smooth = FALSE]]

\* AccessTokenService.decode: the server answers 401.
Refused(t) == t \in stale

\* SessionStore.save and clear replace or remove the file atomically.
WriteFile(t) == file' = t

\* No connection, a timeout, or an answer that says the server failed: a
\* CliNetworkError or CliApiError, whatever the server did with the request.
NoAnswer(c, pc) == Faults \cap {"network", "server"} # {} /\ Upset(c, pc, "error")

-----------------------------------------------------------------------------
\* Process start: the arguments, and the session file as it is now.
Begin(c) ==
    /\ At(c, "idle")
    /\ \A b \in 1..(c - 1) : ~At(b, "idle")
    /\ Cardinality({b \in Cmds : Active(b)}) < MaxTogether
    /\ \E kind \in Kinds :
          cmds' = [d \in Cmds |->
              IF d = c THEN [NewCommand EXCEPT !.kind = kind,
                  !.pc = CASE kind = "login" -> "login"
                           [] kind = "job" -> "call"
                           [] OTHER -> IF file = None THEN "clear" ELSE "logout",
                  !.session = file, !.loaded = file,
                  !.alone = \A b \in Cmds : ~Active(b)]
              ELSE IF Active(d) THEN [cmds[d] EXCEPT !.alone = FALSE]
              ELSE cmds[d]]
    /\ UNCHANGED <<families, stale, ended, file>>

\* login: wrong credentials change nothing.
Login(c) ==
    /\ At(c, "login")
    /\ \/ Server!SignIn(c, c, "user") /\ (Goto(c, "save") \/ NoAnswer(c, "done"))
       \/ /\ Finish(c, "error") \/ NoAnswer(c, "done")
          /\ UNCHANGED families
    /\ UNCHANGED <<stale, ended, file>>

\* A refused access token is refreshed once, and the file opened again.
Again(c) == IF cmds[c].retry THEN Finish(c, "error") ELSE Goto(c, "refresh")

\* _request_json and submit_job: without a session there is no request.
Call(c) ==
    /\ At(c, "call")
    /\ \/ /\ Token(c) # None
          /\ \/ Token(c) \notin stale /\ Finish(c, "ok")
             \/ Token(c) \in stale /\ Again(c)
             \/ NoAnswer(c, "done")
       \/ Token(c) = None /\ Finish(c, "error")
    /\ UNCHANGED <<families, stale, ended, file>>

\* The server ends families: a step the abstract families allow.
Ended(fs) ==
    /\ usable' = [f \in Cmds |-> IF f \in fs THEN {} ELSE usable[f]]
    /\ spent' = [f \in Cmds |-> IF f \in fs THEN spent[f] \cup usable[f] ELSE spent[f]]
    /\ Server!EndFamilies

\* The server ends a family, and when another command's rotation is under way
\* its new token may survive (AuthGuarantees, RevocationIsComplete).
EndFamily(c) ==
    \/ Ended(Family(Token(c)))
    \/ ~cmds[c].alone /\ UNCHANGED families

\* Mutant: a refused refresh keeps the session file.
RefreshKeeping(c) ==
    /\ At(c, "refresh")
    /\ \/ /\ Usable(Token(c))
          /\ \E f \in Cmds : Server!Renew(f, Token(c), c)
          /\ Goto(c, "save") \/ NoAnswer(c, "done")
       \/ /\ ~Usable(Token(c))
          /\ EndFamily(c)
          /\ Finish(c, "error") \/ NoAnswer(c, "done")
       \/ UNCHANGED families /\ NoAnswer(c, "done")
    /\ UNCHANGED <<stale, ended, file>>

\* refresh_session: only a refusal clears the session; without an answer it is
\* kept, and the file may then hold a token that was used.
Refresh(c) ==
    /\ At(c, "refresh")
    /\ \/ /\ Usable(Token(c))
          /\ \E f \in Cmds : Server!Renew(f, Token(c), c)
          /\ Goto(c, "save") \/ NoAnswer(c, "done")
       \/ /\ ~Usable(Token(c))
          /\ EndFamily(c)
          /\ cmds' = [cmds EXCEPT ![c] = [@ EXCEPT !.pc = "clear",
                                                   !.result = "error"]]
             \/ NoAnswer(c, "done")
       \/ UNCHANGED families /\ NoAnswer(c, "done")
    /\ UNCHANGED <<stale, ended, file>>

\* Mutant: the rotated session is kept in memory only.
SaveInMemory(c) ==
    /\ At(c, "save")
    /\ file' = IF cmds[c].kind = "login" THEN c ELSE file
    /\ cmds' = [cmds EXCEPT ![c] = [@ EXCEPT !.session = c, !.retry = TRUE,
                   !.pc = IF cmds[c].kind = "login" THEN "done" ELSE "call",
                   !.result = IF cmds[c].kind = "login" THEN "ok" ELSE cmds[c].result]]
    /\ UNCHANGED <<families, stale, ended>>

\* _store_authentication
Save(c) ==
    /\ At(c, "save")
    /\ \/ /\ WriteFile(c)
          /\ cmds' = [cmds EXCEPT ![c] = [@ EXCEPT !.session = c, !.retry = TRUE,
                         !.pc = IF cmds[c].kind = "login" THEN "done" ELSE "call",
                         !.result = IF cmds[c].kind = "login" THEN "ok" ELSE cmds[c].result]]
       \/ "disk" \in Faults /\ Upset(c, "done", "error") /\ UNCHANGED file
    /\ UNCHANGED <<families, stale, ended>>

\* Mutant: logout is a local matter.
LogoutLocal(c) ==
    /\ At(c, "logout")
    /\ Goto(c, "clear")
    /\ UNCHANGED <<families, stale, ended, file>>

\* logout: the server ends the family of the token, also of one that was used;
\* without an answer the local session goes all the same.
Logout(c) ==
    /\ At(c, "logout")
    /\ \/ EndFamily(c) /\ (Goto(c, "clear") \/ NoAnswer(c, "clear"))
       \/ UNCHANGED families /\ NoAnswer(c, "clear")
    /\ UNCHANGED <<stale, ended, file>>

\* _clear_session
Clear(c) ==
    /\ At(c, "clear")
    /\ \/ /\ WriteFile(None)
          /\ Finish(c, IF cmds[c].result = "none" THEN "ok" ELSE "error")
       \/ "disk" \in Faults /\ Upset(c, "done", "error") /\ UNCHANGED file
    /\ UNCHANGED <<families, stale, ended>>

-----------------------------------------------------------------------------
\* The user interrupts a command, or its process dies.
Interrupt(c) ==
    /\ "kill" \in Faults /\ Active(c)
    /\ Upset(c, "done", "error")
    /\ UNCHANGED <<families, stale, ended, file>>

\* The access token of one answer expires.
ExpireAccess(t) ==
    /\ "expire" \in Faults
    /\ Family(t) # {} /\ t \notin stale
    /\ stale' = stale \cup {t}
    /\ UNCHANGED <<families, ended, file, cmds>>

\* The session expires, or its user resets the password or logs out elsewhere.
EndElsewhere(f) ==
    /\ "end" \in Faults
    /\ usable[f] # {}
    /\ Ended({f})
    /\ ended' = ended \cup {f}
    /\ UNCHANGED <<stale, file, cmds>>

Proceed(c) == \/ Login(c) \/ Call(c) \/ Refresh(c) \/ Save(c) \/ Logout(c) \/ Clear(c)

CliNext ==
    \E c \in Cmds : \/ Begin(c) \/ Proceed(c) \/ Interrupt(c)
                    \/ ExpireAccess(c) \/ EndElsewhere(c)

CliSpec == CliInit /\ [][CliNext]_cliVars

-----------------------------------------------------------------------------
\* Types; and a client holds no token that no server issued.
CliTypeOK ==
    /\ holder \in [Cmds -> {"user", None}]
    /\ usable \in [Cmds -> SUBSET Cmds]
    /\ spent \in [Cmds -> SUBSET Cmds]
    /\ stale \subseteq Cmds /\ ended \subseteq Cmds
    /\ file \in Cmds \cup {None}
    /\ cmds \in [Cmds -> Command]
    /\ \A t \in {file} \cup {cmds[c].session : c \in Cmds} :
          t # None => Family(t) # {}

\* While no command overlapped another and none was disturbed, the file holds
\* the token its family may use next, unless the server ended that family
\* (refresh_session, _store_authentication: a rotated token that is presented
\* again would log the user out everywhere).
SavedSessionUsable ==
    /\ \A c \in Cmds : cmds[c].alone /\ cmds[c].smooth /\ ~Active(c)
    /\ file # None
    => Usable(file) \/ Family(file) \cap ended # {}

\* Whatever happened before, a command that runs alone and undisturbed does
\* not leave a session that neither works nor can be renewed: it works, is
\* rotated, or is removed (_request_json, refresh_session).
DeadSessionGoes ==
    [][\A c \in Cmds :
          /\ cmds[c].kind = "job" /\ Active(c) /\ At(c, "done")'
          /\ cmds'[c].alone /\ cmds'[c].smooth
          => \/ file' = None \/ file' \notin stale'
             \/ Usable(file)' \/ Family(file)' \cap ended' # {}]_cliVars

\* After a logout that reports success and met no other command, the session
\* it found is gone from the file and its family can never be used again, also
\* when the file held a token that had been used already.
LogoutIsFinal ==
    \A c \in Cmds :
        /\ cmds[c].kind = "logout" /\ cmds[c].result = "ok"
        /\ cmds[c].alone /\ cmds[c].loaded # None
        => /\ \A f \in Family(cmds[c].loaded) : usable[f] = {}
           /\ file # cmds[c].loaded
=============================================================================
