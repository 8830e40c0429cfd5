---------------------------- MODULE CliSessionProofs ----------------------------
(***************************************************************************)
(* Sessions of the command-line client, for any number of commands, any    *)
(* kinds of command and any faults.  A token is issued to one command and  *)
(* reaches the file once (Landed), so that a token a logout has found can  *)
(* never come back; and a command that runs alone is the only one that     *)
(* moves the file and the families its token belongs to.                   *)
(***************************************************************************)
EXTENDS CliSession, TLAPS

-----------------------------------------------------------------------------
(* The inductive invariant.                                                 *)

Types ==
    /\ holder \in [Cmds -> {"user", None}]
    /\ usable \in [Cmds -> SUBSET Cmds]
    /\ spent \in [Cmds -> SUBSET Cmds]
    /\ stale \subseteq Cmds /\ ended \subseteq Cmds
    /\ file \in Cmds \cup {None}
    /\ cmds \in [Cmds -> Command]

\* A command whose token has been in the file cannot be given another one.
Landed(d) ==
    /\ cmds[d].pc \notin {"idle", "login", "refresh", "save"}
    /\ cmds[d].pc = "call" => cmds[d].retry

Issued(t) == \E f \in Cmds : t \in usable[f] \cup spent[f]

\* The token works, or what the server did is the reason that it does not.
Good(t) == Usable(t) \/ Family(t) \cap ended # {}

\* The course of each kind of command.
CourseInv(c) ==
    LET pc == cmds[c].pc
    IN  /\ pc = "idle" => cmds[c] = NewCommand
        /\ pc = "login" => cmds[c].kind = "login"
        /\ pc \in {"call", "refresh"} => cmds[c].kind = "job"
        /\ pc = "save" => cmds[c].kind \in {"login", "job"}
        /\ pc = "logout" => cmds[c].kind = "logout"
        /\ pc # "idle" /\ cmds[c].kind = "logout" => pc \in {"logout", "clear", "done"}
        /\ pc \notin {"clear", "done"} => cmds[c].result = "none"
        /\ pc = "clear" => cmds[c].result # "ok"
        /\ pc \in {"login", "refresh", "save", "logout"} => ~cmds[c].retry

\* Where a command's token comes from.
TokenInv(c) ==
    /\ ~cmds[c].retry => cmds[c].session = cmds[c].loaded
    /\ cmds[c].retry => cmds[c].session = c
    /\ cmds[c].loaded # None => Landed(cmds[c].loaded)
    /\ cmds[c].session # None => Issued(cmds[c].session)
    /\ cmds[c].pc = "save" => Issued(c)
    /\ cmds[c].pc \in {"idle", "login"} => usable[c] = {} /\ spent[c] = {}

FileInv == file # None => Landed(file) /\ Issued(file)

\* While a command is active and alone, no other one is active.
SoloInv == \A c, d \in Cmds : Active(c) /\ Active(d) /\ c # d => ~cmds[c].alone

\* A logout has ended what it found; its token does not come back.
LogoutInv(c) ==
    /\ cmds[c].kind = "logout" /\ cmds[c].alone /\ cmds[c].loaded # None
    /\ \/ cmds[c].pc = "clear" /\ cmds[c].result = "none"
       \/ cmds[c].pc = "done" /\ cmds[c].result = "ok"
    => /\ \A f \in Family(cmds[c].loaded) : usable[f] = {}
       /\ cmds[c].pc = "done" => file # cmds[c].loaded

\* A command that is alone holds what the file holds.
AloneInv(c) ==
    cmds[c].alone =>
        /\ cmds[c].pc \in {"call", "refresh"} => file = cmds[c].session
        /\ cmds[c].pc = "save" => Good(c)
        /\ cmds[c].pc = "call" /\ cmds[c].retry => Good(c)

\* While nothing has overlapped or gone wrong, the file is kept usable.
Calm == \A c \in Cmds : cmds[c].alone /\ cmds[c].smooth

CalmInv ==
    /\ Calm /\ file # None
    /\ \A c \in Cmds : cmds[c].pc \notin {"refresh", "save", "logout", "clear"}
    => Good(file)

CliInv ==
    /\ Types
    /\ \A c \in Cmds : CourseInv(c) /\ TokenInv(c)
    /\ FileInv /\ SoloInv
    /\ \A c \in Cmds : LogoutInv(c) /\ AloneInv(c)
    /\ CalmInv

-----------------------------------------------------------------------------
(* What one step does.                                                      *)

\* A step of a command leaves the others alone, and its own kind, file and
\* company.
Keeps(c) ==
    /\ cmds' \in [Cmds -> Command]
    /\ \A d \in Cmds : d # c => cmds'[d] = cmds[d]
    /\ cmds'[c].kind = cmds[c].kind
    /\ cmds'[c].loaded = cmds[c].loaded
    /\ cmds'[c].alone = cmds[c].alone
    /\ cmds'[c].smooth => cmds[c].smooth

Holds(c) ==
    /\ cmds'[c].session = cmds[c].session
    /\ cmds'[c].retry = cmds[c].retry

\* The server starts, renews or ends families.
Signs(c) == Server!SignIn(c, c, "user")
Renews(c) == \E f \in Cmds : Server!Renew(f, Token(c), c)
Ends == \E fs \in SUBSET Cmds : Ended(fs)

From(c, pc, next) == cmds[c].pc = pc /\ cmds'[c].pc = next

\* The ways a command can go on, and what each does to the server and the file.
Signed(c) ==
    /\ From(c, "login", "save") /\ Signs(c)
    /\ Holds(c) /\ cmds'[c].result = cmds[c].result /\ UNCHANGED file
Renewed(c) ==
    /\ From(c, "refresh", "save") /\ Renews(c)
    /\ Holds(c) /\ cmds'[c].result = cmds[c].result /\ UNCHANGED file
Disturbed(c) ==
    /\ cmds'[c].pc = "done" /\ cmds'[c].result = "error" /\ ~cmds'[c].smooth
    /\ \/ UNCHANGED families \/ Ends
       \/ cmds[c].pc = "login" /\ Signs(c)
       \/ cmds[c].pc = "refresh" /\ Renews(c)
    /\ Holds(c) /\ UNCHANGED file
Denied(c) ==
    /\ From(c, "login", "done") /\ cmds'[c].result = "error"
    /\ Holds(c) /\ UNCHANGED <<families, file>>
Answered(c) ==
    /\ From(c, "call", "done")
    /\ \/ Token(c) = None \/ Token(c) \notin stale \/ cmds[c].retry
    /\ Holds(c) /\ UNCHANGED <<families, file>>
Expired(c) ==
    /\ From(c, "call", "refresh") /\ ~cmds[c].retry
    /\ Holds(c) /\ cmds'[c].result = cmds[c].result /\ UNCHANGED <<families, file>>
Rejected(c) ==
    /\ From(c, "refresh", "clear") /\ cmds'[c].result = "error"
    /\ UNCHANGED families \/ Ends
    /\ Holds(c) /\ UNCHANGED file
Stored(c) ==
    /\ \/ From(c, "save", "done") /\ cmds[c].kind = "login"
       \/ /\ From(c, "save", "call") /\ cmds[c].kind # "login"
          /\ cmds'[c].result = cmds[c].result
    /\ cmds'[c].session = c /\ cmds'[c].retry
    /\ file' = c /\ UNCHANGED families
LoggedOut(c) ==
    /\ From(c, "logout", "clear")
    /\ \/ cmds'[c].result = cmds[c].result /\ EndFamily(c)
       \/ cmds'[c].result = "error" /\ (UNCHANGED families \/ Ends)
    /\ Holds(c) /\ UNCHANGED file
Cleared(c) ==
    /\ From(c, "clear", "done")
    /\ cmds'[c].result = IF cmds[c].result = "none" THEN "ok" ELSE "error"
    /\ Holds(c) /\ UNCHANGED families /\ file' = None

Goes(c) ==
    /\ Active(c) /\ Keeps(c) /\ UNCHANGED <<stale, ended>>
    /\ \/ Signed(c) \/ Renewed(c) \/ Disturbed(c) \/ Denied(c) \/ Answered(c)
       \/ Expired(c) \/ Rejected(c) \/ Stored(c) \/ LoggedOut(c) \/ Cleared(c)

Nature == UNCHANGED <<file, cmds>> /\ \E t \in Cmds : ExpireAccess(t) \/ EndElsewhere(t)

LEMMA GotoEffect ==
  ASSUME Types, NEW c \in Cmds, Goto(c, "call") \/ Goto(c, "refresh") \/ Goto(c, "save")
                                \/ Goto(c, "clear")
  PROVE  /\ Keeps(c) /\ Holds(c) /\ cmds'[c].result = cmds[c].result
         /\ \A pc : Goto(c, pc) => cmds'[c].pc = pc
  BY DEF Types, Goto, Keeps, Holds, Command

LEMMA FinishEffect ==
  ASSUME Types, NEW c \in Cmds, NEW result \in {"ok", "error"}, Finish(c, result)
  PROVE  /\ Keeps(c) /\ Holds(c)
         /\ cmds'[c].pc = "done" /\ cmds'[c].result = result
  <1> DEFINE n == [cmds[c] EXCEPT !.pc = "done", !.result = result]
  <1>1. cmds[c] \in Command
    BY DEF Types
  <1>2. /\ n \in Command /\ n.pc = "done" /\ n.result = result
        /\ n.kind = cmds[c].kind /\ n.loaded = cmds[c].loaded /\ n.alone = cmds[c].alone
        /\ n.smooth = cmds[c].smooth /\ n.session = cmds[c].session
        /\ n.retry = cmds[c].retry
    BY <1>1 DEF Command
  <1> HIDE DEF n
  <1>3. cmds' = [cmds EXCEPT ![c] = n]
    BY DEF Finish, n
  <1> QED
    BY <1>2, <1>3 DEF Types, Keeps, Holds

LEMMA UpsetEffect ==
  ASSUME Types, NEW c \in Cmds, NEW pc \in {"clear", "done"}, Upset(c, pc, "error")
  PROVE  /\ Keeps(c) /\ Holds(c)
         /\ cmds'[c].pc = pc /\ cmds'[c].result = "error" /\ ~cmds'[c].smooth
  <1> DEFINE n == [cmds[c] EXCEPT !.pc = pc, !.result = "error", !.smooth = FALSE]
  <1>1. cmds[c] \in Command
    BY DEF Types
  <1>2. /\ n \in Command /\ n.pc = pc /\ n.result = "error"
        /\ n.kind = cmds[c].kind /\ n.loaded = cmds[c].loaded /\ n.alone = cmds[c].alone
        /\ n.smooth = FALSE /\ n.session = cmds[c].session
        /\ n.retry = cmds[c].retry
    BY <1>1 DEF Command
  <1> HIDE DEF n
  <1>3. cmds' = [cmds EXCEPT ![c] = n]
    BY DEF Upset, n
  <1> QED
    BY <1>2, <1>3 DEF Types, Keeps, Holds

\* The record that Refresh writes.
LEMMA RejectedEffect ==
  ASSUME Types, NEW c \in Cmds,
         cmds' = [cmds EXCEPT ![c] = [@ EXCEPT !.pc = "clear", !.result = "error"]]
  PROVE  Keeps(c) /\ Holds(c) /\ cmds'[c].pc = "clear" /\ cmds'[c].result = "error"
  <1> DEFINE n == [cmds[c] EXCEPT !.pc = "clear", !.result = "error"]
  <1>1. cmds[c] \in Command
    BY DEF Types
  <1>2. /\ n \in Command /\ n.pc = "clear" /\ n.result = "error"
        /\ n.kind = cmds[c].kind /\ n.loaded = cmds[c].loaded /\ n.alone = cmds[c].alone
        /\ n.smooth = cmds[c].smooth /\ n.session = cmds[c].session
        /\ n.retry = cmds[c].retry
    BY <1>1 DEF Command
  <1>3. cmds' = [cmds EXCEPT ![c] = n]
    OBVIOUS
  <1> HIDE DEF n
  <1> QED
    BY <1>2, <1>3 DEF Types, Keeps, Holds

\* The record that Save writes.
LEMMA StoredEffect ==
  ASSUME Types, NEW c \in Cmds,
         cmds' = [cmds EXCEPT ![c] = [@ EXCEPT !.session = c, !.retry = TRUE,
                    !.pc = IF cmds[c].kind = "login" THEN "done" ELSE "call",
                    !.result = IF cmds[c].kind = "login" THEN "ok" ELSE cmds[c].result]]
  PROVE  /\ Keeps(c) /\ cmds'[c].session = c /\ cmds'[c].retry
         /\ cmds[c].kind = "login" => cmds'[c].pc = "done"
         /\ cmds[c].kind # "login" =>
               cmds'[c].pc = "call" /\ cmds'[c].result = cmds[c].result
  <1> DEFINE pc == IF cmds[c].kind = "login" THEN "done" ELSE "call"
             result == IF cmds[c].kind = "login" THEN "ok" ELSE cmds[c].result
             n == [cmds[c] EXCEPT !.session = c, !.retry = TRUE, !.pc = pc,
                                  !.result = result]
  <1>1. cmds[c] \in Command
    BY DEF Types
  <1>2. /\ pc \in {"done", "call"} /\ result \in {"none", "ok", "error"}
        /\ cmds[c].kind = "login" => pc = "done"
        /\ cmds[c].kind # "login" => pc = "call" /\ result = cmds[c].result
    BY <1>1 DEF Command
  <1>3. cmds' = [cmds EXCEPT ![c] = n]
    OBVIOUS
  <1> HIDE DEF pc, result
  <1>4. /\ n \in Command /\ n.pc = pc /\ n.result = result
        /\ n.session = c /\ n.retry = TRUE
        /\ n.kind = cmds[c].kind /\ n.loaded = cmds[c].loaded
        /\ n.alone = cmds[c].alone /\ n.smooth = cmds[c].smooth
    BY <1>1, <1>2 DEF Command
  <1> HIDE DEF n
  <1> QED
    BY <1>2, <1>3, <1>4 DEF Types, Keeps

LEMMA FamilyIsSet == \A t : Family(t) \in SUBSET Cmds
  BY DEF Family

LEMMA ProceedGoes ==
  ASSUME Types, NEW c \in Cmds, Proceed(c) \/ Interrupt(c)
  PROVE  Goes(c)
  <1>1. CASE Login(c)
    <2>1. Active(c) /\ cmds[c].pc = "login"
      BY <1>1 DEF Login, At, Active
    <2>2. CASE Server!SignIn(c, c, "user") /\ Goto(c, "save")
      BY <1>1, <2>1, <2>2, GotoEffect DEF Login, Goes, Signed, From, Signs
    <2>3. CASE Server!SignIn(c, c, "user") /\ NoAnswer(c, "done")
      BY <1>1, <2>1, <2>3, UpsetEffect DEF Login, Goes, Disturbed, Signs, NoAnswer
    <2>4. CASE UNCHANGED families /\ Finish(c, "error")
      BY <1>1, <2>1, <2>4, FinishEffect DEF Login, Goes, Denied, From
    <2>5. CASE UNCHANGED families /\ NoAnswer(c, "done")
      BY <1>1, <2>1, <2>5, UpsetEffect DEF Login, Goes, Disturbed, NoAnswer
    <2> QED
      BY <1>1, <2>2, <2>3, <2>4, <2>5 DEF Login
  <1>2. CASE Call(c)
    <2>1. Active(c) /\ cmds[c].pc = "call"
      BY <1>2 DEF Call, At, Active
    <2>2. CASE \/ Token(c) # None /\ Token(c) \notin stale /\ Finish(c, "ok")
               \/ Token(c) = None /\ Finish(c, "error")
               \/ cmds[c].retry /\ Finish(c, "error")
      BY <1>2, <2>1, <2>2, FinishEffect DEF Call, Goes, Answered, From
    <2>3. CASE ~cmds[c].retry /\ Goto(c, "refresh")
      BY <1>2, <2>1, <2>3, GotoEffect DEF Call, Goes, Expired, From
    <2>4. CASE NoAnswer(c, "done")
      BY <1>2, <2>1, <2>4, UpsetEffect DEF Call, Goes, Disturbed, NoAnswer
    <2> QED
      BY <1>2, <2>2, <2>3, <2>4 DEF Call, Again
  <1>3. CASE Refresh(c)
    <2>1. Active(c) /\ cmds[c].pc = "refresh"
      BY <1>3 DEF Refresh, At, Active
    <2>2. CASE Renews(c) /\ Goto(c, "save")
      BY <1>3, <2>1, <2>2, GotoEffect DEF Refresh, Goes, Renewed, From
    <2>3. CASE Renews(c) /\ NoAnswer(c, "done")
      BY <1>3, <2>1, <2>3, UpsetEffect DEF Refresh, Goes, Disturbed, NoAnswer
    <2>4. CASE /\ EndFamily(c)
               /\ cmds' = [cmds EXCEPT ![c] = [@ EXCEPT !.pc = "clear",
                                                        !.result = "error"]]
      <3>1. UNCHANGED families \/ Ends
        BY <2>4, FamilyIsSet DEF EndFamily, Ends
      <3>2. /\ Keeps(c) /\ Holds(c)
            /\ cmds'[c].pc = "clear" /\ cmds'[c].result = "error"
        BY <2>4, RejectedEffect
      <3> QED
        BY <1>3, <2>1, <3>1, <3>2 DEF Refresh, Goes, Rejected, From
    <2>5. CASE (EndFamily(c) \/ UNCHANGED families) /\ NoAnswer(c, "done")
      <3>1. UNCHANGED families \/ Ends
        BY <2>5, FamilyIsSet DEF EndFamily, Ends
      <3> QED
        BY <1>3, <2>1, <2>5, <3>1, UpsetEffect DEF Refresh, Goes, Disturbed, NoAnswer
    <2> QED
      BY <1>3, <2>2, <2>3, <2>4, <2>5 DEF Refresh, Renews
  <1>4. CASE Save(c)
    <2>1. Active(c) /\ cmds[c].pc = "save"
      BY <1>4 DEF Save, At, Active
    <2>2. CASE /\ WriteFile(c)
               /\ cmds' = [cmds EXCEPT ![c] = [@ EXCEPT !.session = c, !.retry = TRUE,
                              !.pc = IF cmds[c].kind = "login" THEN "done" ELSE "call",
                              !.result = IF cmds[c].kind = "login" THEN "ok" ELSE cmds[c].result]]
      <3>1. /\ Keeps(c) /\ cmds'[c].session = c /\ cmds'[c].retry
            /\ cmds[c].kind = "login" => cmds'[c].pc = "done"
            /\ cmds[c].kind # "login" =>
                  cmds'[c].pc = "call" /\ cmds'[c].result = cmds[c].result
        BY <2>2, StoredEffect
      <3> QED
        BY <1>4, <2>1, <2>2, <3>1 DEF Save, Goes, Stored, From, WriteFile
    <2>3. CASE Upset(c, "done", "error") /\ UNCHANGED file
      BY <1>4, <2>1, <2>3, UpsetEffect DEF Save, Goes, Disturbed
    <2> QED
      BY <1>4, <2>2, <2>3 DEF Save
  <1>5. CASE Logout(c)
    <2>1. Active(c) /\ cmds[c].pc = "logout"
      BY <1>5 DEF Logout, At, Active
    <2>2. CASE EndFamily(c) /\ Goto(c, "clear")
      BY <1>5, <2>1, <2>2, GotoEffect DEF Logout, Goes, LoggedOut, From
    <2>3. CASE (EndFamily(c) \/ UNCHANGED families) /\ NoAnswer(c, "clear")
      <3>1. UNCHANGED families \/ Ends
        BY <2>3, FamilyIsSet DEF EndFamily, Ends
      <3> QED
        BY <1>5, <2>1, <2>3, <3>1, UpsetEffect DEF Logout, Goes, LoggedOut, From, NoAnswer
    <2> QED
      BY <1>5, <2>2, <2>3 DEF Logout
  <1>6. CASE Clear(c)
    <2>1. Active(c) /\ cmds[c].pc = "clear"
      BY <1>6 DEF Clear, At, Active
    <2>2. CASE /\ WriteFile(None)
               /\ Finish(c, IF cmds[c].result = "none" THEN "ok" ELSE "error")
      BY <1>6, <2>1, <2>2, FinishEffect DEF Clear, Goes, Cleared, From, WriteFile
    <2>3. CASE Upset(c, "done", "error") /\ UNCHANGED file
      BY <1>6, <2>1, <2>3, UpsetEffect DEF Clear, Goes, Disturbed
    <2> QED
      BY <1>6, <2>2, <2>3 DEF Clear
  <1>7. CASE Interrupt(c)
    BY <1>7, UpsetEffect DEF Interrupt, Goes, Disturbed
  <1> QED
    BY <1>1, <1>2, <1>3, <1>4, <1>5, <1>6, <1>7 DEF Proceed

-----------------------------------------------------------------------------
(* What becomes of tokens and families.                                     *)

\* A step of a command moves the families in one of these ways.
Moves(c) ==
    \/ UNCHANGED families
    \/ Ends
    \/ cmds[c].pc = "login" /\ Signs(c)
    \/ cmds[c].pc = "refresh" /\ Renews(c)

LEMMA GoesMoves ==
  ASSUME NEW c \in Cmds, Goes(c)
  PROVE  Moves(c)
  BY FamilyIsSet
  DEF Goes, Moves, Signed, Renewed, Disturbed, Denied, Answered, Expired, Rejected, Stored,
      LoggedOut, Cleared, EndFamily, Ends, From

\* A token that was issued stays so, and it joins another family, or an ended
\* family is started again, only while its own command may still be given it.
LEMMA TokensKept ==
  ASSUME Types, NEW c \in Cmds, TokenInv(c), Moves(c), NEW t \in Cmds
  PROVE  /\ Issued(t) => Issued(t)'
         /\ Family(t) \subseteq Family(t)'
         /\ t # c \/ cmds[t].pc \notin {"login", "refresh"} =>
               /\ Family(t)' = Family(t)
               /\ \A f \in Family(t) : usable[f] = {} => usable'[f] = {}
  <1> DEFINE Goal ==
         /\ Issued(t) => Issued(t)'
         /\ Family(t) \subseteq Family(t)'
         /\ t # c \/ cmds[t].pc \notin {"login", "refresh"} =>
               /\ Family(t)' = Family(t)
               /\ \A f \in Family(t) : usable[f] = {} => usable'[f] = {}
  <1>1. CASE UNCHANGED families
    BY <1>1 DEF families, Issued, Family
  <1>2. ASSUME NEW fs \in SUBSET Cmds, Ended(fs) PROVE Goal
    BY <1>2 DEF Ended, Issued, Family, Types
  <1>3. CASE cmds[c].pc = "login" /\ Signs(c)
    <2>1. usable[c] = {} /\ spent[c] = {}
      BY <1>3 DEF TokenInv
    <2> QED
      BY <1>3, <2>1 DEF Signs, Server!SignIn, Issued, Family, Types
  <1>4. CASE cmds[c].pc = "refresh" /\ Renews(c)
    <2>1. PICK f \in Cmds : Server!Renew(f, Token(c), c)
      BY <1>4 DEF Renews
    <2>2. /\ usable[f] = {Token(c)} /\ usable'[f] = {c}
          /\ spent'[f] = spent[f] \cup {Token(c)}
          /\ \A g \in Cmds : g # f => usable'[g] = usable[g] /\ spent'[g] = spent[g]
      BY <2>1 DEF Server!Renew, Types
    <2>3. \A g \in Cmds : /\ usable[g] \cup spent[g] \subseteq usable'[g] \cup spent'[g]
                          /\ usable'[g] \cup spent'[g] \subseteq usable[g] \cup spent[g] \cup {c}
                          /\ usable[g] = {} => usable'[g] = {}
      BY <2>2
    <2> QED
      BY <1>4, <2>3 DEF Issued, Family
  <1> QED
    BY <1>1, <1>2, <1>3, <1>4 DEF Moves, Ends

\* A family nobody has started stays empty unless its own command starts it.
LEMMA EmptyKept ==
  ASSUME Types, NEW c \in Cmds, Moves(c), NEW d \in Cmds, d # c,
         usable[d] = {}, spent[d] = {}
  PROVE  usable'[d] = {} /\ spent'[d] = {}
  <1>1. CASE Ends
    BY <1>1 DEF Ends, Ended, Types
  <1>2. CASE Signs(c)
    BY <1>2 DEF Signs, Server!SignIn, Types
  <1>3. CASE Renews(c)
    BY <1>3 DEF Renews, Server!Renew, Types
  <1> QED
    BY <1>1, <1>2, <1>3 DEF Moves, families

\* A token that works, or whose family the server ended, stays so when a
\* family is started or the server ends another one.
LEMMA GoodKept ==
  ASSUME Types, NEW t \in Cmds, Good(t),
         \/ UNCHANGED <<families, ended>>
         \/ \E c \in Cmds : /\ Signs(c) /\ UNCHANGED ended
                            /\ usable[c] = {} /\ spent[c] = {}
         \/ \E f \in Cmds : Ended({f}) /\ ended' = ended \cup {f}
  PROVE  Good(t)'
  <1>1. CASE UNCHANGED <<families, ended>>
    BY <1>1 DEF families, Good, Usable, Family
  <1>2. ASSUME NEW c \in Cmds, Signs(c), UNCHANGED ended, usable[c] = {}, spent[c] = {}
        PROVE  Good(t)'
    BY <1>2 DEF Signs, Server!SignIn, Types, Good, Usable, Family
  <1>3. ASSUME NEW f \in Cmds, Ended({f}), ended' = ended \cup {f}
        PROVE  Good(t)'
    BY <1>3 DEF Ended, Types, Good, Usable, Family
  <1> QED
    BY <1>1, <1>2, <1>3

\* A token that was just issued works.
LEMMA NewIsGood ==
  ASSUME Types, NEW c \in Cmds, Signs(c) \/ Renews(c)
  PROVE  Good(c)' /\ Issued(c)'
  <1>1. CASE Signs(c)
    BY <1>1 DEF Signs, Server!SignIn, Types, Good, Usable, Issued
  <1>2. CASE Renews(c)
    BY <1>2 DEF Renews, Server!Renew, Types, Good, Usable, Issued
  <1> QED
    BY <1>1, <1>2

LEMMA TypesMoved ==
  ASSUME Types, NEW c \in Cmds, Moves(c) 
  PROVE  /\ holder' \in [Cmds -> {"user", None}]
         /\ usable' \in [Cmds -> SUBSET Cmds]
         /\ spent' \in [Cmds -> SUBSET Cmds]
  <1>1. CASE Ends
    BY <1>1 DEF Ends, Ended, Types, Server!EndFamilies
  <1>2. CASE Signs(c)
    BY <1>2 DEF Signs, Server!SignIn, Types
  <1>3. CASE Renews(c)
    <2>1. PICK f \in Cmds : Server!Renew(f, Token(c), c)
      BY <1>3 DEF Renews
    <2>2. Token(c) \in Cmds
      BY <2>1 DEF Server!Renew, Types
    <2> QED
      BY <2>1, <2>2 DEF Server!Renew, Types
  <1> QED
    BY <1>1, <1>2, <1>3 DEF Moves, families, Types

-----------------------------------------------------------------------------
(* The invariant is inductive.                                              *)

LEMMA CliInvInit == CliInit => CliInv
  BY NoneAssumption
  DEF CliInit, Server!Init, NewCommand, CliInv, Types, Command, CourseInv, TokenInv, FileInv,
      SoloInv, LogoutInv, AloneInv, CalmInv, Active, Cmds

\* A process starts: every other command that is active now has company.
LEMMA BeginInv ==
  ASSUME CliInv, NEW c \in Cmds, Begin(c)
  PROVE  CliInv'
  <1>1. PICK kind \in Kinds :
          cmds' = [d \in Cmds |->
              IF d = c THEN [NewCommand EXCEPT !.kind = kind,
                  !.pc = CASE kind = "login" -> "login"
                           [] kind = "job" -> "call"
                           [] OTHER -> IF file = None THEN "clear" ELSE "logout",
                  !.session = file, !.loaded = file,
                  !.alone = \A b \in Cmds : ~Active(b)]
              ELSE IF Active(d) THEN [cmds[d] EXCEPT !.alone = FALSE]
              ELSE cmds[d]]
    BY DEF Begin
  <1> DEFINE pc == CASE kind = "login" -> "login"
                     [] kind = "job" -> "call"
                     [] OTHER -> IF file = None THEN "clear" ELSE "logout"
  <1>2. /\ kind = "login" => pc = "login"
        /\ kind = "job" => pc = "call"
        /\ kind = "logout" => pc = IF file = None THEN "clear" ELSE "logout"
        /\ kind \in {"login", "job", "logout"}
    BY KindsAssumption
  <1> DEFINE n == [NewCommand EXCEPT !.kind = kind, !.pc = pc, !.session = file,
                                     !.loaded = file, !.alone = \A b \in Cmds : ~Active(b)]
             m(d) == [cmds[d] EXCEPT !.alone = FALSE]
  <1>n. /\ n \in Command /\ n.kind = kind /\ n.pc = pc
        /\ n.session = file /\ n.loaded = file /\ ~n.retry
        /\ n.result = "none" /\ n.smooth
        /\ n.alone <=> \A b \in Cmds : ~Active(b)
    <2>1. pc \in {"login", "call", "clear", "logout"} /\ file \in Cmds \cup {None}
      BY <1>2 DEF CliInv, Types
    <2>2. (\A b \in Cmds : ~Active(b)) \in BOOLEAN
      OBVIOUS
    <2> HIDE DEF pc
    <2> QED
      BY <2>1, <2>2 DEF NewCommand, Command
  <1>m. ASSUME NEW d \in Cmds
        PROVE  /\ m(d) \in Command /\ ~m(d).alone
               /\ m(d).kind = cmds[d].kind /\ m(d).pc = cmds[d].pc
               /\ m(d).session = cmds[d].session /\ m(d).loaded = cmds[d].loaded
               /\ m(d).retry = cmds[d].retry /\ m(d).result = cmds[d].result
               /\ m(d).smooth = cmds[d].smooth
    <2>1. cmds[d] \in Command
      BY DEF CliInv, Types
    <2> QED
      BY <2>1 DEF Command
  <1>s. cmds' = [d \in Cmds |-> IF d = c THEN n ELSE IF Active(d) THEN m(d) ELSE cmds[d]]
    BY <1>1
  <1> HIDE DEF n, m, pc
  <1>3. /\ cmds'[c].kind = kind /\ cmds'[c].pc = pc
        /\ cmds'[c].session = file /\ cmds'[c].loaded = file /\ ~cmds'[c].retry
        /\ cmds'[c].result = "none" /\ cmds'[c].smooth
        /\ cmds'[c].alone <=> \A b \in Cmds : ~Active(b)
    BY <1>n, <1>s
  <1>4. \A d \in Cmds : d # c =>
           /\ cmds'[d].kind = cmds[d].kind /\ cmds'[d].pc = cmds[d].pc
           /\ cmds'[d].session = cmds[d].session /\ cmds'[d].loaded = cmds[d].loaded
           /\ cmds'[d].retry = cmds[d].retry /\ cmds'[d].result = cmds[d].result
           /\ cmds'[d].smooth = cmds[d].smooth
           /\ Active(d) => ~cmds'[d].alone
           /\ ~Active(d) => cmds'[d] = cmds[d]
           /\ cmds'[d].alone => cmds[d].alone
    BY <1>m, <1>s
  <1>5. cmds' \in [Cmds -> Command]
    BY <1>m, <1>n, <1>s DEF CliInv, Types
  <1>6. /\ cmds[c] = NewCommand /\ cmds[c].pc = "idle"
        /\ UNCHANGED <<families, stale, ended, file>>
    BY DEF Begin, At, CliInv, CourseInv
  <1> HIDE DEF n, m
  <1>7. \A t : /\ Issued(t)' <=> Issued(t)
               /\ Family(t)' = Family(t)
               /\ Good(t)' <=> Good(t)
    BY <1>6 DEF families, Issued, Family, Good, Usable
  <1>8. \A d \in Cmds : Landed(d) => d # c /\ Landed(d)'
    BY <1>4, <1>6 DEF Landed
  <1>9. Types'
    BY <1>5, <1>6 DEF CliInv, Types, families
  <1>10. ASSUME NEW d \in Cmds PROVE CourseInv(d)'
    <2>1. CASE d = c
      BY <1>2, <1>3, <2>1 DEF CourseInv, pc
    <2>2. CASE d # c
      BY <1>4, <2>2 DEF CliInv, CourseInv, Active
    <2> QED
      BY <2>1, <2>2
  <1>11. ASSUME NEW d \in Cmds PROVE TokenInv(d)'
    <2>1. CASE d = c
      BY <1>2, <1>3, <1>6, <1>7, <1>8, <2>1 DEF CliInv, Types, TokenInv, FileInv, families, pc
    <2>2. CASE d # c
      BY <1>4, <1>6, <1>7, <1>8, <2>2 DEF CliInv, Types, Command, TokenInv, families
    <2> QED
      BY <2>1, <2>2
  <1>12. FileInv'
    BY <1>6, <1>7, <1>8 DEF CliInv, Types, FileInv
  <1>13. SoloInv'
    BY <1>3, <1>4 DEF CliInv, SoloInv, Active
  <1>14. ASSUME NEW d \in Cmds PROVE LogoutInv(d)'
    <2>1. CASE d = c
      BY <1>2, <1>3, <2>1 DEF LogoutInv, pc
    <2>2. CASE d # c
      BY <1>4, <1>6, <1>7, <2>2 DEF CliInv, LogoutInv, families
    <2> QED
      BY <2>1, <2>2
  <1>15. ASSUME NEW d \in Cmds PROVE AloneInv(d)'
    <2>1. CASE d = c
      BY <1>2, <1>3, <1>6, <2>1 DEF AloneInv, pc
    <2>2. CASE d # c
      BY <1>4, <2>2 DEF AloneInv, Active
    <2> QED
      BY <2>1, <2>2
  <1>16. CalmInv'
    <2>1. Calm' => Calm
      BY <1>3, <1>4, <1>6 DEF Calm, NewCommand
    <2>2. ASSUME NEW d \in Cmds, Calm', cmds'[d].pc \notin {"refresh", "save", "logout", "clear"}
          PROVE  cmds[d].pc \notin {"refresh", "save", "logout", "clear"}
      BY <1>4, <1>6, <2>2
    <2> QED
      BY <1>6, <1>7, <2>1, <2>2 DEF CliInv, CalmInv
  <1> QED
    BY <1>9, <1>10, <1>11, <1>12, <1>13, <1>14, <1>15, <1>16 DEF CliInv

\* Time passes, or the server ends a family by itself.
LEMMA NatureInv ==
  ASSUME CliInv, Nature
  PROVE  CliInv'
  <1>1. UNCHANGED <<file, cmds>>
    BY DEF Nature
  <1>2. \/ UNCHANGED <<families, ended>>
        \/ \E f \in Cmds : Ended({f}) /\ ended' = ended \cup {f}
    BY DEF Nature, ExpireAccess, EndElsewhere
  <1>3. ASSUME NEW t \in Cmds
        PROVE  /\ Issued(t) => Issued(t)'
               /\ Family(t)' = Family(t)
               /\ Good(t) => Good(t)'
               /\ Landed(t) => Landed(t)'
    <2>1. Good(t) => Good(t)'
      BY <1>2, GoodKept DEF CliInv
    <2>2. CASE UNCHANGED families
      BY <1>1, <2>1, <2>2 DEF families, Issued, Family, Landed
    <2>3. ASSUME NEW f \in Cmds, Ended({f})
          PROVE  (Issued(t) => Issued(t)') /\ Family(t)' = Family(t)
      BY <2>3 DEF Ended, Issued, Family, CliInv, Types
    <2>4. Landed(t) => Landed(t)'
      BY <1>1 DEF Landed
    <2> QED
      BY <1>2, <2>1, <2>2, <2>3, <2>4
  <1>4. \A f \in Cmds : usable[f] = {} => usable'[f] = {} /\ spent'[f] = spent[f]
    BY <1>2 DEF families, Ended, CliInv, Types
  <1>5. Types'
    <2>1. stale' \subseteq Cmds /\ ended' \subseteq Cmds
      BY DEF Nature, ExpireAccess, EndElsewhere, CliInv, Types
    <2> QED
      BY <1>1, <1>2, <2>1 DEF families, Ended, Server!EndFamilies, CliInv, Types
  <1>6. ASSUME NEW c \in Cmds PROVE CourseInv(c)' /\ TokenInv(c)'
    BY <1>1, <1>3, <1>4 DEF CliInv, Types, Command, CourseInv, TokenInv
  <1>7. FileInv' /\ SoloInv'
    BY <1>1, <1>3 DEF CliInv, Types, FileInv, SoloInv, Active
  <1>8. ASSUME NEW c \in Cmds PROVE LogoutInv(c)' /\ AloneInv(c)'
    <2>1. cmds[c].loaded \in Cmds \cup {None}
      BY DEF CliInv, Types, Command
    <2> QED
      BY <1>1, <1>3, <1>4, <2>1 DEF CliInv, LogoutInv, AloneInv, Family
  <1>9. CalmInv'
    BY <1>1, <1>3 DEF CliInv, Types, CalmInv, Calm
  <1> QED
    BY <1>5, <1>6, <1>7, <1>8, <1>9 DEF CliInv

\* What a step of a command leaves of the commands themselves.
LEMMA GoesCourse ==
  ASSUME CliInv, NEW c \in Cmds, Goes(c)
  PROVE  CourseInv(c)'
  <1>1. cmds[c].pc # "idle" /\ CourseInv(c)
    BY DEF Goes, Active, CliInv
  <1>2. /\ cmds'[c].kind = cmds[c].kind
        /\ \/ Holds(c)
           \/ Stored(c)
    BY DEF Goes, Keeps, Signed, Renewed, Disturbed, Denied, Answered, Expired, Rejected,
           LoggedOut, Cleared
  <1> QED
    BY <1>1, <1>2
    DEF Goes, CourseInv, Signed, Renewed, Disturbed, Denied, Answered, Expired, Rejected,
        Stored, LoggedOut, Cleared, From, Holds

\* What is in the file, and what no later step can issue again.
LEMMA GoesLanded ==
  ASSUME CliInv, NEW c \in Cmds, Goes(c), NEW t \in Cmds, Landed(t)
  PROVE  /\ Landed(t)'
         /\ t # c \/ cmds[t].pc \notin {"login", "refresh"}
  <1>1. CASE t = c
    BY <1>1
    DEF Landed, Goes, Signed, Renewed, Disturbed, Denied, Answered, Expired, Rejected, Stored,
        LoggedOut, Cleared, From
  <1>2. CASE t # c
    BY <1>2 DEF Landed, Goes, Keeps
  <1> QED
    BY <1>1, <1>2

LEMMA GoesFile ==
  ASSUME CliInv, NEW c \in Cmds, Goes(c)
  PROVE  \/ file' = file
         \/ file' = None
         \/ /\ file' = c /\ cmds[c].pc = "save" /\ Issued(c)'
            /\ Landed(c)' /\ ~Landed(c)
  <1>1. CASE Stored(c)
    <2>1. Issued(c) /\ cmds[c].pc = "save"
      BY <1>1 DEF Stored, From, CliInv, TokenInv
    <2>2. Issued(c)'
      BY <1>1, <2>1 DEF Stored, families, Issued
    <2> QED
      BY <1>1, <2>1, <2>2 DEF Stored, From, Landed
  <1>2. CASE ~Stored(c)
    BY <1>2
    DEF Goes, Signed, Renewed, Disturbed, Denied, Answered, Expired, Rejected, LoggedOut,
        Cleared
  <1> QED
    BY <1>1, <1>2

LEMMA GoesToken ==
  ASSUME CliInv, NEW c \in Cmds, Goes(c), NEW d \in Cmds
  PROVE  TokenInv(d)'
  <1>1. Active(c) /\ Keeps(c) /\ TokenInv(c) /\ TokenInv(d) /\ Moves(c) /\ Types
    BY GoesMoves DEF Goes, CliInv
  <1>2. /\ cmds[d].session # None => cmds[d].session \in Cmds
        /\ cmds[d].loaded # None => cmds[d].loaded \in Cmds
    BY <1>1 DEF Types, Command
  <1>3. ASSUME NEW t \in Cmds PROVE (Issued(t) => Issued(t)') /\ (Landed(t) => Landed(t)')
    BY <1>1, <1>3, TokensKept, GoesLanded
  <1>4. CASE d # c
    <2>1. cmds'[d] = cmds[d]
      BY <1>1, <1>4 DEF Keeps
    <2>2. cmds[d].loaded # None => Landed(cmds[d].loaded)'
      BY <1>1, <1>2, <1>3, <2>1 DEF TokenInv, Landed
    <2>3. cmds[d].session # None => Issued(cmds[d].session)'
      BY <1>1, <1>2, <1>3, <2>1 DEF TokenInv, Issued
    <2>4. cmds[d].pc = "save" => Issued(d)'
      BY <1>1, <1>3 DEF TokenInv
    <2>5. cmds[d].pc \in {"idle", "login"} => usable'[d] = {} /\ spent'[d] = {}
      BY <1>1, <1>4, EmptyKept DEF TokenInv
    <2> QED
      BY <1>1, <2>1, <2>2, <2>3, <2>4, <2>5 DEF TokenInv
  <1>5. CASE d = c
    <2>1. cmds'[c].loaded = cmds[c].loaded
      BY <1>1 DEF Keeps
    <2>2. cmds[c].loaded # None => Landed(cmds[c].loaded)'
      BY <1>1, <1>2, <1>3, <1>5, <2>1 DEF TokenInv, Landed
    <2>3. Holds(c) /\ cmds[c].session # None => Issued(cmds[c].session)'
      BY <1>1, <1>2, <1>3, <1>5 DEF TokenInv, Issued, Holds
    <2>4. cmds'[c].pc \notin {"idle", "login"}
      BY DEF Goes, Signed, Renewed, Disturbed, Denied, Answered, Expired, Rejected, Stored,
             LoggedOut, Cleared, From
    <2>5. cmds'[c].pc = "save" => Issued(c)'
      <3>1. cmds'[c].pc = "save" => Signs(c) \/ Renews(c)
        BY DEF Goes, Signed, Renewed, Disturbed, Denied, Answered, Expired, Rejected, Stored,
               LoggedOut, Cleared, From
      <3> QED
        BY <1>1, <3>1, NewIsGood
    <2>6. CASE Holds(c)
      BY <1>1, <2>1, <2>2, <2>3, <2>4, <2>5, <2>6, <1>5 DEF Holds, TokenInv
    <2>7. CASE Stored(c)
      <3>1. Issued(c)'
        BY <1>1, <1>3, <2>7 DEF Stored, From, TokenInv
      <3>2. cmds'[c].session = c /\ cmds'[c].retry /\ cmds'[c].pc # "save"
        BY <2>7 DEF Stored, From
      <3> QED
        BY <2>1, <2>2, <2>4, <3>1, <3>2, <1>5 DEF TokenInv, Issued
    <2> QED
      BY <2>6, <2>7
      DEF Goes, Signed, Renewed, Disturbed, Denied, Answered, Expired, Rejected, LoggedOut,
          Cleared
  <1> QED
    BY <1>4, <1>5

\* A logout leaves nothing behind: what it found does not come back.
LEMMA GoesLogout ==
  ASSUME CliInv, NEW c \in Cmds, Goes(c), NEW d \in Cmds
  PROVE  LogoutInv(d)'
  <1> DEFINE t == cmds[d].loaded
  <1>1. /\ Keeps(c) /\ Moves(c) /\ Types /\ TokenInv(c) /\ TokenInv(d)
        /\ CourseInv(c) /\ LogoutInv(d)
    BY GoesMoves DEF Goes, CliInv
  <1>2. /\ cmds'[d].loaded = t /\ cmds'[d].kind = cmds[d].kind /\ cmds'[d].alone = cmds[d].alone
        /\ t # None => t \in Cmds /\ Landed(t)
    BY <1>1 DEF Keeps, Types, Command, TokenInv
  <1>3. t # None => /\ Family(t)' = Family(t)
                    /\ \A f \in Family(t) : usable[f] = {} => usable'[f] = {}
    BY <1>1, <1>2, GoesLanded, TokensKept DEF Family
  <1>4. t # None /\ file # t => file' # t
    BY <1>2, GoesFile
  <1>5. CASE d # c
    <2>1. cmds'[d] = cmds[d]
      BY <1>1, <1>5 DEF Keeps
    <2> QED
      BY <1>1, <1>3, <1>4, <2>1 DEF LogoutInv, Family
  <1>6. CASE d = c /\ LoggedOut(c)
    <2>1. CASE t = None \/ ~cmds[c].alone \/ cmds'[c].result # "none"
      BY <1>2, <1>6, <2>1 DEF LogoutInv, LoggedOut, From
    <2>2. CASE t # None /\ cmds[c].alone /\ cmds'[c].result = "none"
      <3>1. Token(c) = t /\ EndFamily(c)
        BY <1>1, <1>6, <2>2 DEF LoggedOut, From, CourseInv, TokenInv, Token
      <3>2. Ended(Family(t))
        BY <2>2, <3>1 DEF EndFamily
      <3>3. \A f \in Family(t) : usable'[f] = {}
        BY <3>2 DEF Ended, Family
      <3>4. cmds'[c].pc = "clear"
        BY <1>6 DEF LoggedOut, From
      <3> QED
        BY <1>2, <1>3, <1>6, <2>2, <3>3, <3>4 DEF LogoutInv, Family
    <2> QED
      BY <2>1, <2>2
  <1>7. CASE d = c /\ Cleared(c)
    <2>1. file' = None /\ UNCHANGED families
      BY <1>7 DEF Cleared
    <2>2. cmds'[c].result = "ok" => cmds[c].result = "none" /\ cmds[c].pc = "clear"
      BY <1>7 DEF Cleared, From
    <2>3. cmds'[c].pc = "done"
      BY <1>7 DEF Cleared, From
    <2> QED
      BY <1>1, <1>2, <1>3, <1>7, <2>1, <2>2, <2>3 DEF LogoutInv, Family
  <1>8. CASE /\ d = c
             /\ Signed(c) \/ Renewed(c) \/ Disturbed(c) \/ Denied(c) \/ Answered(c)
                \/ Expired(c) \/ Rejected(c) \/ Stored(c)
    <2>1. \/ cmds'[c].kind # "logout"
          \/ cmds'[c].pc = "done" /\ cmds'[c].result = "error"
      BY <1>1, <1>2, <1>8
      DEF CourseInv, Signed, Renewed, Disturbed, Denied, Answered, Expired, Rejected, Stored,
          From
    <2> QED
      BY <1>8, <2>1 DEF LogoutInv
  <1> QED
    BY <1>5, <1>6, <1>7, <1>8 DEF Goes

\* A command that is alone holds what the file holds.
LEMMA GoesAlone ==
  ASSUME CliInv, NEW c \in Cmds, Goes(c), NEW d \in Cmds
  PROVE  AloneInv(d)'
  <1>1. /\ Active(c) /\ Keeps(c) /\ Types /\ AloneInv(c) /\ CourseInv(c) /\ UNCHANGED ended
    BY DEF Goes, CliInv
  <1>2. CASE d # c
    <2>1. cmds'[d] = cmds[d]
      BY <1>1, <1>2 DEF Keeps
    <2>2. Active(d) => ~cmds[d].alone
      BY <1>1, <1>2 DEF CliInv, SoloInv
    <2> QED
      BY <2>1, <2>2 DEF AloneInv, Active
  <1>3. CASE d = c /\ (Signed(c) \/ Renewed(c))
    <2>1. cmds'[c].pc = "save" /\ Good(c)'
      BY <1>1, <1>3, NewIsGood DEF Signed, Renewed, From
    <2> QED
      BY <1>3, <2>1 DEF AloneInv
  <1>4. CASE d = c /\ Stored(c)
    <2>1. /\ cmds[c].alone => Good(c)
          /\ cmds'[c].alone = cmds[c].alone
          /\ cmds'[c].pc \in {"call", "done"}
          /\ file' = c /\ cmds'[c].session = c /\ UNCHANGED families
      BY <1>1, <1>4 DEF Stored, From, AloneInv, Keeps
    <2>2. Good(c) => Good(c)'
      BY <1>1, <2>1, GoodKept
    <2> QED
      BY <1>4, <2>1, <2>2 DEF AloneInv
  <1>5. CASE d = c /\ Expired(c)
    BY <1>1, <1>5 DEF Expired, From, AloneInv, Keeps, Holds
  <1>6. CASE /\ d = c
             /\ Disturbed(c) \/ Denied(c) \/ Answered(c) \/ Rejected(c) \/ LoggedOut(c)
                \/ Cleared(c)
    BY <1>6 DEF Disturbed, Denied, Answered, Rejected, LoggedOut, Cleared, From, AloneInv
  <1> QED
    BY <1>2, <1>3, <1>4, <1>5, <1>6 DEF Goes

\* While nothing has overlapped or gone wrong, the file stays usable.
LEMMA GoesCalm ==
  ASSUME CliInv, NEW c \in Cmds, Goes(c)
  PROVE  CalmInv'
  <1>1. /\ Active(c) /\ Keeps(c) /\ Types /\ AloneInv(c) /\ TokenInv(c) /\ UNCHANGED ended
    BY DEF Goes, CliInv
  <1>2. Calm' => Calm
    BY <1>1 DEF Calm, Keeps
  <1>3. \A d \in Cmds : Calm /\ d # c => ~Active(d)
    BY <1>1 DEF Calm, CliInv, SoloInv
  <1> DEFINE Restless == {"refresh", "save", "logout", "clear"}
  <1>4. file # None => file \in Cmds
    BY <1>1 DEF Types
  <1>5. Calm /\ file # None /\ cmds[c].pc \notin Restless => Good(file)
    BY <1>3 DEF CliInv, CalmInv, Active
  <1>6. CASE Denied(c) \/ Answered(c)
    <2>1. cmds[c].pc \notin Restless /\ UNCHANGED <<families, file>>
      BY <1>6 DEF Denied, Answered, From
    <2>2. file # None /\ Good(file) => Good(file)'
      BY <1>1, <1>4, <2>1, GoodKept DEF Good, Usable, Family, families
    <2> QED
      BY <1>2, <1>5, <2>1, <2>2 DEF CalmInv
  <1>7. CASE Stored(c)
    <2>1. file' = c /\ UNCHANGED families /\ cmds[c].pc = "save"
      BY <1>7 DEF Stored, From
    <2>2. Calm => Good(c)'
      BY <1>1, <2>1, GoodKept DEF Calm, AloneInv
    <2> QED
      BY <1>2, <2>1, <2>2 DEF CalmInv, Good, Usable, Family
  <1>8. CASE Cleared(c)
    BY <1>8 DEF Cleared, CalmInv
  <1>9. CASE Disturbed(c)
    BY <1>9 DEF Disturbed, CalmInv, Calm
  <1>10. CASE Signed(c) \/ Renewed(c) \/ Expired(c) \/ Rejected(c) \/ LoggedOut(c)
    BY <1>10 DEF Signed, Renewed, Expired, Rejected, LoggedOut, From, CalmInv
  <1> QED
    BY <1>6, <1>7, <1>8, <1>9, <1>10 DEF Goes

LEMMA GoesInv ==
  ASSUME CliInv, NEW c \in Cmds, Goes(c)
  PROVE  CliInv'
  <1>1. Active(c) /\ Keeps(c) /\ Types /\ Moves(c) /\ TokenInv(c) /\ UNCHANGED <<stale, ended>>
    BY GoesMoves DEF Goes, CliInv
  <1>2. file' \in Cmds \cup {None}
    BY <1>1, GoesFile DEF Types
  <1>3. Types'
    BY <1>1, <1>2, TypesMoved DEF Types, Keeps
  <1>4. ASSUME NEW d \in Cmds PROVE CourseInv(d)'
    <2>1. CASE d # c
      BY <1>1, <2>1 DEF Keeps, CliInv, CourseInv
    <2> QED
      BY <2>1, GoesCourse
  <1>5. FileInv'
    <2>1. CASE file' = file /\ file # None
      <3>1. file \in Cmds /\ Landed(file) /\ Issued(file)
        BY <1>1, <2>1 DEF Types, CliInv, FileInv
      <3> DEFINE t == file
      <3> HIDE DEF t
      <3>2. t \in Cmds /\ Landed(t) /\ Issued(t)
        BY <3>1 DEF t
      <3>3. \A u \in Cmds : u = t => Landed(u)' /\ Issued(u)'
        BY <1>1, <3>2, GoesLanded, TokensKept
      <3> QED
        BY <2>1, <3>1, <3>3 DEF t, FileInv, Landed, Issued
    <2> QED
      BY <2>1, GoesFile DEF FileInv, Landed, Issued
  <1>6. SoloInv'
    BY <1>1 DEF Keeps, CliInv, SoloInv, Active
  <1> QED
    BY <1>3, <1>4, <1>5, <1>6, GoesToken, GoesLogout, GoesAlone, GoesCalm DEF CliInv

LEMMA CliStep ==
  ASSUME CliInv, CliNext
  PROVE  \/ \E c \in Cmds : Begin(c) \/ Goes(c)
         \/ Nature
  <1>1. ASSUME NEW c \in Cmds, Proceed(c) \/ Interrupt(c) PROVE Goes(c)
    BY <1>1, ProceedGoes DEF CliInv
  <1>2. ASSUME NEW t \in Cmds, ExpireAccess(t) \/ EndElsewhere(t) PROVE Nature
    BY <1>2 DEF Nature, ExpireAccess, EndElsewhere
  <1> QED
    BY <1>1, <1>2 DEF CliNext

LEMMA CliInvStep == CliInv /\ [CliNext]_cliVars => CliInv'
  <1> SUFFICES ASSUME CliInv, [CliNext]_cliVars PROVE CliInv'
    OBVIOUS
  <1>1. CASE UNCHANGED cliVars
    BY <1>1
    DEF cliVars, families, CliInv, Types, CourseInv, TokenInv, FileInv, SoloInv, LogoutInv,
        AloneInv, CalmInv, Calm, Active, Landed, Issued, Good, Usable, Family
  <1> QED
    BY <1>1, CliStep, BeginInv, GoesInv, NatureInv

LEMMA CliInvHolds == CliSpec => []CliInv
  BY CliInvInit, CliInvStep, PTL DEF CliSpec

-----------------------------------------------------------------------------
(* The theorems.                                                            *)

\* Types; and a client holds no token that no server issued.
THEOREM CliTypesHold == CliSpec => []CliTypeOK
  <1>1. CliInv => CliTypeOK
    <2> SUFFICES ASSUME CliInv PROVE CliTypeOK
      OBVIOUS
    <2>1. ASSUME NEW t \in {file} \cup {cmds[c].session : c \in Cmds}, t # None
          PROVE  Family(t) # {}
      BY <2>1 DEF CliInv, FileInv, TokenInv, Issued, Family
    <2> QED
      BY <2>1 DEF CliTypeOK, CliInv, Types
  <1> QED
    BY <1>1, CliInvHolds, PTL

\* A logout that reports success and met no other command has ended the family
\* it found for good, and the file never holds that token again (logout,
\* _clear_session), however many commands follow.
THEOREM LogoutStaysFinal == CliSpec => []LogoutIsFinal
  <1>1. CliInv => LogoutIsFinal
    <2> SUFFICES ASSUME CliInv, NEW c \in Cmds,
                        cmds[c].kind = "logout", cmds[c].result = "ok",
                        cmds[c].alone, cmds[c].loaded # None
                 PROVE  /\ \A f \in Family(cmds[c].loaded) : usable[f] = {}
                        /\ file # cmds[c].loaded
      BY DEF LogoutIsFinal
    <2>1. cmds[c].pc = "done"
      <3>1. cmds[c].pc \in {"logout", "clear", "done"} /\ cmds[c].pc # "logout"
        BY DEF CliInv, CourseInv, NewCommand
      <3>2. cmds[c].pc # "clear"
        BY DEF CliInv, CourseInv
      <3> QED
        BY <3>1, <3>2
    <2> QED
      BY <2>1 DEF CliInv, LogoutInv
  <1> QED
    BY <1>1, CliInvHolds, PTL

\* While no two commands overlap and nothing goes wrong, the session file holds
\* the token its family may use next (refresh_session, _store_authentication).
THEOREM CalmSessionUsable == CliSpec => []SavedSessionUsable
  <1>1. CliInv => SavedSessionUsable
    BY DEF CliInv, CalmInv, Calm, SavedSessionUsable, Good, Active
  <1> QED
    BY <1>1, CliInvHolds, PTL

\* A command that runs alone and undisturbed leaves no session behind that
\* neither works nor can be renewed (_request_json, refresh_session).
THEOREM DeadSessionsGo == CliSpec => DeadSessionGoes
  <1> DEFINE Dead == \A c \in Cmds :
          /\ cmds[c].kind = "job" /\ Active(c) /\ At(c, "done")'
          /\ cmds'[c].alone /\ cmds'[c].smooth
          => \/ file' = None \/ file' \notin stale'
             \/ Usable(file)' \/ Family(file)' \cap ended' # {}
  <1>1. CliInv /\ [CliNext]_cliVars => [Dead]_cliVars
    <2> SUFFICES ASSUME CliInv, CliNext, NEW c \in Cmds,
                        cmds[c].kind = "job", Active(c), cmds'[c].pc = "done",
                        cmds'[c].alone, cmds'[c].smooth
                 PROVE  \/ file' = None \/ file' \notin stale'
                        \/ Good(file)'
      BY DEF At, Good
    <2>1. Goes(c)
      <3>1. ASSUME NEW d \in Cmds, Begin(d) PROVE FALSE
        <4>1. cmds'[c] = [cmds[c] EXCEPT !.alone = FALSE]
          BY <3>1 DEF Begin, At, Active
        <4>2. cmds[c] \in Command
          BY DEF CliInv, Types
        <4> QED
          BY <4>1, <4>2 DEF Command
      <3>2. ASSUME NEW d \in Cmds, Goes(d), d # c PROVE FALSE
        BY <3>2 DEF Goes, Keeps, Active
      <3>3. ~Nature
        BY DEF Nature, Active
      <3> QED
        BY <3>1, <3>2, <3>3, CliStep
    <2>2. Types /\ AloneInv(c) /\ CourseInv(c) /\ TokenInv(c) /\ Keeps(c) /\ cmds[c].alone
      BY <2>1 DEF CliInv, Goes, Keeps
    <2>3. CASE Answered(c)
      <3>1. file = cmds[c].session /\ UNCHANGED <<file, stale, families, ended>>
        BY <2>1, <2>2, <2>3 DEF Goes, Answered, From, AloneInv
      <3>2. CASE cmds[c].retry
        <4>1. cmds[c].session = c /\ Good(c)
          BY <2>2, <2>3, <3>2 DEF Answered, From, AloneInv, TokenInv
        <4> QED
          BY <3>1, <4>1 DEF families, Good, Usable, Family
      <3> QED
        BY <2>3, <3>1, <3>2 DEF Answered, Token
    <2>4. CASE Cleared(c)
      BY <2>4 DEF Cleared
    <2>5. Answered(c) \/ Cleared(c)
      BY <2>1, <2>2
      DEF Goes, Signed, Renewed, Disturbed, Denied, Expired, Rejected, Stored, LoggedOut, From,
          CourseInv
    <2> QED
      BY <2>3, <2>4, <2>5
  <1> QED
    BY <1>1, CliInvHolds, PTL DEF CliSpec, DeadSessionGoes
=============================================================================
