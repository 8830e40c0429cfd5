----------------------------- MODULE TokenFamilies -----------------------------
(***************************************************************************)
(* What refresh tokens promise (auth/README.md, "Refresh Token"): a sign-in *)
(* starts a family of tokens of one account, in which one token at most is  *)
(* usable; using it makes the next one, which no other family holds, and a  *)
(* family that was ended is not revived.                                    *)
(***************************************************************************)
CONSTANTS Families, Tokens, Holders, Nobody

VARIABLES
    holder,  \* the account a family belongs to
    usable,  \* the tokens of a family that may still be used
    spent    \* the tokens of a family that may not be used again

famVars == <<holder, usable, spent>>

NewToken(t) == \A f \in Families : t \notin usable[f] \cup spent[f]

Init == /\ holder = [f \in Families |-> Nobody]
        /\ usable = [f \in Families |-> {}]
        /\ spent = [f \in Families |-> {}]

SignIn(f, t, who) ==
    /\ holder[f] = Nobody
    /\ holder' = [holder EXCEPT ![f] = who]
    /\ NewToken(t)
    /\ usable' = [usable EXCEPT ![f] = {t}]
    /\ UNCHANGED spent

Renew(f, t, new) ==
    /\ usable[f] = {t}
    /\ usable' = [usable EXCEPT ![f] = {new}]
    /\ NewToken(new)
    /\ spent' = [spent EXCEPT ![f] = @ \cup {t}]
    /\ UNCHANGED holder

\* Families end by reuse, logout, reset, expiry: several at once, or none.
End(f) ==
    /\ usable'[f] = {}
    /\ spent'[f] = spent[f] \cup usable[f]

EndFamilies ==
    /\ UNCHANGED holder
    /\ \A f \in Families :
          End(f) \/ (usable'[f] = usable[f] /\ spent'[f] = spent[f])

Next == \/ EndFamilies
        \/ \E f \in Families, t \in Tokens :
              \/ \E who \in Holders : SignIn(f, t, who)
              \/ \E new \in Tokens : Renew(f, t, new)

Spec == Init /\ [][Next]_famVars
=============================================================================
