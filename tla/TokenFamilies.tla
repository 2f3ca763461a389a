---------------------------- MODULE TokenFamilies ----------------------------
(***************************************************************************)
(* What the refresh-session store promises, free of rows, locks and        *)
(* transactions: a token is issued under a grant (a user, a family and an  *)
(* absolute expiry), is live until it is exchanged or its family is        *)
(* closed, is exchanged at most once, for a token under the same grant,    *)
(* and a family without a live token never gets one again.                 *)
(***************************************************************************)
CONSTANTS
    Token,     \* refresh tokens
    User,      \* those they authenticate
    Deadline,  \* the moments a family may expire at
    None       \* no grant, no successor

VARIABLES
    grant,     \* what a token was issued under, or None
    live,      \* the tokens that can still be exchanged
    succ       \* what a token was exchanged for, or None

vars == <<grant, live, succ>>

Init ==
    /\ grant = [t \in Token |-> None]
    /\ live = {}
    /\ succ = [t \in Token |-> None]

\* A login opens a family, named by its first token.
Issue(t, u, d) ==
    /\ grant[t] = None
    /\ grant' = [grant EXCEPT ![t] = [user |-> u, family |-> t, expires_at |-> d]]
    /\ live' = live \cup {t}
    /\ UNCHANGED succ

\* A refresh consumes s and puts t in its place.
Exchange(s, t) ==
    /\ s \in live
    /\ grant[t] = None
    /\ grant' = [grant EXCEPT ![t] = grant[s]]
    /\ live' = (live \ {s}) \cup {t}
    /\ succ' = [succ EXCEPT ![s] = t]

Members(f) == {t \in Token : grant[t] # None /\ grant[t].family = f}

\* A logout, or the reuse of a consumed token, ends a family.
Close(f) ==
    /\ live' = live \ Members(f)
    /\ UNCHANGED <<grant, succ>>

Next ==
    \/ \E t \in Token, u \in User, d \in Deadline : Issue(t, u, d)
    \/ \E s, t \in Token : Exchange(s, t)
    \/ \E f \in Token : Close(f)

Spec == Init /\ [][Next]_vars

=============================================================================
