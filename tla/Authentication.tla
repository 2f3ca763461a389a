---------------------------- MODULE Authentication ----------------------------
(***************************************************************************)
(* Password login, refresh and logout together: RefreshSessions, where a   *)
(* login begins with the user whose password has been verified, composed   *)
(* with PasswordLogin, which ends with the answer, over one clock and one  *)
(* user status.                                                            *)
(*                                                                         *)
(* A login is one request with one transaction in both: it runs alone in   *)
(* PasswordLogin until the password is accepted, and from there on the two *)
(* take their steps together, up to the commit or the fault that ends them.*)
(***************************************************************************)
EXTENDS RefreshSessions

CONSTANTS
    Account,     \* the user whose credential the logins present
    Admin        \* the transactions that may revoke this credential

ASSUME AccountAssumption == Account \in User

VARIABLES
    row, row_owner, row_staged, login_pc, attempt, is_active, credential,
    model, work, reply, loaded, revoked,      \* those of PasswordLogin
    shut             \* requests whose user has not been active since they began

password == <<row, row_owner, row_staged, login_pc, attempt, is_active,
              credential, model, work, reply, loaded, revoked>>
allvars == <<vars, password, shut>>

PL == INSTANCE PasswordLogin WITH
    active <- Account \in active,
    owner <- row_owner,
    staged <- row_staged,
    pc <- login_pc,
    Admin <- Admin,
    MayDeactivate <- TRUE,
    MayFail <- TRUE

ASSUME DataAssumption == Null \notin BOOLEAN /\ Null \notin PL!Credential

Busy(p) == pc[p] # "idle" \/ login_pc[p] # "idle"

AuthInit == Init /\ PL!Init /\ shut = {}

-----------------------------------------------------------------------------
BeginLogin(p, a) ==
    /\ pc[p] = "idle"
    /\ UNCHANGED vars
    /\ PL!Begin(p, a)

\* What a login does up to the point where its password is accepted or refused.
PasswordStep(p) ==
    /\ pc[p] = "idle"
    /\ login_pc[p] # "issue"
    /\ UNCHANGED vars
    /\ PL!Run(p)

\* The UPDATE of the rehash waits for the credential.
RehashStep(p) == UNCHANGED vars /\ PL!Flush(p)

\* The password is accepted: a session is opened for the user.
OpenSession(p, s) ==
    /\ login_pc[p] = "issue"
    /\ Login(p, Account, s)
    /\ UNCHANGED password

\* The bound of RefreshSessions: every identifier has been used.
NoSessionLeft(p) ==
    /\ login_pc[p] = "issue"
    /\ pc[p] = "idle"
    /\ \A s \in Session : ~Fresh(s)
    /\ UNCHANGED vars
    /\ PL!Raise(p)

\* The pair of tokens is the answer to the login.
AnswerLogin(p) ==
    /\ login_pc[p] = "issue"
    /\ IssueTokens(p)
    /\ PL!IssueTokens(p)

\* One transaction holds the new hash, if any, and the session.
CommitLogin(p) ==
    /\ pc[p] = "replied"
    /\ login_pc[p] = "replied"
    /\ Commit(p)
    /\ PL!Commit(p)

-----------------------------------------------------------------------------
BeginOther(p, o, t) ==
    /\ login_pc[p] = "idle"
    /\ Begin(p, o, t)
    /\ UNCHANGED password

OtherStep(p) ==
    /\ login_pc[p] = "idle"
    /\ Run(p) \/ Lock(p)
    /\ UNCHANGED password

\* A crash takes both halves of a login with it.
Crash(p) ==
    /\ MayFail
    /\ Busy(p)
    /\ IF pc[p] # "idle" THEN Abort(p) ELSE UNCHANGED vars
    /\ IF login_pc[p] # "idle" THEN PL!Raise(p) ELSE UNCHANGED password

\* Meanwhile the credential may be revoked, by who else writes in PasswordLogin.
Revocation(a) ==
    /\ UNCHANGED vars
    /\ PL!LoadToRevoke(a) \/ PL!CommitRevocation(a)

-----------------------------------------------------------------------------
Steps ==
    \/ \E p \in Request :
         \/ \E a \in PL!Attempt : BeginLogin(p, a)
         \/ PasswordStep(p) \/ RehashStep(p)
         \/ \E s \in Session : OpenSession(p, s)
         \/ NoSessionLeft(p) \/ AnswerLogin(p) \/ CommitLogin(p)
         \/ \E o \in {"refresh", "logout"}, t \in delivered \cup {Null} : BeginOther(p, o, t)
         \/ OtherStep(p)
         \/ Crash(p)
    \/ \E a \in Admin : Revocation(a)
    \/ Environment /\ UNCHANGED password

\* shut is a history variable: no step looks at it.
AuthNext ==
    /\ Steps
    /\ shut' = {p \in Request : Account \notin active' /\ (Busy(p) => p \in shut)}

AuthSpec == AuthInit /\ [][AuthNext]_allvars

-----------------------------------------------------------------------------
(* Properties.                                                             *)

\* Deactivation is effective at once for what begins after it: a login or a
\* refresh during which the user was never active is not given any token,
\* though both load the user long before they answer.
DeactivationIsEffective ==
    [][\A p \in Request : pc[p] = "issue" /\ pc'[p] = "replied" => p \notin shut]_allvars

\* Every family of tokens goes back to a login that presented the right
\* password, for a user and a credential that were active when it loaded them.
SessionsAreAuthenticated ==
    [][\A s \in Session : ~Exists(s) /\ Exists(s)' /\ auth_sessions'[s].family = s =>
          \E p \in Request : /\ repl[p] = s
                             /\ attempt[p] = "right"
                             /\ is_active[p] = TRUE
                             /\ credential[p].active]_allvars

\* p queues behind q for a row of sessions, or for the row of the credential,
\* which a login that stores a new hash keeps locked while it opens its session.
Queues(p, q) ==
    \/ WaitsFor(p, q)
    \/ p # q /\ login_pc[p] = "flush" /\ row_owner = q

\* The two kinds of locks together do not make a circle either: whoever holds
\* the credential waits for nothing, and whoever waits for a row of sessions
\* is not a login.
NoCircle ==
    ~ \E S \in SUBSET Request :
        S # {} /\ \A p \in S : \E q \in S : Queues(p, q)

-----------------------------------------------------------------------------
(* The inductive invariant, next to those of the two modules.              *)

\* The login has passed: it has presented the password, and what it loaded was active.
Passed(p) ==
    /\ attempt[p] = "right"
    /\ is_active[p] = TRUE
    /\ credential[p].active

PasswordState(p) ==
    /\ login_pc[p] \in {"idle", "load_user"} => is_active[p] = Null
    /\ login_pc[p] \in {"rehash", "read_again", "flush", "issue"} => Passed(p)

\* A session is opened for the Account, by a login that has passed.
SessionState(p) ==
    pc[p] # "idle" /\ op[p] = "login" =>
        /\ login_pc[p] \in {"issue", "replied"}
        /\ Passed(p)
        /\ repl[p] \in Session
        /\ staged[p][repl[p]].user = Account

\* A request during which the Account was never active has not got far.
ShutState(p) ==
    p \in shut =>
        /\ Account \notin active
        /\ is_active[p] # TRUE
        /\ pc[p] \notin {"save_replacement", "save_rotated", "issue"}

AInv ==
    /\ \A p \in Request : PasswordState(p) /\ SessionState(p) /\ ShutState(p)
    /\ \A s \in Session : Exists(s) => auth_sessions[s].user = Account

\* For NoCircle: a login does nothing in RefreshSessions but open its session.
HandlersApart ==
    \A p \in Request : pc[p] \notin {"idle", "issue", "replied"} => login_pc[p] = "idle"

=============================================================================
