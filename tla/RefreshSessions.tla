--------------------------- MODULE RefreshSessions ---------------------------
(***************************************************************************)
(* Refresh-token rotation, login and logout of the Vectro authentication   *)
(* backend, as concurrent requests over the PostgreSQL table auth_sessions.*)
(*                                                                         *)
(* A request is one FastAPI handler with its own AsyncSession, i.e. one    *)
(* READ COMMITTED transaction: its writes are staged until Commit, rows it *)
(* found with SELECT ... FOR UPDATE or wrote stay locked until it ends.    *)
(* A session identifier stands for the row id, the token and its hash, all *)
(* generated together and never twice; a family is named by its first row. *)
(***************************************************************************)
EXTENDS Naturals

CONSTANTS
    Request,          \* the request handlers that may run at the same time
    Session,          \* identifiers of refresh sessions
    User,             \* registered users
    Null,             \* None in Python, NULL in the database
    TTL,              \* REFRESH_SESSION_TTL_SECONDS, in clock ticks
    MaxClock,         \* bound on the clock
    ClockStepsBack,   \* may the wall clock be set back?
    MayFail           \* may a request crash, or lose its connection?

ASSUME TTLAssumption == TTL \in Nat \ {0}
ASSUME ClockAssumption == MaxClock \in Nat /\ ClockStepsBack \in BOOLEAN
ASSUME FailAssumption == MayFail \in BOOLEAN
ASSUME NullAssumption == Null \notin Session \cup Request \cup Nat

VARIABLES
    auth_sessions,    \* the committed rows: Session -> Row or Null
    owner,            \* the request that holds the lock of a row, or Null
    staged,           \* the rows a request wrote and has not committed
    pc,               \* where a request stands
    op,               \* what a request does: "login", "refresh", "logout"
    token,            \* the refresh token it was sent (Null: an unknown one)
    entity,           \* the RefreshSession it loaded and locked, or Null
    now,              \* what it read from its Clock
    repl,             \* the session it generated
    matched,          \* the rows the snapshot of its UPDATE selected
    todo,             \* those of them the UPDATE has not reached yet
    clock,            \* the wall clock
    delivered,        \* the tokens sent to clients in a 200 answer
    active            \* the users whose status is ACTIVE

store == <<auth_sessions, owner, staged>>
local == <<op, token, entity, now, repl, matched, todo>>
world == <<clock, delivered, active>>
vars  == <<auth_sessions, owner, staged, pc, op, token, entity, now, repl,
           matched, todo, clock, delivered, active>>

-----------------------------------------------------------------------------
(* The rows and the RefreshSession entity.                                 *)

Row == [user         : User,
        family       : Session,
        created_at   : Nat,
        expires_at   : Nat,
        last_used_at : Nat \cup {Null},
        revoked_at   : Nat \cup {Null},
        replaced_by  : Session \cup {Null}]

\* What a token is issued under: see TokenFamilies, at the end of this module.
Grant == [user : User, family : Session, expires_at : Nat]

ASSUME RowAssumption == Null \notin Row /\ Null \notin Grant

NewRow(u, f, at, expiry) ==
    [user |-> u, family |-> f, created_at |-> at, expires_at |-> expiry,
     last_used_at |-> Null, revoked_at |-> Null, replaced_by |-> Null]

\* What the constructor accepts; to_domain raises on any other row.
Loads(s, row) ==
    /\ row.expires_at > row.created_at
    /\ row.last_used_at # Null => row.last_used_at >= row.created_at
    /\ row.revoked_at # Null => row.revoked_at >= row.created_at
    /\ row.replaced_by # Null => row.revoked_at # Null /\ row.replaced_by # s

\* Variant: a session is good for one tick more.
is_expired_After(row, at) == at > row.expires_at

is_expired(row, at) == at >= row.expires_at
is_rotated(row) == row.replaced_by # Null
is_revoked(row) == row.revoked_at # Null

\* The guard of _end: the lifecycle of an entity cannot move backward.
CanEnd(row, at) ==
    /\ at >= row.created_at
    /\ row.last_used_at # Null => at >= row.last_used_at

\* Variant: a revoked row that was not rotated is still accepted.
Acceptable_Revoked(row, at) == ~is_expired(row, at) /\ ~is_rotated(row)

\* The only condition under which a refresh goes on to rotate.
Acceptable(row, at) == ~is_expired(row, at) /\ ~is_rotated(row) /\ ~is_revoked(row)

\* Variant: every rotation gives the family a new lifetime.
ReplacementRow_Extended(old, at) == NewRow(old.user, old.family, at, at + TTL)

\* The replacement starts now and keeps the user, the family and the expiry.
ReplacementRow(old, at) == NewRow(old.user, old.family, at, old.expires_at)

\* Variant: the replaced row is linked and not ended.
rotate_LinkOnly(row, r, at) == [row EXCEPT !.last_used_at = at, !.replaced_by = r]

rotate(row, r, at) ==
    [row EXCEPT !.last_used_at = at, !.revoked_at = at, !.replaced_by = r]

\* What revoke_family writes: the one column of its UPDATE.
revoke(row, at) == [row EXCEPT !.revoked_at = at]

Exists(s) == auth_sessions[s] # Null
Active(s) == Exists(s) /\ ~is_revoked(auth_sessions[s])

\* Nobody has seen s: a fresh uuid4 and a fresh token_urlsafe.
Fresh(s) == ~Exists(s) /\ owner[s] = Null /\ s \notin delivered

-----------------------------------------------------------------------------
NothingStaged == [s \in Session |-> Null]

Init ==
    /\ auth_sessions = [s \in Session |-> Null]
    /\ owner = [s \in Session |-> Null]
    /\ staged = [p \in Request |-> NothingStaged]
    /\ pc = [p \in Request |-> "idle"]
    /\ op = [p \in Request |-> Null]
    /\ token = [p \in Request |-> Null]
    /\ entity = [p \in Request |-> Null]
    /\ now = [p \in Request |-> Null]
    /\ repl = [p \in Request |-> Null]
    /\ matched = [p \in Request |-> {}]
    /\ todo = [p \in Request |-> {}]
    /\ clock = 0
    /\ delivered = {}
    /\ active = User

Step(p, from, to) == pc[p] = from /\ pc' = [pc EXCEPT ![p] = to]

Write(p, s, row) ==
    /\ staged' = [staged EXCEPT ![p][s] = row]
    /\ owner' = [owner EXCEPT ![s] = p]

\* Variant: the connection goes back to the pool with its transaction open.
Release_Nothing(p) == UNCHANGED owner

Release(p) == owner' = [s \in Session |-> IF owner[s] = p THEN Null ELSE owner[s]]

\* The transaction of p is over: its locks are released and its session closed.
End(p) ==
    /\ pc' = [pc EXCEPT ![p] = "idle"]
    /\ Release(p)
    /\ staged' = [staged EXCEPT ![p] = NothingStaged]
    /\ op' = [op EXCEPT ![p] = Null]
    /\ token' = [token EXCEPT ![p] = Null]
    /\ entity' = [entity EXCEPT ![p] = Null]
    /\ now' = [now EXCEPT ![p] = Null]
    /\ repl' = [repl EXCEPT ![p] = Null]
    /\ matched' = [matched EXCEPT ![p] = {}]
    /\ todo' = [todo EXCEPT ![p] = {}]

\* The transaction is rolled back; the client gets a 500, or nothing at all.
Abort(p) == End(p) /\ UNCHANGED <<auth_sessions, world>>

-----------------------------------------------------------------------------
(* POST /auth/login, from the point where the password has been verified.  *)

\* The user was active when it was loaded, before the Argon2 work and maybe
\* long ago: it may have been deactivated since, and is not looked at again.
Login(p, u, s) ==
    /\ Step(p, "idle", "issue")
    /\ Fresh(s)
    /\ op' = [op EXCEPT ![p] = "login"]
    /\ now' = [now EXCEPT ![p] = clock]
    /\ repl' = [repl EXCEPT ![p] = s]
    /\ Write(p, s, NewRow(u, s, clock, clock + TTL))
    /\ UNCHANGED <<auth_sessions, token, entity, matched, todo, world>>

-----------------------------------------------------------------------------
(* POST /auth/refresh and POST /auth/logout: the locked lookup.            *)

\* A client presents a token it was sent, or one that was never issued.
Begin(p, o, t) ==
    /\ Step(p, "idle", "lookup")
    /\ op' = [op EXCEPT ![p] = o]
    /\ token' = [token EXCEPT ![p] = t]
    /\ UNCHANGED <<store, entity, now, repl, matched, todo, world>>

\* No committed row: 401 for a refresh, a silent 204 for a logout.
LookupMiss(p) ==
    /\ Step(p, "lookup", "replied")
    /\ token[p] # Null => ~Exists(token[p])
    /\ UNCHANGED <<store, local, world>>

\* A token with a lone surrogate has no UTF-8 encoding, and no hash: a refresh
\* catches the ValueError and answers 401, a logout does not.
HashRaises(p) ==
    /\ pc[p] = "lookup"
    /\ op[p] = "logout"
    /\ token[p] = Null
    /\ Abort(p)

\* Variant: a plain SELECT, which neither waits nor locks.
LookupHit_PlainSelect(p) ==
    /\ Step(p, "lookup", "found")
    /\ token[p] # Null
    /\ Exists(token[p])
    /\ entity' = [entity EXCEPT ![p] = auth_sessions[token[p]]]
    /\ UNCHANGED <<store, op, token, now, repl, matched, todo, world>>

\* FOR UPDATE waits for the holder of the row, then reads its newest version.
LookupHit(p) ==
    /\ Step(p, "lookup", "found")
    /\ token[p] # Null
    /\ Exists(token[p])
    /\ owner[token[p]] = Null
    /\ owner' = [owner EXCEPT ![token[p]] = p]
    /\ entity' = [entity EXCEPT ![p] = auth_sessions[token[p]]]
    /\ UNCHANGED <<auth_sessions, staged, op, token, now, repl, matched, todo,
                   world>>

-----------------------------------------------------------------------------
(* The refresh use case, once the row is locked.                           *)

ReadClock(p) == now' = [now EXCEPT ![p] = clock]

RejectEnded(p) ==
    /\ Step(p, "found", "replied")
    /\ op[p] = "refresh"
    /\ \/ is_expired(entity[p], clock)
       \/ is_revoked(entity[p]) /\ ~is_rotated(entity[p])
    /\ ReadClock(p)
    /\ UNCHANGED <<store, op, token, entity, repl, matched, todo, world>>

\* A rotated token came back: its family is compromised.
DetectReuse(p) ==
    /\ Step(p, "found", "revoke")
    /\ op[p] = "refresh"
    /\ ~is_expired(entity[p], clock)
    /\ is_rotated(entity[p])
    /\ ReadClock(p)
    /\ UNCHANGED <<store, op, token, entity, repl, matched, todo, world>>

AcceptToken(p) ==
    /\ Step(p, "found", "load_user")
    /\ op[p] = "refresh"
    /\ Acceptable(entity[p], clock)
    /\ ReadClock(p)
    /\ UNCHANGED <<store, op, token, entity, repl, matched, todo, world>>

RejectUser(p) ==
    /\ Step(p, "load_user", "replied")
    /\ entity[p].user \notin active
    /\ UNCHANGED <<store, local, world>>

\* Variant: a user that exists is good enough.
LoadUser_Any(p) ==
    /\ Step(p, "load_user", "save_replacement")
    /\ UNCHANGED <<store, local, world>>

LoadUser(p) ==
    /\ Step(p, "load_user", "save_replacement")
    /\ entity[p].user \in active
    /\ UNCHANGED <<store, local, world>>

\* Variant: the replacement is generated and never saved.
SaveReplacement_Unsaved(p, s) ==
    /\ Step(p, "save_replacement", "save_rotated")
    /\ Fresh(s)
    /\ repl' = [repl EXCEPT ![p] = s]
    /\ UNCHANGED <<store, op, token, entity, now, matched, todo, world>>

SaveReplacement(p, s) ==
    /\ Step(p, "save_replacement", "save_rotated")
    /\ Fresh(s)
    /\ repl' = [repl EXCEPT ![p] = s]
    /\ Write(p, s, ReplacementRow(entity[p], now[p]))
    /\ UNCHANGED <<auth_sessions, op, token, entity, now, matched, todo, world>>

\* Bound: when every identifier has been used, the request fails.
IdentifiersExhausted(p) ==
    /\ pc[p] = "save_replacement"
    /\ \A s \in Session : ~Fresh(s)
    /\ Abort(p)

SaveRotated(p) ==
    /\ Step(p, "save_rotated", "issue")
    /\ CanEnd(entity[p], now[p])
    /\ Write(p, token[p], rotate(entity[p], repl[p], now[p]))
    /\ UNCHANGED <<auth_sessions, local, world>>

\* rotate raises InvalidRefreshSessionTimestampError, which nothing catches.
RotateRaises(p) ==
    /\ pc[p] = "save_rotated"
    /\ ~CanEnd(entity[p], now[p])
    /\ Abort(p)

\* The access token is signed and the pair is sent, before the commit.
IssueTokens(p) ==
    /\ Step(p, "issue", "replied")
    /\ delivered' = delivered \cup {repl[p]}
    /\ UNCHANGED <<store, local, clock, active>>

-----------------------------------------------------------------------------
(* revoke_family, for a logout and for a detected reuse.                   *)

LogoutFound(p) ==
    /\ Step(p, "found", "revoke")
    /\ op[p] = "logout"
    /\ ReadClock(p)
    /\ UNCHANGED <<store, op, token, entity, repl, matched, todo, world>>

\* Variant: the clause forgets "revoked_at IS NULL".
InUpdate_AnyRow(p, s) ==
    /\ Exists(s)
    /\ auth_sessions[s].family = entity[p].family

\* Variant: the clause forgets the family.
InUpdate_AnyFamily(p, s) == Active(s)

\* The WHERE clause of the UPDATE.
InUpdate(p, s) ==
    /\ Active(s)
    /\ auth_sessions[s].family = entity[p].family

\* The UPDATE starts: its snapshot selects among the committed rows.
RevokeFamily(p) ==
    /\ Step(p, "revoke", "updating")
    /\ LET rows == {s \in Session : InUpdate(p, s)}
       IN  /\ matched' = [matched EXCEPT ![p] = rows]
           /\ todo' = [todo EXCEPT ![p] = rows]
    /\ UNCHANGED <<store, op, token, entity, now, repl, world>>

\* The UPDATE reaches s and holds its lock: it reads the newest version.
ReachRow(p, s) ==
    /\ pc[p] = "updating"
    /\ s \in todo[p]
    /\ owner[s] \in {Null, p}

RevokeRow(p, s) ==
    /\ ReachRow(p, s)
    /\ InUpdate(p, s)
    /\ now[p] >= auth_sessions[s].created_at
    /\ Write(p, s, revoke(auth_sessions[s], now[p]))
    /\ todo' = [todo EXCEPT ![p] = @ \ {s}]
    /\ UNCHANGED <<auth_sessions, pc, op, token, entity, now, repl, matched,
                   world>>

\* Variant: the UPDATE does not wait for locked rows.
SkipRow_Locked(p, s) ==
    /\ pc[p] = "updating"
    /\ s \in todo[p]
    /\ owner[s] \in {Null, p} => ~InUpdate(p, s)
    /\ todo' = [todo EXCEPT ![p] = @ \ {s}]
    /\ UNCHANGED <<store, pc, op, token, entity, now, repl, matched, world>>

\* The newest version no longer satisfies the WHERE clause: locked, unchanged.
SkipRow(p, s) ==
    /\ ReachRow(p, s)
    /\ ~InUpdate(p, s)
    /\ owner' = [owner EXCEPT ![s] = p]
    /\ todo' = [todo EXCEPT ![p] = @ \ {s}]
    /\ UNCHANGED <<auth_sessions, staged, pc, op, token, entity, now, repl,
                   matched, world>>

\* ck_auth_sessions_revoked_after_created fails: IntegrityError, a 500.
RevokeRowRejected(p, s) ==
    /\ ReachRow(p, s)
    /\ InUpdate(p, s)
    /\ now[p] < auth_sessions[s].created_at
    /\ Abort(p)

\* 204 for the logout, 401 for the reuse: both return normally and commit.
RevokeDone(p) ==
    /\ Step(p, "updating", "replied")
    /\ todo[p] = {}
    /\ UNCHANGED <<store, local, world>>

-----------------------------------------------------------------------------
(* The end of a request, and its environment.                              *)

\* get_db_session resumes after the answer was sent, and commits.
Commit(p) ==
    /\ pc[p] = "replied"
    /\ auth_sessions' = [s \in Session |-> IF staged[p][s] # Null
                                           THEN staged[p][s]
                                           ELSE auth_sessions[s]]
    /\ End(p)
    /\ UNCHANGED world

\* A crash, a lost connection, a failing signature or a failing commit.
Fault(p) ==
    /\ MayFail
    /\ pc[p] # "idle"
    /\ Abort(p)

Tick ==
    /\ clock < MaxClock
    /\ clock' = clock + 1
    /\ UNCHANGED <<store, pc, local, delivered, active>>

StepBack ==
    /\ ClockStepsBack
    /\ clock > 0
    /\ clock' = clock - 1
    /\ UNCHANGED <<store, pc, local, delivered, active>>

Deactivate(u) ==
    /\ u \in active
    /\ active' = active \ {u}
    /\ UNCHANGED <<store, pc, local, clock, delivered>>

Reactivate(u) ==
    /\ u \notin active
    /\ active' = active \cup {u}
    /\ UNCHANGED <<store, pc, local, clock, delivered>>

-----------------------------------------------------------------------------
Arrive(p) ==
    \/ \E u \in User, s \in Session : Login(p, u, s)
    \/ \E o \in {"refresh", "logout"}, t \in delivered \cup {Null} : Begin(p, o, t)

\* The steps of p that can wait for the lock of another request.
Lock(p) ==
    \/ LookupHit(p)
    \/ \E s \in Session : RevokeRow(p, s) \/ SkipRow(p, s) \/ RevokeRowRejected(p, s)

\* The steps of p that never wait.
Run(p) ==
    \/ LookupMiss(p) \/ HashRaises(p)
    \/ RejectEnded(p) \/ DetectReuse(p) \/ AcceptToken(p)
    \/ RejectUser(p) \/ LoadUser(p)
    \/ \E s \in Session : SaveReplacement(p, s)
    \/ IdentifiersExhausted(p)
    \/ SaveRotated(p) \/ RotateRaises(p)
    \/ IssueTokens(p)
    \/ LogoutFound(p) \/ RevokeFamily(p) \/ RevokeDone(p)
    \/ Commit(p)

Environment ==
    \/ Tick \/ StepBack
    \/ \E u \in User : Deactivate(u) \/ Reactivate(u)

Next ==
    \/ \E p \in Request : Arrive(p) \/ Lock(p) \/ Run(p) \/ Fault(p)
    \/ Environment

Spec == Init /\ [][Next]_vars

\* A handler that can run does run, and PostgreSQL grants a row lock to those
\* who queue for it in turn; no client has to come, no clock has to move.
Fairness == \A p \in Request : WF_vars(Run(p)) /\ SF_vars(Lock(p))
FairSpec == Spec /\ Fairness

-----------------------------------------------------------------------------
(* Properties.                                                             *)

TypeOK ==
    /\ auth_sessions \in [Session -> Row \cup {Null}]
    /\ owner \in [Session -> Request \cup {Null}]
    /\ staged \in [Request -> [Session -> Row \cup {Null}]]
    /\ pc \in [Request -> {"idle", "lookup", "found", "load_user",
                           "save_replacement", "save_rotated", "issue",
                           "revoke", "updating", "replied"}]
    /\ op \in [Request -> {"login", "refresh", "logout", Null}]
    /\ token \in [Request -> Session \cup {Null}]
    /\ entity \in [Request -> Row \cup {Null}]
    /\ now \in [Request -> Nat \cup {Null}]
    /\ repl \in [Request -> Session \cup {Null}]
    /\ matched \in [Request -> SUBSET Session]
    /\ todo \in [Request -> SUBSET Session]
    /\ clock \in 0..MaxClock
    /\ delivered \subseteq Session
    /\ active \subseteq User

Family(f) == {s \in Session : Exists(s) /\ auth_sessions[s].family = f}

\* However logins, rotations, replays and logouts interleave, at most one
\* token of a family can be exchanged: rotation consumes what it replaces.
OneActivePerFamily ==
    \A f \in Session : \A s, t \in Family(f) : Active(s) /\ Active(t) => s = t

\* A family is one line of rotations: its rows belong to one user and expire
\* together, every row but the root replaced exactly one row, none was
\* replaced twice, at most one has not been replaced, and a replaced row has
\* been revoked.
FamilyIsAChain ==
    \A f \in Session : \A s \in Family(f) :
        /\ f \in Family(f)
        /\ auth_sessions[s].user = auth_sessions[f].user
        /\ auth_sessions[s].expires_at = auth_sessions[f].expires_at
        /\ s # f => \E t \in Family(f) : auth_sessions[t].replaced_by = s
        /\ is_rotated(auth_sessions[s]) =>
             /\ is_revoked(auth_sessions[s])
             /\ auth_sessions[s].replaced_by \in Family(f) \ {f, s}
             /\ \A t \in Family(f) :
                   auth_sessions[t].replaced_by = auth_sessions[s].replaced_by => t = s
        /\ \A t \in Family(f) :
             ~is_rotated(auth_sessions[s]) /\ ~is_rotated(auth_sessions[t]) => t = s

\* The end of a session is final: no request rewrites, revives or deletes a
\* revoked row, whatever copy of it the request loaded before.
EndedStaysEnded ==
    [][\A s \in Session : Exists(s) /\ is_revoked(auth_sessions[s])
           => auth_sessions'[s] = auth_sessions[s]]_vars

\* A logout with the newest token of a family really ends it: when it answers,
\* it has staged the revocation of every active row of the family, and no
\* other request is about to add one.
LogoutOfNewestTokenIsTotal ==
    \A p \in Request :
        (pc[p] = "replied" /\ op[p] = "logout" /\ entity[p] # Null
           /\ ~is_rotated(entity[p]))
        => \A s \in Session :
             /\ InUpdate(p, s) => staged[p][s] # Null
             /\ \A q \in Request \ {p} :
                  staged[q][s] # Null => staged[q][s].family # entity[p].family

\* What revoke_family does guarantee: every row its snapshot found active is
\* ended when it returns, by its own write or by the rotation or revocation it
\* waited for; skipping a row that changed meanwhile loses nothing.
RevocationCoversSnapshot ==
    \A p \in Request : \A s \in matched[p] \ todo[p] :
        is_revoked(auth_sessions[s]) \/ staged[p][s] # Null

\* A session is ended by its own family only: by the commit of a request that
\* presented one of the family's tokens, whatever else that request waited for.
RevocationStaysInFamily ==
    [][\A s \in Session : Active(s) /\ ~Active(s)' =>
          \E p \in Request :
             /\ pc[p] = "replied" /\ pc'[p] = "idle"
             /\ token[p] # Null /\ Exists(token[p])
             /\ auth_sessions[token[p]].family = auth_sessions[s].family]_vars

\* The answer with a new token is sent before the commit that stores it, so a
\* quick client can be told that its token is unknown; but without a fault it
\* is unknown only for so long: no token that was sent is ever lost.
UnknownIsUncommitted ==
    \A p \in Request :
        pc[p] = "lookup" /\ token[p] # Null /\ ~Exists(token[p])
        => \E q \in Request : pc[q] = "replied" /\ repl[q] = token[p]

\* A row that was stored can be loaded again, though it is validated each time
\* and written by statements that do not go through its entity: no clock that
\* steps back, no stale reading of it and no last-minute rotation leaves a row
\* whose family could neither be refreshed nor logged out any more.
StoredSessionsLoad == \A s \in Session : Exists(s) => Loads(s, auth_sessions[s])

\* p queues for a row lock that q holds.
WaitsFor(p, q) ==
    /\ p # q
    /\ \/ pc[p] = "lookup" /\ token[p] # Null /\ owner[token[p]] = q
       \/ pc[p] = "updating" /\ \E s \in todo[p] : owner[s] = q

\* PostgreSQL never has to break a deadlock: a request waits only for rows
\* further down the chain than those it has locked.
NoDeadlock ==
    ~ \E S \in SUBSET Request :
        S # {} /\ \A p \in S : \E q \in S : WaitsFor(p, q)

\* Every request ends, whoever else competes for the rows it needs.
RequestsFinish == \A p \in Request : pc[p] # "idle" ~> pc[p] = "idle"

\* "An old token still identifies its family for full refresh-family logout"
\* (test_login_with_password.py): once a request that revoked a family has
\* committed, no row of the family is active.
RevocationEndsFamily ==
    [][\A p \in Request :
         (pc[p] = "replied" /\ matched[p] # {} /\ pc'[p] = "idle")
         => \A s \in Session : Exists(s)' /\ auth_sessions'[s].family = entity[p].family
                                => is_revoked(auth_sessions'[s])]_vars

\* "Logout is always an empty no content response" (the name of a test): the
\* logout of a token that was issued ends with its answer, never with an
\* exception.
LogoutAlwaysNoContent ==
    [][\A p \in Request :
          op[p] = "logout" /\ token[p] # Null /\ pc'[p] = "idle" => pc[p] = "replied"]_vars

-----------------------------------------------------------------------------
(* The committed rows implement one-time tokens in families.               *)

grantOf(row) == [user |-> row.user, family |-> row.family, expires_at |-> row.expires_at]

TF == INSTANCE TokenFamilies WITH
    Token <- Session,
    Deadline <- 0..(MaxClock + TTL),
    None  <- Null,
    grant <- [s \in Session |-> IF Exists(s) THEN grantOf(auth_sessions[s]) ELSE Null],
    live  <- {s \in Session : Active(s)},
    succ  <- [s \in Session |-> IF Exists(s) THEN auth_sessions[s].replaced_by ELSE Null]

\* Every commit issues, exchanges or closes as TokenFamilies allows, and no
\* other step shows: rotation is atomic and consumes its token exactly once,
\* never extends the expiry, and a family that has ended stays ended.
ImplementsTokenFamilies == TF!Spec

-----------------------------------------------------------------------------
(* The inductive invariant: TypeOK and FamilyIsAChain, with what relates a  *)
(* request's own copies to the rows it has locked.                         *)

\* What a request has written, it has locked.
StagedIsLocked ==
    \A p \in Request : \A s \in Session : staged[p][s] # Null => owner[s] = p

\* The entity a request works on is still the committed row: no stale copy.
EntityIsCurrent ==
    \A p \in Request : entity[p] # Null =>
        /\ token[p] \in Session
        /\ owner[token[p]] = p
        /\ auth_sessions[token[p]] = entity[p]

\* What a request knows at each of its steps.
HandlerState ==
    \A p \in Request :
        /\ pc[p] \in {"idle", "lookup"} => entity[p] = Null /\ matched[p] = {}
        /\ pc[p] \in {"found", "load_user", "save_replacement", "save_rotated",
                      "revoke", "updating"} => entity[p] # Null
        /\ pc[p] \in {"load_user", "save_replacement"} =>
             ~is_revoked(entity[p]) /\ ~is_rotated(entity[p])
        /\ pc[p] \in {"load_user", "save_replacement", "revoke", "updating"} =>
             now[p] \in Nat
        /\ pc[p] \in {"load_user", "save_replacement"} => op[p] = "refresh"
        /\ pc[p] \in {"save_rotated", "issue"} => repl[p] # Null
        /\ pc[p] # "updating" => todo[p] = {}

\* A request without a replacement has staged nothing but revocations, of
\* active rows in the family of the row it has locked.
RevocationStaged ==
    \A p \in Request : repl[p] = Null => \A s \in Session : staged[p][s] # Null =>
        /\ pc[p] \in {"updating", "replied"}
        /\ now[p] \in Nat
        /\ entity[p] # Null
        /\ InUpdate(p, s)
        /\ staged[p][s] = revoke(auth_sessions[s], now[p])

LoginStaged(p) ==
    /\ op[p] = "login"
    /\ entity[p] = Null
    /\ pc[p] \in {"issue", "replied"}
    /\ \E u \in User : staged[p][repl[p]] = NewRow(u, repl[p], now[p], now[p] + TTL)
    /\ now[p] \in 0..MaxClock
    /\ \A s \in Session \ {repl[p]} : staged[p][s] = Null

RotationStaged(p) ==
    /\ op[p] = "refresh"
    /\ entity[p] # Null
    /\ ~is_revoked(entity[p])
    /\ ~is_rotated(entity[p])
    /\ pc[p] \in {"save_rotated", "issue", "replied"}
    /\ now[p] \in Nat
    /\ staged[p][repl[p]] = ReplacementRow(entity[p], now[p])
    /\ staged[p][token[p]] = IF pc[p] = "save_rotated" THEN Null
                             ELSE rotate(entity[p], repl[p], now[p])
    /\ \A s \in Session \ {repl[p], token[p]} : staged[p][s] = Null

\* A request with a replacement stages a login or a rotation, and nobody else
\* has the identifier it generated.
ReplacementStaged ==
    \A p \in Request : repl[p] # Null =>
        ~Exists(repl[p]) /\ (LoginStaged(p) \/ RotationStaged(p))

\* The rows selected by an UPDATE stay in their family; the row of a logout's
\* own token is among them unless it had ended.
SnapshotIsCurrent ==
    \A p \in Request :
        /\ todo[p] \subseteq matched[p]
        /\ \A s \in matched[p] :
             entity[p] # Null /\ Exists(s) /\ auth_sessions[s].family = entity[p].family
        /\ (/\ op[p] = "logout"
            /\ entity[p] # Null
            /\ pc[p] \notin {"found", "revoke"}
            /\ ~is_revoked(entity[p])) => token[p] \in matched[p]

\* Expiries stay within the horizon of the bounded clock.
ExpiryBounded ==
    \A s \in Session : Exists(s) => auth_sessions[s].expires_at \in 0..(MaxClock + TTL)

\* For StoredSessionsLoad: what is staged will load, and a token that has been
\* accepted is rotated at a time before its expiry.
StagedRowsLoad ==
    \A p \in Request : \A s \in Session : staged[p][s] # Null => Loads(s, staged[p][s])

AcceptedInTime ==
    \A p \in Request :
        pc[p] \in {"load_user", "save_replacement"} => now[p] < entity[p].expires_at

LoadState == StoredSessionsLoad /\ StagedRowsLoad /\ AcceptedInTime

\* For NoDeadlock: which locks a request holds, where it may have to wait.
LocksKnown ==
    \A p \in Request : \A s \in Session : owner[s] = p =>
        /\ pc[p] \notin {"idle", "lookup"}
        /\ pc[p] \in {"found", "load_user", "save_replacement", "revoke"} => s = token[p]
        /\ pc[p] = "updating" => s = token[p] \/ s \in matched[p] \ todo[p]

\* The snapshot of an UPDATE finds one row at most: the newest of the family.
MatchedOnce == \A p \in Request : \A s, t \in matched[p] : s = t

\* position numbers the stored sessions in the order of their commits, so that
\* what is active is the last of its family, and an UPDATE waits only for what
\* comes after the row its request has locked.
InOrder(position, next) ==
    /\ \A s \in Session : Exists(s) => position[s] < next
    /\ \A s, t \in Session :
         /\ Exists(s) /\ Active(t) /\ s # t
         /\ auth_sessions[s].family = auth_sessions[t].family
         => position[s] < position[t]
    /\ \A p \in Request : \A s \in matched[p] :
         s # token[p] => position[token[p]] < position[s]

LockOrder ==
    /\ LocksKnown
    /\ MatchedOnce
    /\ \E position \in [Session -> Nat], next \in Nat : InOrder(position, next)

\* For UnknownIsUncommitted: what becomes of a token that was sent.
SentIsStored ==
    \A t \in delivered :
        Exists(t) \/ \E q \in Request : pc[q] = "replied" /\ repl[q] = t

PresentedWasSent == \A p \in Request : token[p] # Null => token[p] \in delivered

IInv ==
    /\ TypeOK
    /\ StagedIsLocked
    /\ EntityIsCurrent
    /\ HandlerState
    /\ RevocationStaged
    /\ ReplacementStaged
    /\ FamilyIsAChain
    /\ SnapshotIsCurrent
    /\ RevocationCoversSnapshot
    /\ ExpiryBounded

=============================================================================
