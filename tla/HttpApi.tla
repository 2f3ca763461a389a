------------------------------- MODULE HttpApi -------------------------------
(***************************************************************************)
(* A request of the Vectro backend from its route to its answer: which     *)
(* exceptions a route turns into answers and which ones it lets through,   *)
(* the session that get_db_session opens, commits or rolls back around it, *)
(* and the bounded pool its connection comes from.                         *)
(*                                                                         *)
(* A session takes a connection at its first statement and keeps it until  *)
(* its transaction ends: while it waits for a row, hashes a password on a  *)
(* thread, and sends the answer, which comes before the commit.  Tables    *)
(* are not modelled: a statement returns any of its possible results.  All *)
(* requests compete for one address, one credential and the rows of one    *)
(* family, which are locked one by one: first the row of the token that    *)
(* was sent, then, while that is held, the row that a revocation reaches.  *)
(* Those that are refused before their first statement (a malformed body,  *)
(* a rejected value, no token) touch nothing and do not appear.            *)
(***************************************************************************)
EXTENDS Naturals, FiniteSets

CONSTANTS
    Request,        \* the requests that may be handled at the same time
    PoolSize,       \* DATABASE_POOL_SIZE
    MaxOverflow,    \* DATABASE_MAX_OVERFLOW
    Chain,          \* the rows of the family, numbered from its first login on
    Null

ASSUME PoolAssumption ==
    PoolSize \in Nat \ {0} /\ MaxOverflow \in Nat
ASSUME ChainAssumption == Chain \in Nat \ {0}

Row == 1..Chain

\* What requests wait for: the unique address, the credential, a session.
Locks == {<<"address", 0>>, <<"credential", 0>>} \cup {<<"row", i>> : i \in Row}

ASSUME NullAssumption ==
    /\ Null \notin Request \cup Locks
    /\ Null \notin {"EmailExists", "Integrity", "InvalidCredentials", "Timestamp",
                    "InvalidRefreshToken", "ReuseDetected", "InvalidAccessToken",
                    "Timeout", "Disconnected", "alive", "broken",
                    "users", "register", "login", "refresh", "logout", "me",
                    "revocation"}

VARIABLES
    serving,     \* whether the application runs
    pc,          \* where a request stands
    route,
    conn,        \* its connection: "alive", "broken", or Null
    wrote,       \* what its transaction has written, or Null
    reply,       \* the status it answered, or is going to answer
    sought,      \* the row of the family its next statement needs; 0: none
    owner,       \* the request whose transaction holds a lock, or Null
    pooled,      \* connections in the pool that work
    stale,       \* connections in the pool that a restart has broken
    opened,      \* connections that the pool counts as open
    hit,         \* requests whose transaction a restart interrupted
    committed    \* whether the last step was a commit

local == <<pc, route, wrote, reply, sought>>
pool  == <<conn, pooled, stale, opened>>
world == <<serving, hit>>
vars  == <<serving, pc, route, conn, wrote, reply, sought, owner, pooled, stale,
           opened, hit, committed>>

-----------------------------------------------------------------------------
(* The routes.                                                             *)

Route == {"users", "register", "login", "refresh", "logout", "me"}

\* The two that look a session up before anything else, with its row locked.
OfSession == {"refresh", "logout"}

\* Variant: the reuse of a token is not caught by its route.
Caught_NoReuse(r) ==
    CASE r \in {"users", "register"} -> {"EmailExists"}
      [] r = "login"                 -> {"InvalidCredentials"}
      [] r = "refresh"               -> {"InvalidRefreshToken"}
      [] OTHER                       -> {}

\* The except clauses of a route that concern us: they return an answer.
Caught(r) ==
    CASE r \in {"users", "register"} -> {"EmailExists"}
      [] r = "login"                 -> {"InvalidCredentials"}
      [] r = "refresh"               -> {"InvalidRefreshToken", "ReuseDetected"}
      [] OTHER                       -> {}

\* The answer to an exception, from its route or from a handler of the
\* application; Null stands for none.
StatusOf(r, e) ==
    CASE e = Null -> IF r \in {"users", "register"} THEN "201"
                     ELSE IF r = "logout" THEN "204" ELSE "200"
      [] e = "EmailExists" \/ (e = "Integrity" /\ r = "register") -> "409"
      [] e \in {"InvalidCredentials", "InvalidRefreshToken", "ReuseDetected",
                "InvalidAccessToken"} -> "401"
      [] OTHER -> "500"

\* What a use case that has reached the database comes to: the exception it
\* raises, or Null, and what its transaction has written by then.
Outcomes(r) ==
    CASE r = "users"    -> {<<"EmailExists", Null>>, <<Null, "user">>}
      [] r = "register" -> {<<"EmailExists", Null>>, <<"Integrity", Null>>,
                            <<Null, "registration">>}
      [] r = "login"    -> {<<"InvalidCredentials", Null>>, <<"Timestamp", Null>>,
                            <<Null, "session">>}
      [] r = "refresh"  -> {<<"InvalidRefreshToken", Null>>, <<"Integrity", Null>>,
                            <<"ReuseDetected", "revocation">>,
                            <<"Timestamp", "replacement">>, <<Null, "rotation">>}
      [] r = "logout"   -> {<<"Integrity", Null>>, <<Null, "revocation">>, <<Null, Null>>}
      [] r = "me"       -> {<<"InvalidAccessToken", Null>>, <<Null, Null>>}

\* Two routes go on to hash a password.
Hashes == {"register", "login"}

\* The results of the last statement of a use case.  At its lookup, a refresh or
\* a logout may find no row (sought is 0); a logout that found one never ends
\* there, nor does the reuse of a token: they go on to revoke the family.
DecidedAt(stage, r, row) ==
    CASE stage = "lookup" /\ r = "login"    -> {}
      [] stage = "lookup" /\ r = "register" -> {<<"EmailExists", Null>>}
      [] stage = "lookup" /\ r = "refresh"  ->
           {<<"InvalidRefreshToken", Null>>} \cup
           (IF row = 0 THEN {} ELSE {<<"Timestamp", "replacement">>, <<Null, "rotation">>})
      [] stage = "lookup" /\ r = "logout"   -> IF row = 0 THEN {<<Null, Null>>} ELSE {}
      [] stage = "lookup" /\ r \in {"users", "me"} -> Outcomes(r)
      [] stage = "update" /\ r = "refresh"  ->
           {<<"Integrity", Null>>, <<"ReuseDetected", "revocation">>}
      [] stage = "update" /\ r = "logout"   -> {<<"Integrity", Null>>, <<Null, "revocation">>}
      [] stage = "hash"   -> IF r = "login" THEN {<<"InvalidCredentials", Null>>} ELSE {}
      [] stage = "write"  -> Outcomes(r) \ {<<"EmailExists", Null>>,
                                            <<"InvalidCredentials", Null>>}

-----------------------------------------------------------------------------
Init ==
    /\ serving = TRUE
    /\ pc = [p \in Request |-> "idle"]
    /\ route = [p \in Request |-> Null]
    /\ conn = [p \in Request |-> Null]
    /\ wrote = [p \in Request |-> Null]
    /\ reply = [p \in Request |-> Null]
    /\ sought = [p \in Request |-> 0]
    /\ owner = [l \in Locks |-> Null]
    /\ pooled = 0
    /\ stale = 0
    /\ opened = 0
    /\ hit = {}
    /\ committed = FALSE

Step(p, from, to) == pc[p] = from /\ pc' = [pc EXCEPT ![p] = to]

NoCommit == committed' = FALSE

\* The dependencies are resolved, the session is open, and nothing is sent yet;
\* which route it is shows from the first statement on.
Begin(p) ==
    /\ serving
    /\ Step(p, "idle", "connect")
    /\ NoCommit
    /\ UNCHANGED <<route, wrote, reply, sought, pool, owner, world>>

-----------------------------------------------------------------------------
(* The pool: QueuePool with pre-ping.                                      *)

\* Variant: pool_pre_ping is off.
TakeStale_Unchecked(p) == conn' = [conn EXCEPT ![p] = "broken"]

\* A broken connection is noticed by the ping, and replaced.
TakeStale(p) == conn' = [conn EXCEPT ![p] = "alive"]

\* The first statement is sent; a refresh or a logout brings a token, that of a
\* row of the family or an unknown one.
Connect(p) ==
    /\ Step(p, "connect", "lookup")
    /\ \E r \in Route, row \in Row \cup {0} :
         /\ row # 0 => r \in OfSession
         /\ route' = [route EXCEPT ![p] = r]
         /\ sought' = [sought EXCEPT ![p] = row]
    /\ \/ /\ pooled > 0
          /\ pooled' = pooled - 1
          /\ conn' = [conn EXCEPT ![p] = "alive"]
          /\ UNCHANGED <<stale, opened>>
       \/ /\ stale > 0
          /\ stale' = stale - 1
          /\ TakeStale(p)
          /\ UNCHANGED <<pooled, opened>>
       \/ /\ pooled + stale = 0
          /\ opened < PoolSize + MaxOverflow
          /\ opened' = opened + 1
          /\ conn' = [conn EXCEPT ![p] = "alive"]
          /\ UNCHANGED <<pooled, stale>>
    /\ NoCommit
    /\ UNCHANGED <<wrote, reply, owner, world>>

\* Variant: a connection beyond the pool is closed and still counted.
Return_Uncounted(p) ==
    /\ conn' = [conn EXCEPT ![p] = Null]
    /\ pooled' = IF conn[p] = "alive" /\ pooled + stale < PoolSize THEN pooled + 1 ELSE pooled
    /\ stale' = IF conn[p] = "broken" /\ pooled + stale < PoolSize THEN stale + 1 ELSE stale
    /\ opened' = opened

\* Variant: a connection that has broken is never given back.
Return_BrokenKept(p) ==
    /\ conn' = [conn EXCEPT ![p] = Null]
    /\ pooled' = IF conn[p] = "alive" /\ pooled + stale < PoolSize THEN pooled + 1 ELSE pooled
    /\ stale' = stale
    /\ opened' = IF conn[p] = "alive" /\ pooled + stale >= PoolSize THEN opened - 1 ELSE opened

\* The connection goes back, or is closed when the pool is full.
Return(p) ==
    /\ conn' = [conn EXCEPT ![p] = Null]
    /\ pooled' = IF conn[p] = "alive" /\ pooled + stale < PoolSize THEN pooled + 1 ELSE pooled
    /\ stale' = IF conn[p] = "broken" /\ pooled + stale < PoolSize THEN stale + 1 ELSE stale
    /\ opened' = IF conn[p] # Null /\ pooled + stale >= PoolSize THEN opened - 1 ELSE opened

\* An exception that no route catches is on its way: the status is settled, and
\* will be sent when the transaction has been rolled back.
Raise(p, e) ==
    /\ pc' = [pc EXCEPT ![p] = "raised"]
    /\ reply' = [reply EXCEPT ![p] = StatusOf(route[p], e)]

\* No connection came back within pool_timeout.
PoolTimeout(p) ==
    /\ pc[p] = "connect"
    /\ pooled + stale = 0
    /\ opened = PoolSize + MaxOverflow
    /\ Raise(p, "Timeout")
    /\ NoCommit
    /\ UNCHANGED <<route, wrote, sought, pool, owner, world>>

-----------------------------------------------------------------------------
(* The use case.                                                           *)

\* It returns or raises; its route answers if it returned, or catches.
Finish(p, o) ==
    /\ wrote' = [wrote EXCEPT ![p] = o[2]]
    /\ IF o[1] \in Caught(route[p]) \cup {Null}
       THEN /\ pc' = [pc EXCEPT ![p] = "replied"]
            /\ reply' = [reply EXCEPT ![p] = StatusOf(route[p], o[1])]
       ELSE Raise(p, o[1])
    /\ sought' = [sought EXCEPT ![p] = 0]
    /\ UNCHANGED route

\* Variant: the registration leaves its INSERTs to the commit.
InsertsAtCommit_Both == {"users", "register"}

\* The routes whose INSERT is sent by the commit.
InsertsAtCommit == {"users"}

\* The lock that the next statement of p needs, if any.
Needed(p) ==
    CASE pc[p] \in {"lookup", "update"} /\ sought[p] # 0 -> <<"row", sought[p]>>
      [] pc[p] = "write" /\ route[p] = "register"        -> <<"address", 0>>
      [] pc[p] = "write" /\ route[p] = "login"           -> <<"credential", 0>>
      [] pc[p] = "replied" /\ route[p] \in InsertsAtCommit /\ wrote[p] # Null
                                                         -> <<"address", 0>>
      [] OTHER                                           -> Null

Free(p) == Needed(p) # Null => owner[Needed(p)] \in {Null, p}

\* The statement gets its lock; a login whose hash is current writes no row
\* that exists and needs none.
Acquire(p) ==
    \/ /\ Needed(p) = Null \/ route[p] = "login"
       /\ UNCHANGED owner
    \/ /\ Needed(p) # Null /\ Free(p)
       /\ owner' = [owner EXCEPT ![Needed(p)] = p]

\* A statement after which the use case waits for no other row has returned;
\* what follows it, up to the answer, is part of the step.
Execute(p) ==
    /\ pc[p] \in {"lookup", "write", "update"}
    /\ conn[p] = "alive"
    /\ Acquire(p)
    /\ \E o \in DecidedAt(pc[p], route[p], sought[p]) : Finish(p, o)
    /\ NoCommit
    /\ UNCHANGED <<pool, world>>

\* Variant: the clause forgets "revoked_at IS NULL", and reaches every row.
Reached_AnyRow(p) == {0} \cup Row

\* The row of the family, besides the one p has locked, that its UPDATE finds:
\* the one row that is not revoked comes later in the line of rotations.
Reached(p) == {0} \cup {row \in Row : row > sought[p]}

\* The row of the token is found and locked, and the family is to be revoked:
\* by a logout, or because the token had been exchanged before.
FindFamily(p) ==
    /\ Step(p, "lookup", "update")
    /\ conn[p] = "alive"
    /\ sought[p] # 0
    /\ Acquire(p)
    /\ \E row \in Reached(p) : sought' = [sought EXCEPT ![p] = row]
    /\ NoCommit
    /\ UNCHANGED <<route, wrote, reply, pool, world>>

\* The server has closed the connection: the next statement raises.
StatementFails(p) ==
    /\ pc[p] \in {"lookup", "write", "update"}
    /\ conn[p] = "broken"
    /\ Raise(p, "Disconnected")
    /\ sought' = [sought EXCEPT ![p] = 0]
    /\ NoCommit
    /\ UNCHANGED <<route, wrote, pool, owner, world>>

\* The lookup has found nothing that stops the request: Argon2 is next.
GoOn(p) ==
    /\ Step(p, "lookup", "hash")
    /\ conn[p] = "alive"
    /\ route[p] \in Hashes
    /\ NoCommit
    /\ UNCHANGED <<route, wrote, reply, sought, pool, owner, world>>

\* The thread is done: the password was hashed, or verified, with success.
Hash(p) ==
    /\ Step(p, "hash", "write")
    /\ NoCommit
    /\ UNCHANGED <<route, wrote, reply, sought, pool, owner, world>>

HashRejects(p) ==
    /\ pc[p] = "hash"
    /\ \E o \in DecidedAt("hash", route[p], 0) : Finish(p, o)
    /\ NoCommit
    /\ UNCHANGED <<pool, owner, world>>

-----------------------------------------------------------------------------
(* The end of a request: get_db_session after its yield.                   *)

\* The transaction is over: its locks are free, its connection goes back.
End(p) ==
    /\ pc' = [pc EXCEPT ![p] = "idle"]
    /\ route' = [route EXCEPT ![p] = Null]
    /\ wrote' = [wrote EXCEPT ![p] = Null]
    /\ reply' = [reply EXCEPT ![p] = Null]
    /\ sought' = [sought EXCEPT ![p] = 0]
    /\ owner' = [l \in Locks |-> IF owner[l] = p THEN Null ELSE owner[l]]
    /\ Return(p)
    /\ hit' = hit \ {p}
    /\ UNCHANGED serving

\* An INSERT that is still to be sent waits for the address.
Commit(p) ==
    /\ pc[p] = "replied"
    /\ conn[p] = "alive"
    /\ Free(p)
    /\ committed' = TRUE
    /\ End(p)

\* The connection is gone, or the INSERT finds the address taken.
CommitFails(p) ==
    /\ pc[p] = "replied"
    /\ \/ conn[p] = "broken"
       \/ conn[p] = "alive" /\ Needed(p) # Null /\ Free(p)
    /\ NoCommit
    /\ End(p)

\* Variant: the session is committed whatever happened.
Rollback_Commits(p) ==
    /\ pc[p] = "raised"
    /\ committed' = (conn[p] = "alive")
    /\ End(p)

\* The exception leaves get_db_session; then a handler of the application answers.
Rollback(p) ==
    /\ pc[p] = "raised"
    /\ NoCommit
    /\ End(p)

-----------------------------------------------------------------------------
(* The server, the database, and the process.                              *)

\* Connected requests lose their transactions with their locks.
Restart ==
    /\ conn' = [p \in Request |-> IF conn[p] = Null THEN Null ELSE "broken"]
    /\ hit' = {p \in Request : conn[p] # Null}
    /\ owner' = [l \in Locks |-> Null]
    /\ stale' = stale + pooled
    /\ pooled' = 0
    /\ NoCommit
    /\ UNCHANGED <<local, opened, serving>>

\* dispose_database_engine closes what the pool holds.
Dispose ==
    /\ pooled' = 0
    /\ stale' = 0
    /\ opened' = opened - pooled - stale
    /\ UNCHANGED conn

\* The application stops when its requests have ended; lifespan resumes.
Stop ==
    /\ serving
    /\ \A p \in Request : pc[p] = "idle"
    /\ serving' = FALSE
    /\ Dispose
    /\ NoCommit
    /\ UNCHANGED <<local, owner, hit>>

Start ==
    /\ ~serving
    /\ serving' = TRUE
    /\ NoCommit
    /\ UNCHANGED <<local, pool, owner, hit>>

-----------------------------------------------------------------------------
\* The steps that wait for a connection or a lock.
Wait(p) ==
    \/ Connect(p) \/ FindFamily(p) \/ Execute(p)
    \/ Commit(p) \/ CommitFails(p)

Run(p) ==
    \/ StatementFails(p)
    \/ GoOn(p) \/ Hash(p) \/ HashRejects(p)
    \/ Rollback(p)

Next ==
    \/ \E p \in Request : Begin(p) \/ Wait(p) \/ Run(p) \/ PoolTimeout(p)
    \/ Restart \/ Stop \/ Start

Spec == Init /\ [][Next]_vars

\* Coroutines and threads that can run do run, PostgreSQL and the pool serve
\* those who wait in turn.  The timeout of the pool may never come.
FairSpec == Spec /\ \A p \in Request : WF_vars(Run(p)) /\ SF_vars(Wait(p))

-----------------------------------------------------------------------------
(* Properties.                                                             *)

Held == {p \in Request : conn[p] # Null}

TypeOK ==
    /\ serving \in BOOLEAN
    /\ pc \in [Request -> {"idle", "connect", "lookup", "hash", "write", "update",
                           "replied", "raised"}]
    /\ route \in [Request -> Route \cup {Null}]
    /\ conn \in [Request -> {"alive", "broken", Null}]
    /\ wrote \in [Request -> {"user", "registration", "session", "replacement",
                              "rotation", "revocation", Null}]
    /\ reply \in [Request -> {"200", "201", "204", "401", "409", "500", Null}]
    /\ sought \in [Request -> Row \cup {0}]
    /\ owner \in [Locks -> Request \cup {Null}]
    /\ {pooled, stale, opened} \subseteq Nat
    /\ hit \subseteq Request

\* No connection leaks and none is used twice: what the pool counts as open is
\* in the pool or in the transaction of a request that has not ended, the
\* settings bound both, and an application that has stopped holds nothing.
PoolIsAccounted ==
    /\ opened = pooled + stale + Cardinality(Held)
    /\ opened <= PoolSize + MaxOverflow
    /\ pooled + stale <= PoolSize
    /\ \A p \in Request : pc[p] \in {"idle", "connect"} => p \notin Held
    /\ ~serving => opened = 0

\* A restart of the database costs the requests that were in a transaction,
\* and nobody else: later ones never get a connection it has broken.
RestartHurtsOnlyOpenTransactions == \A p \in Request : conn[p] = "broken" => p \in hit

Ends(p) == pc[p] # "idle" /\ pc'[p] = "idle"

\* What each answer of a route stands for.
Effects ==
    {<<"users", "201", "user">>, <<"register", "201", "registration">>,
     <<"login", "200", "session">>, <<"refresh", "200", "rotation">>,
     <<"refresh", "401", "revocation">>, <<"logout", "204", "revocation">>}

\* What a request leaves in the database is what its answer says: an error
\* changes nothing, with one exception, the revocation after a reused token.
AnswerMatchesCommit ==
    [][\A p \in Request : Ends(p) /\ committed' /\ wrote[p] # Null =>
          <<route[p], reply[p], wrote[p]>> \in Effects]_vars

\* The revocation after a reused token survives the exception that reports it.
ReuseIsRevoked ==
    [][\A p \in Request :
          Ends(p) /\ route[p] = "refresh" /\ wrote[p] = "revocation" /\ conn[p] = "alive"
          => committed']_vars

\* A success is taken back, since the commit comes after it, only if the
\* connection is lost or if POST /users loses the race for an address.
SuccessIsKept ==
    [][\A p \in Request : Ends(p) /\ reply[p] \in {"200", "201", "204"} /\ ~committed'
          => conn[p] = "broken" \/ route[p] = "users"]_vars

LacksConnection(p) ==
    pc[p] = "connect" /\ pooled + stale = 0 /\ opened = PoolSize + MaxOverflow

\* p waits for a lock that q holds, if the database can still be reached.
WaitsFor(p, q) ==
    /\ p # q
    /\ conn[p] = "alive"
    /\ Needed(p) # Null
    /\ owner[Needed(p)] = q

\* The pool and the row locks together never block for good: there are no
\* requests of which each waits for another of them, be it for a lock or
\* because these requests hold every connection, and no connection is ever
\* waited for that nobody holds.
NoDeadlock ==
    ~ \E S \in SUBSET Request :
        /\ S # {}
        /\ \A p \in S : \/ LacksConnection(p) /\ Held \subseteq S
                       \/ \E q \in S : WaitsFor(p, q)

\* Every request ends, even if the pool's timeout never comes: who holds what
\* others wait for may wait in turn, but for a row further down the family and
\* never for a connection.
RequestsEnd == \A p \in Request : pc[p] # "idle" ~> pc[p] = "idle"

-----------------------------------------------------------------------------
(* The inductive invariant.                                                *)

\* What a request holds, and what its answer has been settled to be.
RequestState(p) ==
    /\ pc[p] \in {"idle", "connect"} => conn[p] = Null
    /\ pc[p] \in {"lookup", "hash", "write", "update", "replied"} => route[p] \in Route
    /\ pc[p] = "update" \/ sought[p] # 0 => route[p] \in OfSession
    /\ pc[p] \notin {"replied", "raised"} => wrote[p] = Null
    /\ pc[p] = "raised" =>
         /\ reply[p] \in {"401", "409", "500"}
         /\ ~(route[p] = "refresh" /\ wrote[p] = "revocation")
    /\ pc[p] = "replied" /\ wrote[p] # Null => <<route[p], reply[p], wrote[p]>> \in Effects

RequestStates == \A p \in Request : RequestState(p)

\* The pool, and an application that has stopped.
PoolState ==
    /\ IsFiniteSet(Held)
    /\ opened = pooled + stale + Cardinality(Held)
    /\ opened <= PoolSize + MaxOverflow
    /\ pooled + stale <= PoolSize
    /\ ~serving => opened = 0 /\ \A p \in Request : pc[p] = "idle"

\* For NoDeadlock: who holds a lock has nothing left but to end, or holds a row
\* and needs at most a later one.
Advances(p, l) ==
    \/ pc[p] \in {"replied", "raised"} /\ route[p] \notin InsertsAtCommit
    \/ pc[p] = "update" /\ l[1] = "row" /\ (sought[p] = 0 \/ sought[p] > l[2])

OwnersAdvance == \A l \in Locks, p \in Request : owner[l] = p => Advances(p, l)

IInv == TypeOK /\ RequestStates /\ PoolState /\ RestartHurtsOnlyOpenTransactions

=============================================================================
