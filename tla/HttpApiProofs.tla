----------------------------- MODULE HttpApiProofs -----------------------------
(***************************************************************************)
(* HttpApi, for every number of requests and every size of the pool, with  *)
(* restarts of the database at any time: types, the accounts of the pool,  *)
(* what a restart can hurt, that answers and commits agree, and that the   *)
(* pool and the row locks never block each other for good.                 *)
(***************************************************************************)
EXTENDS HttpApi, FiniteSetTheorems, LeastNumber

Written == {"user", "registration", "session", "replacement", "rotation", "revocation", Null}

\* An exception, caught or not, is answered with an error.
LEMMA StatusOfError ==
    ASSUME NEW r, NEW e, e # Null
    PROVE  StatusOf(r, e) \in {"401", "409", "500"}
BY DEF StatusOf

\* What the outcomes of the use cases have in common: those that a route
\* answers are among Effects, those it lets through are errors and never the
\* revocation after a reused token.
LEMMA OutcomeShape ==
    ASSUME NEW r \in Route, NEW o \in Outcomes(r)
    PROVE  /\ o[2] \in Written
           /\ StatusOf(r, o[1]) \in {"200", "201", "204", "401", "409", "500"}
           /\ o[1] \in Caught(r) \cup {Null} /\ o[2] # Null =>
                <<r, StatusOf(r, o[1]), o[2]>> \in Effects
           /\ o[1] \notin Caught(r) \cup {Null} =>
                ~(r = "refresh" /\ o[2] = "revocation")
<1> USE NullAssumption DEF Outcomes, Caught, StatusOf, Effects, Written
<1>1. CASE r = "users"
  BY <1>1
<1>2. CASE r = "register"
  BY <1>2
<1>3. CASE r = "login"
  BY <1>3
<1>4. CASE r = "refresh"
  BY <1>4
<1>5. CASE r = "logout"
  BY <1>5
<1>6. CASE r = "me"
  BY <1>6
<1> QED BY <1>1, <1>2, <1>3, <1>4, <1>5, <1>6 DEF Route

LEMMA DecidedIsOutcome ==
    ASSUME NEW stage \in {"lookup", "hash", "write", "update"}, NEW r \in Route, NEW row,
           NEW o \in DecidedAt(stage, r, row), stage = "update" => r \in OfSession
    PROVE  o \in Outcomes(r)
<1>1. CASE stage = "lookup"
  BY <1>1 DEF DecidedAt, Outcomes, Route
<1>2. CASE stage = "update"
  <2>1. CASE r = "refresh"
    BY <1>2, <2>1 DEF DecidedAt, Outcomes
  <2>2. CASE r = "logout"
    BY <1>2, <2>2 DEF DecidedAt, Outcomes
  <2>3. QED
    BY <1>2, <2>1, <2>2 DEF OfSession
<1>3. CASE stage \in {"hash", "write"}
  BY <1>3 DEF DecidedAt, Outcomes, Route
<1>4. QED
  BY <1>1, <1>2, <1>3

LEMMA InitIInv == Init => IInv
<1> SUFFICES ASSUME Init PROVE IInv
  OBVIOUS
<1>1. Held = {}
  BY DEF Init, Held
<1>2. IsFiniteSet(Held) /\ Cardinality(Held) = 0
  BY <1>1, FS_EmptySet
<1>3. PoolState
  BY <1>2, PoolAssumption DEF Init, PoolState
<1>4. TypeOK /\ RequestStates /\ RestartHurtsOnlyOpenTransactions
  BY NullAssumption DEF Init, TypeOK, RequestStates, RequestState,
     RestartHurtsOnlyOpenTransactions
<1> QED BY <1>3, <1>4 DEF IInv

-----------------------------------------------------------------------------
\* A step that leaves a request alone leaves its state as it was.
LEMMA StateKept ==
    ASSUME NEW q \in Request, RequestState(q), pc'[q] = pc[q], route'[q] = route[q],
           conn'[q] = conn[q] \/ (conn[q] # Null /\ conn'[q] # Null),
           wrote'[q] = wrote[q], reply'[q] = reply[q], sought'[q] = sought[q]
    PROVE  RequestState(q)'
BY DEF RequestState

\* While a request runs, so does the application.
LEMMA Running ==
    ASSUME IInv, NEW p \in Request, pc[p] # "idle"
    PROVE  serving
BY DEF IInv, PoolState

\* A step that takes no connection and gives none back leaves the pool alone.
LEMMA PoolKept ==
    ASSUME IInv, serving, UNCHANGED <<serving, conn, pooled, stale, opened, hit>>
    PROVE  PoolState' /\ RestartHurtsOnlyOpenTransactions'
<1>1. Held' = Held
  BY DEF Held
<1> QED BY <1>1 DEF IInv, PoolState, RestartHurtsOnlyOpenTransactions

LEMMA QuietKeeps ==
    ASSUME IInv, NEW p \in Request, Begin(p) \/ GoOn(p) \/ Hash(p)
    PROVE  IInv'
<1> USE DEF Begin, GoOn, Hash, Step, pool, world
<1>1. serving /\ UNCHANGED <<serving, conn, pooled, stale, opened, hit>>
  BY Running
<1>2. TypeOK'
  BY DEF IInv, TypeOK
<1>3. RequestStates'
  <2> SUFFICES ASSUME NEW q \in Request PROVE RequestState(q)'
    BY DEF RequestStates
  <2>1. CASE q = p
    BY <2>1 DEF IInv, TypeOK, RequestStates, RequestState
  <2>2. CASE q # p
    BY <2>2, StateKept DEF IInv, TypeOK, RequestStates
  <2> QED BY <2>1, <2>2
<1> QED BY <1>1, <1>2, <1>3, PoolKept DEF IInv

\* What a request needs next is one of the locks.
LEMMA NeededIsLock ==
    ASSUME TypeOK, NEW p \in Request
    PROVE  Needed(p) # Null => Needed(p) \in Locks
BY DEF TypeOK, Needed, Locks

LEMMA AcquireTypeOK ==
    ASSUME TypeOK, NEW p \in Request, Acquire(p)
    PROVE  owner' \in [Locks -> Request \cup {Null}]
BY NeededIsLock DEF TypeOK, Acquire

LEMMA FindFamilyKeeps ==
    ASSUME IInv, NEW p \in Request, FindFamily(p)
    PROVE  IInv'
<1> USE DEF FindFamily, Step, pool, world
<1>1. serving /\ UNCHANGED <<serving, conn, pooled, stale, opened, hit, route, wrote, reply>>
  BY Running
<1>2. PICK row \in Row \cup {0} : sought' = [sought EXCEPT ![p] = row]
  BY DEF Reached
<1>3. owner' \in [Locks -> Request \cup {Null}]
  BY AcquireTypeOK DEF IInv
<1>4. TypeOK'
  BY <1>1, <1>2, <1>3 DEF IInv, TypeOK
<1>5. RequestStates'
  <2> SUFFICES ASSUME NEW q \in Request PROVE RequestState(q)'
    BY DEF RequestStates
  <2>1. CASE q = p
    BY <2>1, <1>1, <1>2 DEF IInv, TypeOK, RequestStates, RequestState
  <2>2. CASE q # p
    BY <2>2, <1>1, <1>2, StateKept DEF IInv, TypeOK, RequestStates
  <2> QED BY <2>1, <2>2
<1> QED BY <1>1, <1>4, <1>5, PoolKept DEF IInv

LEMMA RaiseKeeps ==
    ASSUME IInv, NEW p \in Request, PoolTimeout(p) \/ StatementFails(p)
    PROVE  IInv'
<1> USE DEF PoolTimeout, StatementFails, pool, world
<1>1. serving /\ UNCHANGED <<serving, conn, pooled, stale, opened, hit, route, wrote, owner>>
  BY Running
<1>2. PICK status \in {"401", "409", "500"} :
        pc' = [pc EXCEPT ![p] = "raised"] /\ reply' = [reply EXCEPT ![p] = status]
  BY StatusOfError, NullAssumption DEF Raise
<1>6. sought' = sought \/ sought' = [sought EXCEPT ![p] = 0]
  OBVIOUS
<1>3. wrote[p] = Null
  BY DEF IInv, RequestStates, RequestState
<1>4. TypeOK'
  BY <1>1, <1>2, <1>6 DEF IInv, TypeOK
<1>5. RequestStates'
  <2> SUFFICES ASSUME NEW q \in Request PROVE RequestState(q)'
    BY DEF RequestStates
  <2>1. CASE q = p
    BY <2>1, <1>1, <1>2, <1>3, <1>6, NullAssumption DEF IInv, TypeOK, RequestStates, RequestState
  <2>2. CASE q # p
    BY <2>2, <1>1, <1>2, <1>6, StateKept DEF IInv, TypeOK, RequestStates
  <2> QED BY <2>1, <2>2
<1> QED BY <1>1, <1>4, <1>5, PoolKept DEF IInv

\* The use case has returned or raised.
LEMMA FinishKeeps ==
    ASSUME IInv, NEW p \in Request, NEW o, Finish(p, o), o \in Outcomes(route[p]),
           pc[p] \in {"lookup", "hash", "write", "update"},
              owner' \in [Locks -> Request \cup {Null}],
           UNCHANGED <<pool, world>>
    PROVE  IInv'
<1>1. route[p] \in Route
  BY DEF IInv, RequestStates, RequestState
<1>2. serving /\ UNCHANGED <<serving, conn, pooled, stale, opened, hit, route>>
  BY Running DEF pool, world, Finish
<1>3. PICK status \in {"200", "201", "204", "401", "409", "500"}, to \in {"replied", "raised"} :
        /\ pc' = [pc EXCEPT ![p] = to]
        /\ reply' = [reply EXCEPT ![p] = status]
        /\ to = "raised" => status \in {"401", "409", "500"}
        /\ to = "raised" => ~(route[p] = "refresh" /\ o[2] = "revocation")
        /\ to = "replied" /\ o[2] # Null => <<route[p], status, o[2]>> \in Effects
  <2>1. CASE o[1] \in Caught(route[p]) \cup {Null}
    BY <2>1, <1>1, OutcomeShape DEF Finish
  <2>2. CASE o[1] \notin Caught(route[p]) \cup {Null}
    BY <2>2, <1>1, OutcomeShape, StatusOfError DEF Finish, Raise
  <2> QED BY <2>1, <2>2
<1>4. wrote' = [wrote EXCEPT ![p] = o[2]] /\ o[2] \in Written /\ sought' = [sought EXCEPT ![p] = 0]
  BY <1>1, OutcomeShape DEF Finish
<1>5. TypeOK'
  BY <1>2, <1>3, <1>4 DEF IInv, TypeOK, Written
<1>6. RequestStates'
  <2> SUFFICES ASSUME NEW q \in Request PROVE RequestState(q)'
    BY DEF RequestStates
  <2>1. CASE q = p
    BY <2>1, <1>1, <1>2, <1>3, <1>4 DEF IInv, TypeOK, RequestState
  <2>2. CASE q # p
    BY <2>2, <1>2, <1>3, <1>4, StateKept DEF IInv, TypeOK, RequestStates
  <2> QED BY <2>1, <2>2
<1> QED BY <1>2, <1>5, <1>6, PoolKept DEF IInv

LEMMA ExecuteKeeps ==
    ASSUME IInv, NEW p \in Request, Execute(p)
    PROVE  IInv'
<1>1. /\ pc[p] \in {"lookup", "write", "update"} /\ route[p] \in Route
      /\ pc[p] = "update" => route[p] \in OfSession
  BY DEF Execute, IInv, RequestStates, RequestState
<1>2. PICK o \in DecidedAt(pc[p], route[p], sought[p]) : Finish(p, o)
  BY DEF Execute
<1>3. o \in Outcomes(route[p])
  BY <1>1, DecidedIsOutcome
<1>4. owner' \in [Locks -> Request \cup {Null}]
  BY AcquireTypeOK DEF Execute, IInv
<1> QED BY <1>1, <1>2, <1>3, <1>4, FinishKeeps DEF Execute

LEMMA HashRejectsKeeps ==
    ASSUME IInv, NEW p \in Request, HashRejects(p)
    PROVE  IInv'
<1>1. pc[p] = "hash" /\ route[p] \in Route
  BY DEF HashRejects, IInv, RequestStates, RequestState
<1>2. PICK o \in DecidedAt("hash", route[p], 0) : Finish(p, o)
  BY DEF HashRejects
<1>3. o \in Outcomes(route[p])
  BY <1>1, DecidedIsOutcome
<1> QED BY <1>1, <1>2, <1>3, FinishKeeps DEF HashRejects, IInv, TypeOK

-----------------------------------------------------------------------------
LEMMA ConnectKeeps ==
    ASSUME IInv, NEW p \in Request, Connect(p)
    PROVE  IInv'
<1> USE DEF Connect, Step, world
<1>10. PICK r \in Route, row \in Row \cup {0} :
         /\ row # 0 => r \in OfSession
         /\ route' = [route EXCEPT ![p] = r]
         /\ sought' = [sought EXCEPT ![p] = row]
  OBVIOUS
<1>1. serving /\ serving' /\ hit' = hit
  BY Running DEF IInv, TypeOK
<1>2. conn[p] = Null /\ p \notin Held
  BY DEF IInv, RequestStates, RequestState, Held
<1>3. conn' = [conn EXCEPT ![p] = "alive"]
  BY DEF TakeStale
<1>4. Held' = Held \cup {p}
  BY <1>3, NullAssumption DEF IInv, TypeOK, Held
<1>5. /\ IsFiniteSet(Held) /\ IsFiniteSet(Held') /\ Cardinality(Held) \in Nat
      /\ Cardinality(Held') = Cardinality(Held) + 1
  BY <1>2, <1>4, FS_AddElement, FS_CardinalityType DEF IInv, PoolState
<1>6. PoolState'
  BY <1>1, <1>5, PoolAssumption DEF IInv, TypeOK, PoolState
<1>7. TypeOK'
  BY <1>3, <1>10 DEF IInv, TypeOK
<1>8. RequestStates'
  <2> SUFFICES ASSUME NEW q \in Request PROVE RequestState(q)'
    BY DEF RequestStates
  <2>1. CASE q = p
    BY <2>1, <1>10 DEF IInv, TypeOK, RequestStates, RequestState
  <2>2. CASE q # p
    BY <2>2, <1>3, <1>10, StateKept DEF IInv, TypeOK, RequestStates
  <2> QED BY <2>1, <2>2
<1>9. RestartHurtsOnlyOpenTransactions'
  BY <1>1, <1>3 DEF IInv, TypeOK, RestartHurtsOnlyOpenTransactions
<1> QED BY <1>6, <1>7, <1>8, <1>9 DEF IInv

\* What a transaction held, it gives back; nobody else is concerned.
LEMMA EndKeeps ==
    ASSUME IInv, NEW p \in Request, pc[p] # "idle", End(p)
    PROVE  IInv'
<1> USE DEF End, Return
<1>1. serving /\ serving'
  BY Running
<1>2. conn' = [conn EXCEPT ![p] = Null] /\ Held' = Held \ {p}
  BY DEF IInv, TypeOK, Held
<1>3. /\ IsFiniteSet(Held) /\ IsFiniteSet(Held') /\ Cardinality(Held) \in Nat
      /\ Cardinality(Held') = IF conn[p] # Null THEN Cardinality(Held) - 1 ELSE Cardinality(Held)
      /\ conn[p] # Null => Cardinality(Held) > 0
  <2>1. p \in Held <=> conn[p] # Null
    BY DEF Held
  <2>2. IsFiniteSet(Held)
    BY DEF IInv, PoolState
  <2>3. Cardinality(Held) = 0 => Held = {}
    BY <2>2, FS_EmptySet
  <2> QED BY <1>2, <2>1, <2>2, <2>3, FS_RemoveElement, FS_CardinalityType
<1>4. {pooled, stale, opened, pooled', stale', opened'} \subseteq Nat
  BY <1>3, PoolAssumption DEF IInv, TypeOK, PoolState
<1>5. PoolState'
  <2> DEFINE held == Cardinality(Held)
             held1 == Cardinality(Held')
  <2>1. /\ opened = pooled + stale + held
        /\ opened <= PoolSize + MaxOverflow
        /\ pooled + stale <= PoolSize
    BY DEF IInv, PoolState
  <2>2. held \in Nat /\ held1 = IF conn[p] # Null THEN held - 1 ELSE held
    BY <1>3
  <2>3. conn[p] \in {"alive", "broken", Null}
    BY DEF IInv, TypeOK
  <2> HIDE DEF held, held1
  <2>4. opened' = pooled' + stale' + held1
    <3>1. CASE conn[p] = Null
      BY <3>1, <1>4, <2>1, <2>2, NullAssumption, PoolAssumption
    <3>2. CASE conn[p] = "alive"
      BY <3>2, <1>4, <2>1, <2>2, NullAssumption, PoolAssumption
    <3>3. CASE conn[p] = "broken"
      BY <3>3, <1>4, <2>1, <2>2, NullAssumption, PoolAssumption
    <3> QED BY <2>3, <3>1, <3>2, <3>3
  <2>5. opened' <= PoolSize + MaxOverflow
    BY <1>4, <2>1, PoolAssumption
  <2>6. pooled' + stale' <= PoolSize
    BY <1>4, <2>1, PoolAssumption
  <2> QED BY <1>1, <1>3, <2>4, <2>5, <2>6 DEF PoolState, held1
<1>6. TypeOK'
  BY <1>2, <1>4 DEF IInv, TypeOK
<1>7. RequestStates'
  <2> SUFFICES ASSUME NEW q \in Request PROVE RequestState(q)'
    BY DEF RequestStates
  <2>1. CASE q = p
    BY <2>1 DEF IInv, TypeOK, RequestState
  <2>2. CASE q # p
    BY <2>2, <1>2, StateKept DEF IInv, TypeOK, RequestStates
  <2> QED BY <2>1, <2>2
<1>8. RestartHurtsOnlyOpenTransactions'
  BY <1>2, NullAssumption DEF IInv, TypeOK, RestartHurtsOnlyOpenTransactions
<1> QED BY <1>5, <1>6, <1>7, <1>8 DEF IInv

LEMMA RestartKeeps == IInv /\ Restart => IInv'
<1> SUFFICES ASSUME IInv, Restart PROVE IInv'
  OBVIOUS
<1> USE DEF Restart, local
<1>1. Held' = Held
  BY NullAssumption DEF IInv, TypeOK, Held
<1>2. PoolState'
  BY <1>1 DEF IInv, TypeOK, PoolState
<1>3. TypeOK'
  BY DEF IInv, TypeOK
<1>4. RequestStates'
  BY NullAssumption, StateKept DEF IInv, TypeOK, RequestStates
<1>5. RestartHurtsOnlyOpenTransactions'
  BY NullAssumption DEF IInv, TypeOK, RestartHurtsOnlyOpenTransactions
<1> QED BY <1>2, <1>3, <1>4, <1>5 DEF IInv

\* An application whose requests have ended holds no connection but the pooled ones.
LEMMA StopKeeps == IInv /\ Stop => IInv'
<1> SUFFICES ASSUME IInv, Stop PROVE IInv'
  OBVIOUS
<1> USE DEF Stop, Dispose, local
<1>1. Held = {} /\ Held' = Held
  BY DEF IInv, RequestStates, RequestState, Held
<1>2. Cardinality(Held) = 0 /\ opened' = 0
  BY <1>1, FS_EmptySet DEF IInv, PoolState, TypeOK
<1>3. PoolState'
  BY <1>1, <1>2, PoolAssumption DEF IInv, PoolState
<1>4. TypeOK'
  <2>1. ~serving' /\ {pooled', stale', opened'} \subseteq Nat
    BY <1>2
  <2>2. UNCHANGED <<pc, route, conn, wrote, reply, sought, owner, hit>>
    OBVIOUS
  <2> QED BY <2>1, <2>2 DEF IInv, TypeOK
<1>5. RequestStates' /\ RestartHurtsOnlyOpenTransactions'
  BY DEF IInv, RequestStates, RequestState, RestartHurtsOnlyOpenTransactions
<1> QED BY <1>3, <1>4, <1>5 DEF IInv

LEMMA StartKeeps == IInv /\ Start => IInv'
<1> SUFFICES ASSUME IInv, Start PROVE IInv'
  OBVIOUS
<1> USE DEF Start, local, pool
<1>1. Held' = Held
  BY DEF Held
<1> QED BY <1>1 DEF IInv, TypeOK, PoolState, RequestStates, RequestState,
         RestartHurtsOnlyOpenTransactions

LEMMA StutterKeeps == IInv /\ UNCHANGED vars => IInv'
<1> SUFFICES ASSUME IInv, UNCHANGED vars PROVE IInv'
  OBVIOUS
<1>1. Held' = Held
  BY DEF Held, vars
<1> QED BY <1>1 DEF vars, IInv, TypeOK, PoolState, RequestStates, RequestState,
         RestartHurtsOnlyOpenTransactions

LEMMA StepKeeps == IInv /\ [Next]_vars => IInv'
<1> SUFFICES ASSUME IInv, [Next]_vars PROVE IInv'
  OBVIOUS
<1>1. ASSUME NEW p \in Request, Begin(p) \/ Wait(p) \/ Run(p) \/ PoolTimeout(p)
      PROVE  IInv'
  <2>1. CASE Commit(p) \/ CommitFails(p) \/ Rollback(p)
    BY <2>1, EndKeeps DEF Commit, CommitFails, Rollback
  <2>2. CASE ~(Commit(p) \/ CommitFails(p) \/ Rollback(p))
    BY <1>1, <2>2, QuietKeeps, RaiseKeeps, FindFamilyKeeps, ExecuteKeeps, HashRejectsKeeps,
       ConnectKeeps
       DEF Wait, Run
  <2> QED BY <2>1, <2>2
<1> QED BY <1>1, RestartKeeps, StopKeeps, StartKeeps, StutterKeeps DEF Next

\* The inductive invariant holds in every reachable state.
THEOREM Invariance == Spec => []IInv
BY InitIInv, StepKeeps, PTL DEF Spec

\* Every variable keeps its type, for every number of requests and every pool.
THEOREM TypeCorrect == Spec => []TypeOK
<1>1. IInv => TypeOK
  BY DEF IInv
<1> QED BY Invariance, <1>1, PTL

\* The pool never leaks a connection, nor opens more than its settings allow.
THEOREM PoolAccounts == Spec => []PoolIsAccounted
<1>1. IInv => PoolIsAccounted
  BY DEF IInv, PoolState, RequestStates, RequestState, Held, PoolIsAccounted
<1> QED BY Invariance, <1>1, PTL

\* Only requests that were in a transaction lose it to a restart.
THEOREM RestartsAreContained == Spec => []RestartHurtsOnlyOpenTransactions
<1>1. IInv => RestartHurtsOnlyOpenTransactions
  BY DEF IInv
<1> QED BY Invariance, <1>1, PTL

-----------------------------------------------------------------------------
\* A request ends by a commit, a commit that fails, or a rollback.
LEMMA HowItEnds ==
    ASSUME IInv, Next, NEW p \in Request, Ends(p)
    PROVE  Commit(p) \/ CommitFails(p) \/ Rollback(p)
<1> USE DEF Ends
<1>1. ASSUME NEW q \in Request, q # p, Begin(q) \/ Wait(q) \/ Run(q) \/ PoolTimeout(q)
      PROVE  FALSE
  BY <1>1 DEF IInv, TypeOK, Begin, Step, Wait, Connect, FindFamily, Execute, Finish, Raise,
     Commit, CommitFails, End, Run, StatementFails, GoOn, Hash, HashRejects, Rollback, PoolTimeout
<1>2. ~(Restart \/ Stop \/ Start)
  BY DEF Restart, Stop, Start, local
<1>3. ~(Begin(p) \/ PoolTimeout(p) \/ StatementFails(p) \/ GoOn(p) \/ Hash(p)
        \/ Connect(p) \/ FindFamily(p))
  BY DEF IInv, TypeOK, Begin, Step, Connect, FindFamily, Raise, StatementFails, GoOn, Hash,
     PoolTimeout
<1>4. ~(HashRejects(p) \/ Execute(p))
  BY DEF IInv, TypeOK, Execute, HashRejects, Finish, Raise
<1> QED BY <1>1, <1>2, <1>3, <1>4 DEF Next, Wait, Run

\* What a request commits is what its answer says.
THEOREM AnswersMatchCommits == Spec => AnswerMatchesCommit
<1>1. ASSUME IInv, Next, NEW p \in Request, Ends(p), committed', wrote[p] # Null
      PROVE  <<route[p], reply[p], wrote[p]>> \in Effects
  BY <1>1, HowItEnds DEF IInv, RequestStates, RequestState, Commit, CommitFails, Rollback, NoCommit
<1>2. IInv /\ [Next]_vars =>
        [\A p \in Request : Ends(p) /\ committed' /\ wrote[p] # Null =>
            <<route[p], reply[p], wrote[p]>> \in Effects]_vars
  BY <1>1
<1> QED BY Invariance, <1>2, PTL DEF Spec, AnswerMatchesCommit

\* The revocation after a reused token is committed, unless the connection is lost.
THEOREM ReusesAreRevoked == Spec => ReuseIsRevoked
<1>1. ASSUME IInv, Next, NEW p \in Request, Ends(p), route[p] = "refresh",
             wrote[p] = "revocation", conn[p] = "alive"
      PROVE  committed'
  BY <1>1, HowItEnds, NullAssumption DEF IInv, RequestStates, RequestState, Commit, CommitFails,
     Rollback, Needed, InsertsAtCommit
<1>2. IInv /\ [Next]_vars =>
        [\A p \in Request :
            Ends(p) /\ route[p] = "refresh" /\ wrote[p] = "revocation" /\ conn[p] = "alive"
            => committed']_vars
  BY <1>1
<1> QED BY Invariance, <1>2, PTL DEF Spec, ReuseIsRevoked

\* A success is taken back only with the connection, or by POST /users.
THEOREM SuccessesAreKept == Spec => SuccessIsKept
<1>1. ASSUME IInv, Next, NEW p \in Request, Ends(p), reply[p] \in {"200", "201", "204"},
             ~committed'
      PROVE  conn[p] = "broken" \/ route[p] = "users"
  BY <1>1, HowItEnds DEF IInv, RequestStates, RequestState, Commit, CommitFails, Rollback,
     Needed, InsertsAtCommit
<1>2. IInv /\ [Next]_vars =>
        [\A p \in Request : Ends(p) /\ reply[p] \in {"200", "201", "204"} /\ ~committed'
            => conn[p] = "broken" \/ route[p] = "users"]_vars
  BY <1>1
<1> QED BY Invariance, <1>2, PTL DEF Spec, SuccessIsKept

-----------------------------------------------------------------------------
(* Who waits for whom.                                                     *)

LEMMA OwnersAdvanceInit == Init => OwnersAdvance
BY NullAssumption DEF Init, OwnersAdvance

\* A lock is taken by a statement that is the last of its use case, or by the
\* lookup before a revocation, which reaches for a later row; it is free again
\* when its owner has ended.
LEMMA OwnersAdvanceKept == IInv /\ OwnersAdvance /\ [Next]_vars => OwnersAdvance'
<1> SUFFICES ASSUME IInv, OwnersAdvance, [Next]_vars,
                    NEW l \in Locks, NEW q \in Request, owner'[l] = q
             PROVE  Advances(q, l)'
  BY DEF OwnersAdvance
<1> DEFINE Kept(p) == pc'[p] = pc[p] /\ route'[p] = route[p] /\ sought'[p] = sought[p]
<1>1. ASSUME owner[l] = q, Kept(q)
      PROVE  Advances(q, l)'
  BY <1>1 DEF OwnersAdvance, Advances
<1>2. ASSUME NEW p \in Request, End(p)
      PROVE  Advances(q, l)'
  <2>1. owner[l] = q /\ q # p
    BY <1>2, NullAssumption DEF End, IInv, TypeOK
  <2>2. Kept(q)
    BY <1>2, <2>1 DEF End, IInv, TypeOK
  <2>3. QED
    BY <1>1, <2>1, <2>2
\* The steps that may take a lock.
<1>3. ASSUME NEW p \in Request, Acquire(p), \A r \in Request \ {p} : Kept(r),
             l = Needed(p) \/ owner[l] = p => Advances(p, l)'
      PROVE  Advances(q, l)'
  <2>1. CASE q # p
    <3>1. owner[l] = q
      BY <1>3, <2>1 DEF Acquire, IInv, TypeOK
    <3>2. QED
      BY <1>1, <1>3, <2>1, <3>1
  <2>2. CASE q = p
    <3>1. l = Needed(p) \/ owner[l] = p
      BY <1>3, <2>2 DEF Acquire, IInv, TypeOK
    <3>2. QED
      BY <1>3, <2>2, <3>1
  <2>3. QED
    BY <2>1, <2>2
<1>4. ASSUME NEW p \in Request, Execute(p)
      PROVE  Advances(q, l)'
  <2>1. pc'[p] \in {"replied", "raised"} /\ route' = route /\ \A r \in Request \ {p} : Kept(r)
    BY <1>4 DEF Execute, Finish, Raise, IInv, TypeOK
  <2>2. ASSUME l = Needed(p) \/ owner[l] = p PROVE Advances(p, l)'
    <3>1. CASE l = Needed(p)
      <4>1. route[p] # "users"
        BY <1>4, <3>1, NullAssumption
           DEF Execute, Needed, IInv, RequestStates, RequestState, OfSession
      <4>2. QED
        BY <2>1, <4>1 DEF Advances, InsertsAtCommit
    <3>2. CASE owner[l] = p
      <4>1. pc[p] = "update"
        BY <1>4, <3>2 DEF OwnersAdvance, Advances, Execute
      <4>2. QED
        BY <2>1, <4>1 DEF Advances, InsertsAtCommit, IInv, RequestStates, RequestState, OfSession
    <3>3. QED
      BY <2>2, <3>1, <3>2
  <2>3. QED
    BY <1>3, <1>4, <2>1, <2>2 DEF Execute
<1>5. ASSUME NEW p \in Request, FindFamily(p)
      PROVE  Advances(q, l)'
  <2>1. /\ pc' = [pc EXCEPT ![p] = "update"] /\ route' = route
        /\ sought'[p] = 0 \/ sought'[p] > sought[p]
        /\ \A r \in Request \ {p} : Kept(r)
    BY <1>5 DEF FindFamily, Step, Reached, IInv, TypeOK
  <2>2. pc'[p] = "update" /\ Needed(p) = <<"row", sought[p]>>
    BY <1>5, <2>1 DEF FindFamily, Step, Needed, IInv, TypeOK
  <2>3. owner[l] # p
    BY <1>5 DEF FindFamily, Step, OwnersAdvance, Advances
  <2>4. l = Needed(p) \/ owner[l] = p => Advances(p, l)'
    BY <2>1, <2>2, <2>3 DEF Advances
  <2>5. QED
    BY <1>3, <1>5, <2>1, <2>4 DEF FindFamily
<1>6. ASSUME UNCHANGED owner, NEW p \in Request, pc[p] \notin {"replied", "raised", "update"},
             \A r \in Request \ {p} : Kept(r)
      PROVE  Advances(q, l)'
  <2>1. q # p
    BY <1>6 DEF OwnersAdvance, Advances
  <2>2. QED
    BY <1>1, <1>6, <2>1
<1>7. ASSUME NEW p \in Request, Begin(p) \/ GoOn(p) \/ Hash(p) \/ Connect(p)
      PROVE  Advances(q, l)'
  <2>1. UNCHANGED owner /\ pc[p] \in {"idle", "lookup", "hash", "connect"}
    BY <1>7 DEF Begin, GoOn, Hash, Connect, Step
  <2>2. \A r \in Request \ {p} : Kept(r)
    BY <1>7 DEF Begin, GoOn, Hash, Connect, Step, IInv, TypeOK
  <2>3. QED
    BY <1>6, <2>1, <2>2
<1>8. ASSUME NEW p \in Request, PoolTimeout(p) \/ HashRejects(p)
      PROVE  Advances(q, l)'
  <2>1. UNCHANGED owner /\ pc[p] \in {"connect", "hash"}
    BY <1>8 DEF PoolTimeout, HashRejects
  <2>2. \A r \in Request \ {p} : Kept(r)
    BY <1>8 DEF PoolTimeout, HashRejects, Finish, Raise, IInv, TypeOK
  <2>3. QED
    BY <1>6, <2>1, <2>2
<1>9. ASSUME NEW p \in Request, StatementFails(p)
      PROVE  Advances(q, l)'
  <2>1. /\ UNCHANGED <<owner, route>> /\ pc[p] \in {"lookup", "write", "update"}
        /\ pc'[p] = "raised" /\ \A r \in Request \ {p} : Kept(r)
    BY <1>9 DEF StatementFails, Raise, IInv, TypeOK
  <2>2. CASE q = p
    <3>1. pc[p] = "update"
      BY <2>1, <2>2 DEF OwnersAdvance, Advances
    <3>2. route[p] \notin InsertsAtCommit
      BY <3>1 DEF IInv, RequestStates, RequestState, OfSession, InsertsAtCommit
    <3>3. QED
      BY <2>1, <2>2, <3>2 DEF Advances
  <2>3. CASE q # p
    BY <1>1, <2>1, <2>3
  <2>4. QED
    BY <2>2, <2>3
<1>10. CASE Restart
  BY <1>10, NullAssumption DEF Restart
<1>11. CASE Stop \/ Start \/ UNCHANGED vars
  BY <1>1, <1>11 DEF Stop, Start, local, vars
<1>12. QED
  BY <1>2, <1>4, <1>5, <1>7, <1>8, <1>9, <1>10, <1>11
     DEF Next, Wait, Run, Commit, CommitFails, Rollback

\* The owner of a lock waits only while it revokes, for a row beyond this lock.
LEMMA OwnersWaitAhead ==
    ASSUME IInv, OwnersAdvance, NEW l \in Locks, NEW q \in Request, owner[l] = q,
           NEW r \in Request, WaitsFor(q, r)
    PROVE  /\ pc[q] = "update" /\ sought[q] \in Row
           /\ owner[<<"row", sought[q]>>] = r
           /\ l[1] = "row" /\ sought[q] > l[2]
<1>1. CASE pc[q] \in {"replied", "raised"} /\ route[q] \notin InsertsAtCommit
  BY <1>1 DEF WaitsFor, Needed
<1>2. CASE pc[q] = "update" /\ l[1] = "row" /\ (sought[q] = 0 \/ sought[q] > l[2])
  <2>1. sought[q] # 0
    BY <1>2 DEF WaitsFor, Needed
  <2>2. sought[q] \in Row /\ Needed(q) = <<"row", sought[q]>>
    BY <1>2, <2>1 DEF Needed, IInv, TypeOK
  <2>3. QED
    BY <1>2, <2>1, <2>2 DEF WaitsFor
<1>3. QED
  BY <1>1, <1>2 DEF OwnersAdvance, Advances

\* Of requests that block each other, somebody holds a lock and waits, as the
\* holder of a connection does; the one of them that waits for the latest row
\* waits for an owner that waits for a later one.
LEMMA Unblocked == IInv /\ OwnersAdvance => NoDeadlock
<1> SUFFICES ASSUME IInv, OwnersAdvance, NEW S \in SUBSET Request, S # {},
                    \A p \in S : \/ LacksConnection(p) /\ Held \subseteq S
                                \/ \E q \in S : WaitsFor(p, q)
             PROVE  FALSE
  BY DEF NoDeadlock
<1> DEFINE Updaters == {p \in S : pc[p] = "update" /\ sought[p] \in Row /\
                                   \E q \in S : owner[<<"row", sought[p]>>] = q}
           Left == {Chain - sought[p] : p \in Updaters}
\* Somebody waits for a lock.
<1>1. \E p \in S, q \in S : WaitsFor(p, q)
  <2> SUFFICES ASSUME \A p \in S : LacksConnection(p) /\ Held \subseteq S PROVE FALSE
    OBVIOUS
  <2>1. PICK p \in S : LacksConnection(p)
    OBVIOUS
  <2>2. /\ opened = PoolSize + MaxOverflow /\ pooled + stale = 0
        /\ opened = pooled + stale + Cardinality(Held)
    BY <2>1 DEF LacksConnection, IInv, PoolState
  <2>3. Held # {}
    BY <2>2, FS_EmptySet, PoolAssumption
  <2>4. PICK q \in Held : LacksConnection(q)
    BY <2>3
  <2>5. QED
    BY <2>4 DEF Held, LacksConnection, IInv, RequestStates, RequestState
\* Who holds a lock and is in S waits for a lock, and so is an updater.
<1>2. ASSUME NEW l \in Locks, NEW q \in S, owner[l] = q
      PROVE  q \in Updaters /\ l[1] = "row" /\ sought[q] > l[2]
  <2>1. pc[q] # "connect"
    BY <1>2 DEF OwnersAdvance, Advances
  <2>2. PICK r \in S : WaitsFor(q, r)
    BY <2>1 DEF LacksConnection
  <2>3. QED
    BY <1>2, <2>2, OwnersWaitAhead
<1>3. Updaters # {}
  <2>1. PICK p \in S, q \in S : WaitsFor(p, q)
    BY <1>1
  <2>2. Needed(p) \in Locks /\ owner[Needed(p)] = q
    BY <2>1, NeededIsLock DEF WaitsFor, IInv
  <2>3. QED
    BY <1>2, <2>2
<1>4. Left # {} /\ Left \subseteq Nat
  <2>1. \A p \in Updaters : Chain - sought[p] \in Nat
    BY ChainAssumption DEF Row
  <2>2. QED
    BY <1>3, <2>1
<1>5. PICK m \in Left : \A n \in Left : m <= n
  BY <1>4, LeastElement
<1>6. PICK p \in Updaters : m = Chain - sought[p]
  BY <1>5
<1>7. PICK q \in S : owner[<<"row", sought[p]>>] = q
  BY <1>6
<1>8. <<"row", sought[p]>> \in Locks
  BY <1>6 DEF Locks
<1>9. q \in Updaters /\ sought[q] > sought[p]
  BY <1>2, <1>7, <1>8
<1>10. Chain - sought[q] \in Left /\ sought[p] \in Row /\ sought[q] \in Row
  BY <1>6, <1>9
<1>11. Chain - sought[p] <= Chain - sought[q]
  BY <1>5, <1>6, <1>10
<1>12. QED
  BY <1>9, <1>10, <1>11, ChainAssumption DEF Row

\* Connections and row locks never block each other for good, however small the
\* pool, however many the requests and however long the family: a revocation
\* that holds the row of its token waits only for later rows, so that of those
\* that wait, the one that waits for the latest row waits for one that runs.
THEOREM NeverBlocked == Spec => []NoDeadlock
BY OwnersAdvanceInit, OwnersAdvanceKept, Unblocked, Invariance, PTL DEF Spec

=============================================================================
