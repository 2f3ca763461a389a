------------------------- MODULE AuthenticationProofs -------------------------
(***************************************************************************)
(* Authentication implements both modules it is composed of, so that what  *)
(* has been proved about families of tokens and about stored credentials   *)
(* holds of the two together; and the two properties that need both sides. *)
(***************************************************************************)
EXTENDS Authentication, RefreshSessionsProofs

PLP == INSTANCE PasswordLoginProofs WITH
    active <- Account \in active,
    owner <- row_owner,
    staged <- row_staged,
    pc <- login_pc,
    Admin <- Admin,
    MayDeactivate <- TRUE,
    MayFail <- TRUE

-----------------------------------------------------------------------------
(* The composition implements RefreshSessions.                             *)

LEMMA StepIsRefresh == [AuthNext]_allvars => [Next]_vars
<1> SUFFICES ASSUME [AuthNext]_allvars PROVE [Next]_vars
  OBVIOUS
<1>1. CASE UNCHANGED allvars
  BY <1>1 DEF allvars
<1>2. ASSUME NEW p \in Request, \/ \E a \in PL!Attempt : BeginLogin(p, a)
                                \/ PasswordStep(p) \/ RehashStep(p) \/ NoSessionLeft(p)
      PROVE  UNCHANGED vars
  BY <1>2 DEF BeginLogin, PasswordStep, RehashStep, NoSessionLeft
<1>3. ASSUME NEW p \in Request, NEW s \in Session, OpenSession(p, s)
      PROVE  Next
  BY <1>3, AccountAssumption DEF OpenSession, Arrive, Next
<1>4. ASSUME NEW p \in Request, AnswerLogin(p) \/ CommitLogin(p) \/ OtherStep(p)
      PROVE  Next
  BY <1>4 DEF AnswerLogin, CommitLogin, OtherStep, Run, Next
<1>5. ASSUME NEW p \in Request, NEW o \in {"refresh", "logout"}, NEW t \in delivered \cup {Null},
             BeginOther(p, o, t)
      PROVE  Next
  BY <1>5 DEF BeginOther, Arrive, Next
<1>6. ASSUME NEW p \in Request, Crash(p)
      PROVE  [Next]_vars
  BY <1>6 DEF Crash, Fault, Next
<1>7. ASSUME NEW a \in Admin, Revocation(a)
      PROVE  UNCHANGED vars
  BY <1>7 DEF Revocation
<1>8. QED
  BY <1>1, <1>2, <1>3, <1>4, <1>5, <1>6, <1>7 DEF AuthNext, Steps, Next

\* Every behaviour of the composition is one of RefreshSessions: its
\* invariants, its action properties and its refinement carry over.
THEOREM ImplementsRefresh == AuthSpec => Spec
<1>1. AuthInit => Init
  BY DEF AuthInit
<1>2. QED
  BY <1>1, StepIsRefresh, PTL DEF AuthSpec, Spec

-----------------------------------------------------------------------------
(* The composition implements PasswordLogin.                               *)

\* Neither the steps of a session nor those of a request without a password
\* touch what PasswordLogin sees.
LEMMA OthersLeaveWorld ==
    ASSUME NEW p \in Request, Run(p) \/ Lock(p) \/ Abort(p)
                              \/ (\E s \in Session : Login(p, Account, s))
                              \/ (\E o, t : Begin(p, o, t))
    PROVE  UNCHANGED <<clock, active>>
BY DEF Run, Lock, Abort, Login, Begin, world, LookupHit, RevokeRow, SkipRow, RevokeRowRejected,
   LookupMiss, RejectEnded, DetectReuse, AcceptToken, RejectUser, LoadUser, SaveReplacement,
   IdentifiersExhausted, HashRaises, SaveRotated, RotateRaises, IssueTokens, LogoutFound,
   RevokeFamily, RevokeDone, Commit

LEMMA StepIsLogin == [AuthNext]_allvars => [PL!Next]_(PL!vars)
<1> SUFFICES ASSUME [AuthNext]_allvars PROVE [PL!Next]_(PL!vars)
  OBVIOUS
<1>1. UNCHANGED <<password, clock, active>> => UNCHANGED PL!vars
  BY DEF password, PL!vars
<1>2. CASE UNCHANGED allvars
  BY <1>1, <1>2 DEF allvars, vars, world
<1>3. ASSUME NEW p \in Request, NEW a \in PL!Attempt, BeginLogin(p, a)
      PROVE  PL!Next
  BY <1>3 DEF BeginLogin, PL!Next
<1>4. ASSUME NEW p \in Request, PasswordStep(p) \/ RehashStep(p)
      PROVE  PL!Next
  BY <1>4 DEF PasswordStep, RehashStep, PL!Next
<1>5. ASSUME NEW p \in Request, AnswerLogin(p) \/ CommitLogin(p)
      PROVE  PL!Next
  BY <1>5 DEF AnswerLogin, CommitLogin, PL!Run, PL!Next
<1>6. ASSUME NEW p \in Request, NoSessionLeft(p)
      PROVE  PL!Next
  BY <1>6 DEF NoSessionLeft, PL!Fault, PL!Next
<1>7. ASSUME NEW p \in Request,
             \/ \E s \in Session : OpenSession(p, s)
             \/ \E o \in {"refresh", "logout"}, t \in delivered \cup {Null} : BeginOther(p, o, t)
             \/ OtherStep(p)
      PROVE  UNCHANGED PL!vars
  BY <1>1, <1>7, OthersLeaveWorld DEF OpenSession, BeginOther, OtherStep
<1>8. ASSUME NEW p \in Request, Crash(p)
      PROVE  [PL!Next]_(PL!vars)
  <2>1. CASE login_pc[p] # "idle"
    BY <1>8, <2>1 DEF Crash, PL!Fault, PL!Next
  <2>2. CASE login_pc[p] = "idle"
    BY <1>1, <1>8, <2>2, OthersLeaveWorld DEF Crash, vars, world
  <2>3. QED
    BY <2>1, <2>2
<1>9. ASSUME Tick \/ StepBack, UNCHANGED password
      PROVE  PL!Next
  BY <1>9 DEF Tick, StepBack, password, PL!Tick, PL!StepBack, PL!local, PL!Next
<1>10. ASSUME NEW u \in User, Deactivate(u) \/ Reactivate(u), UNCHANGED password
       PROVE  [PL!Next]_(PL!vars)
  <2>1. CASE u = Account
    <3>1. (Account \in active)' = ~(Account \in active)
      BY <1>10, <2>1 DEF Deactivate, Reactivate
    <3>2. UNCHANGED clock
      BY <1>10 DEF Deactivate, Reactivate
    <3>3. PL!SetStatus
      BY <1>10, <3>1, <3>2 DEF password, PL!SetStatus, PL!local
    <3>4. QED
      BY <3>3 DEF PL!Next
  <2>2. CASE u # Account
    <3>1. (Account \in active') <=> (Account \in active)
      BY <1>10, <2>2 DEF Deactivate, Reactivate
    <3>2. UNCHANGED clock
      BY <1>10 DEF Deactivate, Reactivate
    <3>3. UNCHANGED PL!vars
      BY <1>10, <3>1, <3>2 DEF password, PL!vars
    <3>4. QED
      BY <3>3
  <2>3. QED
    BY <2>1, <2>2
<1>11. ASSUME NEW a \in Admin, Revocation(a)
       PROVE  PL!Next
  BY <1>11 DEF Revocation, PL!Next
<1>12. QED
  BY <1>2, <1>3, <1>4, <1>5, <1>6, <1>7, <1>8, <1>9, <1>10, <1>11 DEF AuthNext, Steps, Environment

\* Every behaviour of the composition is one of PasswordLogin.
THEOREM ImplementsLogin == AuthSpec => PL!Spec
<1>1. AuthInit => PL!Init
  BY DEF AuthInit
<1>2. QED
  BY <1>1, StepIsLogin, PTL DEF AuthSpec, PL!Spec

-----------------------------------------------------------------------------
(* What PasswordLoginProofs shows of PasswordLogin holds here.             *)

LEMMA Assumptions ==
    /\ PLP!ClockAssumption /\ PLP!FlagsAssumption
    /\ PLP!NullAssumption /\ PLP!NoCredentialAssumption
BY ClockAssumption, NullAssumption, DataAssumption
   DEF PLP!Credential, PL!Credential, PLP!Hash, PL!Hash

\* The two instances are of the same module, so they say the same.
LEMMA SameModule == PL!Spec => PLP!Spec
<1>1. PL!Init => PLP!Init
  BY SMTT(30) DEF PL!Init, PLP!Init, PL!create, PLP!create
<1>2. [PL!Next]_(PL!vars) => [PLP!Next]_(PLP!vars)
  <2>1. \A c, pw, at : PL!replace_password_hash(c, pw, at)
                       = PLP!replace_password_hash(c, pw, at)
    BY DEF PL!replace_password_hash, PLP!replace_password_hash
  <2>2. ASSUME NEW p \in Request,
               (\E a \in PL!Attempt : PL!Begin(p, a)) \/ PL!Run(p) \/ PL!Flush(p) \/ PL!Fault(p)
        PROVE  PLP!Next
    <3>1. CASE (\E a \in PL!Attempt : PL!Begin(p, a)) \/ PL!Flush(p) \/ PL!Fault(p)
      BY <3>1
         DEF PLP!Next, PL!local, PLP!local, PL!world, PLP!world, PL!Step, PLP!Step,
             PL!Answer, PLP!Answer, PL!Attempt, PLP!Attempt, PL!Begin, PLP!Begin,
             PL!Flush, PLP!Flush, PL!Overwrite, PLP!Overwrite, PL!Columns, PLP!Columns,
             PL!Fault, PLP!Fault, PL!Raise, PLP!Raise, PL!End, PLP!End
    <3>2. CASE PL!Run(p)
      <4>1. PLP!Run(p)
        BY <2>1, <3>2
           DEF PL!local, PLP!local, PL!world, PLP!world, PL!Step, PLP!Step,
               PL!Answer, PLP!Answer, PL!Run, PLP!Run, PL!NoUser, PLP!NoUser,
               PL!LoadUser, PLP!LoadUser, PL!NoCredential, PLP!NoCredential,
               PL!LoadCredential, PLP!LoadCredential, PL!LoadRaises, PLP!LoadRaises,
               PL!Valid, PLP!Valid, PL!Raise, PLP!Raise, PL!End, PLP!End,
               PL!VerifyDummy, PLP!VerifyDummy, PL!Verify, PLP!Verify,
               PL!RejectPassword, PLP!RejectPassword, PL!Accepts, PLP!Accepts,
               PL!AcceptPassword, PLP!AcceptPassword, PL!Rehash, PLP!Rehash,
               PL!RehashRaises, PLP!RehashRaises, PL!CanUpdate, PLP!CanUpdate,
               PL!ReadAgain, PLP!ReadAgain, PL!IssueTokens, PLP!IssueTokens,
               PL!Commit, PLP!Commit
      <4>2. QED
        BY <4>1 DEF PLP!Next
    <3>3. QED
      BY <2>2, <3>1, <3>2
  <2>3. ASSUME NEW a \in Admin, PL!LoadToRevoke(a) \/ PL!CommitRevocation(a)
        PROVE  PLP!Next
    BY <2>3
       DEF PLP!Next, PL!local, PLP!local, PL!LoadToRevoke, PLP!LoadToRevoke,
           PL!CommitRevocation, PLP!CommitRevocation, PL!revoke, PLP!revoke,
           PL!Valid, PLP!Valid, PL!CanUpdate, PLP!CanUpdate,
           PL!Overwrite, PLP!Overwrite, PL!Columns, PLP!Columns
  <2>4. CASE PL!SetStatus \/ PL!Tick \/ PL!StepBack
    BY <2>4 DEF PLP!Next, PL!local, PLP!local, PL!SetStatus, PLP!SetStatus,
       PL!Tick, PLP!Tick, PL!StepBack, PLP!StepBack
  <2>5. CASE UNCHANGED PL!vars
    BY <2>5 DEF PL!vars, PLP!vars
  <2>6. QED
    BY <2>2, <2>3, <2>4, <2>5 DEF PL!Next
<1>3. QED
  BY <1>1, <1>2, PTL DEF PL!Spec, PLP!Spec

LEMMA LoginInvariance == AuthSpec => []PLP!IInv
BY ImplementsLogin, SameModule, Assumptions, PLP!Invariance, PTL

-----------------------------------------------------------------------------
(* The steps of one request, seen from the others and from itself.         *)

\* In RefreshSessions, a request has its own locals and its own transaction.
LEMMA RefreshIsLocal ==
    ASSUME IInv, NEW p \in Request, NEW q \in Request, q # p,
           Run(p) \/ Lock(p) \/ Abort(p) \/ (\E s \in Session : Login(p, Account, s))
           \/ (\E o, t : Begin(p, o, t))
    PROVE  pc'[q] = pc[q] /\ op'[q] = op[q] /\ repl'[q] = repl[q] /\ staged'[q] = staged[q]
BY DEF IInv, TypeOK, Run, Lock, Abort, Login, Begin, End, Step, Write, store, local, LookupHit,
   RevokeRow, SkipRow, RevokeRowRejected, LookupMiss, RejectEnded, DetectReuse, AcceptToken,
   RejectUser, LoadUser, SaveReplacement, IdentifiersExhausted, HashRaises, SaveRotated,
   RotateRaises, IssueTokens, LogoutFound, RevokeFamily, RevokeDone, Commit

\* A refresh or a logout stays one, and a refresh gets to its tokens only
\* through the check that its user is active.
LEMMA RefreshProgress ==
    ASSUME IInv, NEW p \in Request, Run(p) \/ Lock(p)
    PROVE  /\ pc'[p] = "idle" \/ op'[p] = op[p]
           /\ pc'[p] \in {"save_replacement", "save_rotated", "issue"} =>
                \/ pc[p] \in {"save_replacement", "save_rotated", "issue"}
                \/ pc[p] = "load_user" /\ entity[p].user \in active
           /\ pc[p] # "idle"
<1> USE DEF IInv, TypeOK
<1>1. CASE Lock(p)
  BY <1>1 DEF Lock, LookupHit, RevokeRow, SkipRow, RevokeRowRejected, ReachRow, Abort, End, Step
<1>2. CASE LookupMiss(p) \/ RejectEnded(p) \/ DetectReuse(p) \/ AcceptToken(p) \/ RejectUser(p)
           \/ LoadUser(p) \/ LogoutFound(p) \/ RevokeFamily(p) \/ RevokeDone(p)
  BY <1>2 DEF LookupMiss, RejectEnded, DetectReuse, AcceptToken, RejectUser, LoadUser,
     LogoutFound, RevokeFamily, RevokeDone, Step, local
<1>3. CASE (\E s \in Session : SaveReplacement(p, s)) \/ SaveRotated(p) \/ IssueTokens(p)
  BY <1>3 DEF SaveReplacement, SaveRotated, IssueTokens, Step, local
<1>4. CASE IdentifiersExhausted(p) \/ HashRaises(p) \/ RotateRaises(p) \/ Commit(p)
  BY <1>4 DEF IdentifiersExhausted, HashRaises, RotateRaises, Commit, Abort, End
<1>5. QED
  BY <1>1, <1>2, <1>3, <1>4 DEF Run

PasswordMove(p) ==
    \/ \E a \in PL!Attempt : PL!Begin(p, a)
    \/ PL!Run(p) \/ PL!Flush(p) \/ PL!Raise(p)

\* In PasswordLogin, too, a request has its own locals.
LEMMA PasswordIsLocal ==
    ASSUME PLP!IInv, NEW p \in Request, NEW q \in Request, q # p, PasswordMove(p)
    PROVE  /\ login_pc'[q] = login_pc[q] /\ attempt'[q] = attempt[q]
           /\ is_active'[q] = is_active[q] /\ credential'[q] = credential[q]
BY DEF PasswordMove, PLP!IInv, PLP!TypeOK, PL!Begin, PL!Run, PL!Flush, PL!Raise, PL!End, PL!Step,
   PL!local, PL!NoUser, PL!LoadUser, PL!NoCredential, PL!LoadCredential, PL!LoadRaises,
   PL!VerifyDummy, PL!RejectPassword, PL!AcceptPassword, PL!Rehash, PL!RehashRaises,
   PL!ReadAgain, PL!IssueTokens, PL!Commit

\* A login is accepted only with the right password, and for what was active
\* when it was loaded; the user is looked at once.
LEMMA PasswordProgress ==
    ASSUME PLP!IInv, NEW p \in Request, PasswordState(p), PasswordMove(p)
    PROVE  /\ PasswordState(p)'
           /\ \/ is_active'[p] = is_active[p]
              \/ is_active'[p] = Null
              \/ login_pc[p] = "load_user" /\ is_active'[p] = (Account \in active)
<1> USE DEF PLP!IInv, PLP!TypeOK, PasswordState, Passed
<1>1. CASE (\E a \in PL!Attempt : PL!Begin(p, a)) \/ PL!NoUser(p) \/ PL!NoCredential(p)
           \/ PL!VerifyDummy(p) \/ PL!RejectPassword(p) \/ PL!IssueTokens(p)
  BY <1>1 DEF PL!Begin, PL!NoUser, PL!NoCredential, PL!VerifyDummy, PL!RejectPassword,
     PL!IssueTokens, PL!Step, PL!local
<1>2. CASE PL!LoadUser(p)
  BY <1>2 DEF PL!LoadUser, PL!Step
<1>3. CASE PL!LoadCredential(p)
  BY <1>3 DEF PL!LoadCredential, PL!Step
<1>4. CASE PL!AcceptPassword(p)
  <2>1. credential[p].hash.password = "right"
    BY <1>4 DEF PL!AcceptPassword, PLP!LoginStates, PLP!LoginState, PLP!CopiesAreSound, PLP!Sound
  <2>2. QED
    BY <1>4, <2>1 DEF PL!AcceptPassword, PL!Accepts
<1>5. CASE PL!Rehash(p)
  <2>1. credential[p] \in PLP!Credential /\ credential[p].active
    BY <1>5 DEF PL!Rehash, PL!Step, PLP!LoginStates, PLP!LoginState
  <2>2. PL!replace_password_hash(credential[p], attempt[p], clock).active
    BY <2>1 DEF PL!replace_password_hash, PLP!Credential
  <2>3. QED
    BY <1>5, <2>2 DEF PL!Rehash, PL!Step
<1>6. CASE PL!ReadAgain(p) \/ PL!Flush(p)
  BY <1>6 DEF PL!ReadAgain, PL!Flush, PL!Step, PL!local
<1>7. CASE PL!Raise(p) \/ PL!Commit(p) \/ PL!LoadRaises(p) \/ PL!RehashRaises(p)
  BY <1>7 DEF PL!Raise, PL!Commit, PL!LoadRaises, PL!RehashRaises, PL!End
<1>8. QED
  BY <1>1, <1>2, <1>3, <1>4, <1>5, <1>6, <1>7 DEF PasswordMove, PL!Run

\* A revocation writes the row of the credential and no copy that a login holds.
LEMMA RevocationApart ==
    ASSUME NEW a \in Admin, Revocation(a)
    PROVE  UNCHANGED <<pc, op, repl, staged, login_pc, attempt, is_active, credential>>
BY DEF Revocation, vars, store, local, PL!LoadToRevoke, PL!CommitRevocation, PL!local

-----------------------------------------------------------------------------
(* The invariant of the composition.                                       *)

RequestState(p) == PasswordState(p) /\ SessionState(p) /\ ShutState(p)

\* A request that a step leaves alone stays as it was.
LEMMA OtherKeeps ==
    ASSUME NEW q \in Request, RequestState(q),
           pc'[q] = pc[q], op'[q] = op[q], repl'[q] = repl[q], staged'[q] = staged[q],
           login_pc'[q] = login_pc[q], attempt'[q] = attempt[q],
           is_active'[q] = is_active[q], credential'[q] = credential[q],
           q \in shut' => Account \notin active' /\ (Busy(q) => q \in shut)
    PROVE  RequestState(q)'
<1>1. PasswordState(q)' /\ SessionState(q)'
  BY DEF RequestState, PasswordState, SessionState, Passed
<1>2. ShutState(q)'
  <2>1. CASE Busy(q)
    BY <2>1 DEF RequestState, ShutState
  <2>2. CASE ~Busy(q)
    BY <2>2, DataAssumption DEF RequestState, ShutState, PasswordState, Busy
  <2>3. QED
    BY <2>1, <2>2
<1>3. QED
  BY <1>1, <1>2 DEF RequestState

\* The steps of a login before its session is opened.
LEMMA LoginMoveKeeps ==
    ASSUME PLP!IInv, NEW p \in Request, RequestState(p), UNCHANGED vars, PasswordMove(p),
           pc[p] = "idle" \/ login_pc[p] = "flush",
           p \in shut' => Account \notin active' /\ (Busy(p) => p \in shut)
    PROVE  RequestState(p)'
<1>1. PasswordState(p)'
  BY PasswordProgress DEF RequestState
<1>2. SessionState(p)'
  BY DEF RequestState, SessionState, vars
<1>3. ShutState(p)'
  <2> SUFFICES ASSUME p \in shut' PROVE ShutState(p)'
    BY DEF ShutState
  <2>1. Account \notin active /\ Account \notin active'
    BY DEF vars, world
  <2>2. is_active[p] # TRUE /\ pc[p] \notin {"save_replacement", "save_rotated", "issue"}
    BY DataAssumption DEF RequestState, ShutState, PasswordState, Busy
  <2>3. is_active'[p] # TRUE
    BY <2>1, <2>2, PasswordProgress, DataAssumption DEF RequestState
  <2>4. pc'[p] = pc[p]
    BY DEF vars
  <2>5. QED
    BY <2>1, <2>2, <2>3, <2>4 DEF ShutState
<1>4. QED
  BY <1>1, <1>2, <1>3 DEF RequestState

LEMMA OpenSessionKeeps ==
    ASSUME IInv, NEW p \in Request, RequestState(p), NEW s \in Session, OpenSession(p, s),
           p \in shut' => p \in shut
    PROVE  RequestState(p)'
<1>1. Passed(p) /\ login_pc[p] = "issue"
  BY DEF OpenSession, RequestState, PasswordState
<1>2. UNCHANGED password
  BY DEF OpenSession
<1>3. pc'[p] = "issue" /\ op'[p] = "login" /\ repl'[p] = s
      /\ staged'[p][s] = NewRow(Account, s, clock, clock + TTL)
  BY DEF OpenSession, Login, Step, Write, IInv, TypeOK
<1>4. NewRow(Account, s, clock, clock + TTL).user = Account
  BY DEF NewRow
<1>5. PasswordState(p)' /\ SessionState(p)'
  BY <1>1, <1>2, <1>3, <1>4 DEF password, RequestState, PasswordState, SessionState, Passed
<1>6. p \notin shut'
  BY <1>1 DEF RequestState, ShutState, Passed
<1>7. QED
  BY <1>5, <1>6 DEF RequestState, ShutState

LEMMA AnswerLoginKeeps ==
    ASSUME IInv, PLP!IInv, NEW p \in Request, RequestState(p), AnswerLogin(p),
           p \in shut' => p \in shut
    PROVE  RequestState(p)'
<1>1. /\ pc'[p] = "replied" /\ op'[p] = op[p] /\ repl'[p] = repl[p] /\ staged'[p] = staged[p]
      /\ pc[p] = "issue"
  BY DEF AnswerLogin, IssueTokens, Step, store, local, IInv, TypeOK
<1>2. /\ login_pc'[p] = "replied"
      /\ attempt'[p] = attempt[p] /\ is_active'[p] = is_active[p]
      /\ credential'[p] = credential[p]
  BY DEF AnswerLogin, PL!IssueTokens, PL!Step, PLP!IInv, PLP!TypeOK
<1>3. PasswordState(p)' /\ SessionState(p)'
  BY <1>1, <1>2 DEF RequestState, PasswordState, SessionState, Passed
<1>4. p \notin shut'
  BY <1>1 DEF RequestState, ShutState
<1>5. QED
  BY <1>3, <1>4 DEF RequestState, ShutState

\* The end of a request, by a commit or a crash, of one half or of both.
LEMMA EndKeeps ==
    ASSUME PLP!IInv, IInv, NEW p \in Request, RequestState(p),
           CommitLogin(p) \/ Crash(p),
           p \in shut' => Account \notin active' /\ p \in shut
    PROVE  RequestState(p)'
<1>1. pc'[p] = "idle"
  BY DEF CommitLogin, Crash, Commit, Abort, End, IInv, TypeOK, vars
<1>2. login_pc'[p] = "idle" /\ is_active'[p] \in {is_active[p], Null}
      /\ PasswordState(p)'
  <2>1. CASE login_pc[p] # "idle"
    BY <2>1 DEF CommitLogin, Crash, PL!Commit, PL!Raise, PL!End, PLP!IInv, PLP!TypeOK,
       PasswordState
  <2>2. CASE login_pc[p] = "idle"
    BY <2>2 DEF CommitLogin, Crash, password, RequestState, PasswordState
  <2>3. QED
    BY <2>1, <2>2
<1>3. SessionState(p)' /\ ShutState(p)'
  BY <1>1, <1>2, DataAssumption DEF SessionState, RequestState, ShutState
<1>4. QED
  BY <1>2, <1>3 DEF RequestState

LEMMA OtherStepKeeps ==
    ASSUME IInv, NEW p \in Request, RequestState(p),
           \A s \in Session : Exists(s) => auth_sessions[s].user = Account,
           OtherStep(p),
           p \in shut' => Account \notin active' /\ (Busy(p) => p \in shut)
    PROVE  RequestState(p)'
<1>1. login_pc[p] = "idle" /\ UNCHANGED password /\ (Run(p) \/ Lock(p))
  BY DEF OtherStep
<1>2. PasswordState(p)'
  BY <1>1 DEF password, RequestState, PasswordState, Passed
<1>3. SessionState(p)'
  <2>1. pc[p] # "idle" /\ op[p] # "login"
    BY <1>1, RefreshProgress DEF RequestState, SessionState
  <2>2. QED
    BY <1>1, <2>1, RefreshProgress DEF SessionState
<1>4. ShutState(p)'
  <2> SUFFICES ASSUME p \in shut' PROVE ShutState(p)'
    BY DEF ShutState
  <2>1. p \in shut /\ Account \notin active'
    BY <1>1, RefreshProgress DEF Busy
  <2>2. Account \notin active /\ is_active[p] # TRUE
        /\ pc[p] \notin {"save_replacement", "save_rotated", "issue"}
    BY <2>1 DEF RequestState, ShutState
  <2>3. pc[p] = "load_user" => entity[p].user = Account
    BY RowAssumption DEF IInv, HandlerState, EntityIsCurrent, Exists
  <2>4. pc'[p] \notin {"save_replacement", "save_rotated", "issue"}
    BY <1>1, <2>2, <2>3, RefreshProgress
  <2>5. QED
    BY <1>1, <2>1, <2>2, <2>4 DEF password, ShutState
<1>5. QED
  BY <1>2, <1>3, <1>4 DEF RequestState

LEMMA BeginOtherKeeps ==
    ASSUME IInv, NEW p \in Request, RequestState(p), NEW o \in {"refresh", "logout"}, NEW t,
           BeginOther(p, o, t),
           p \in shut' => Account \notin active'
    PROVE  RequestState(p)'
<1>1. login_pc[p] = "idle" /\ UNCHANGED password
  BY DEF BeginOther
<1>2. pc'[p] = "lookup" /\ op'[p] = o
  BY DEF BeginOther, Begin, Step, IInv, TypeOK
<1>3. PasswordState(p)' /\ SessionState(p)'
  BY <1>1, <1>2 DEF password, RequestState, PasswordState, SessionState, Passed
<1>4. ShutState(p)'
  BY <1>1, <1>2, DataAssumption DEF password, RequestState, PasswordState, ShutState
<1>5. QED
  BY <1>3, <1>4 DEF RequestState

\* A step of p leaves every other request as it was.
LEMMA NeighbourKeeps ==
    ASSUME IInv, PLP!IInv, NEW p \in Request, NEW q \in Request, q # p, RequestState(q),
           \/ UNCHANGED vars
           \/ Run(p) \/ Lock(p) \/ Abort(p) \/ (\E s \in Session : Login(p, Account, s))
              \/ (\E o, t : Begin(p, o, t)),
           UNCHANGED password \/ PasswordMove(p),
           q \in shut' => Account \notin active' /\ (Busy(q) => q \in shut)
    PROVE  RequestState(q)'
<1>1. pc'[q] = pc[q] /\ op'[q] = op[q] /\ repl'[q] = repl[q] /\ staged'[q] = staged[q]
  BY RefreshIsLocal DEF vars
<1>2. /\ login_pc'[q] = login_pc[q] /\ attempt'[q] = attempt[q]
      /\ is_active'[q] = is_active[q] /\ credential'[q] = credential[q]
  BY PasswordIsLocal DEF password
<1>3. QED
  BY <1>1, <1>2, OtherKeeps

LEMMA RequestsKeep ==
    ASSUME IInv, PLP!IInv, AInv, AuthNext, NEW q \in Request
    PROVE  RequestState(q)'
<1>1. \A r \in Request : r \in shut' => Account \notin active' /\ (Busy(r) => r \in shut)
  BY DEF AuthNext
<1>2. \A r \in Request : RequestState(r)
  BY DEF AInv, RequestState
<1>3. ASSUME NEW p \in Request, \/ \E a \in PL!Attempt : BeginLogin(p, a)
                                \/ PasswordStep(p) \/ RehashStep(p) \/ NoSessionLeft(p)
      PROVE  RequestState(q)'
  <2>1. UNCHANGED vars /\ PasswordMove(p)
    BY <1>3 DEF BeginLogin, PasswordStep, RehashStep, NoSessionLeft, PasswordMove
  <2>2. pc[p] = "idle" \/ login_pc[p] = "flush"
    BY <1>3 DEF BeginLogin, PasswordStep, RehashStep, NoSessionLeft, PL!Flush, PL!Step
  <2>3. QED
    BY <1>1, <1>2, <2>1, <2>2, LoginMoveKeeps, NeighbourKeeps
<1>4. ASSUME NEW p \in Request, NEW s \in Session, OpenSession(p, s)
      PROVE  RequestState(q)'
  <2>1. Login(p, Account, s) /\ UNCHANGED password /\ Busy(p)
    BY <1>4 DEF OpenSession, Busy
  <2>2. QED
    BY <1>1, <1>2, <1>4, <2>1, OpenSessionKeeps, NeighbourKeeps
<1>5. ASSUME NEW p \in Request, AnswerLogin(p)
      PROVE  RequestState(q)'
  <2>1. Run(p) /\ PasswordMove(p) /\ Busy(p)
    BY <1>5 DEF AnswerLogin, Run, PL!Run, PasswordMove, Busy
  <2>2. QED
    BY <1>1, <1>2, <1>5, <2>1, AnswerLoginKeeps, NeighbourKeeps
<1>6. ASSUME NEW p \in Request, CommitLogin(p) \/ Crash(p)
      PROVE  RequestState(q)'
  <2>1. Busy(p) /\ (UNCHANGED vars \/ Run(p) \/ Abort(p))
                /\ (UNCHANGED password \/ PasswordMove(p))
    BY <1>6 DEF CommitLogin, Crash, Run, PL!Run, PasswordMove, Busy
  <2>2. QED
    BY <1>1, <1>2, <1>6, <2>1, EndKeeps, NeighbourKeeps
<1>7. ASSUME NEW p \in Request, NEW o \in {"refresh", "logout"}, NEW t, BeginOther(p, o, t)
      PROVE  RequestState(q)'
  <2>1. Begin(p, o, t) /\ UNCHANGED password
    BY <1>7 DEF BeginOther
  <2>2. QED
    BY <1>1, <1>2, <1>7, <2>1, BeginOtherKeeps, NeighbourKeeps
<1>8. ASSUME NEW p \in Request, OtherStep(p)
      PROVE  RequestState(q)'
  <2>1. (Run(p) \/ Lock(p)) /\ UNCHANGED password
    BY <1>8 DEF OtherStep
  <2>2. QED
    BY <1>1, <1>2, <1>8, <2>1, OtherStepKeeps, NeighbourKeeps DEF AInv
<1>9. CASE Environment /\ UNCHANGED password
  <2>1. UNCHANGED <<pc, op, repl, staged>>
    BY <1>9 DEF Environment, Tick, StepBack, Deactivate, Reactivate, store, local
  <2>2. QED
    BY <1>1, <1>2, <1>9, <2>1, OtherKeeps DEF password
<1>10. ASSUME NEW a \in Admin, Revocation(a)
       PROVE  RequestState(q)'
  <2>1. UNCHANGED <<pc, op, repl, staged, login_pc, attempt, is_active, credential>>
    BY <1>10, RevocationApart
  <2>2. QED
    BY <1>1, <1>2, <2>1, OtherKeeps
<1>11. QED
  BY <1>3, <1>4, <1>5, <1>6, <1>7, <1>8, <1>9, <1>10 DEF AuthNext, Steps

\* A row that a commit adds is the session of a login, or replaces the row of
\* the token that was presented.
LEMMA CommittedRow ==
    ASSUME IInv, NEW p \in Request, Commit(p), NEW s \in Session, ~Exists(s), Exists(s)'
    PROVE  /\ repl[p] = s
           /\ auth_sessions'[s] = staged[p][s]
           /\ \/ LoginStaged(p)
              \/ /\ token[p] \in Session /\ Exists(token[p])
                 /\ auth_sessions'[s].user = auth_sessions[token[p]].user
                 /\ auth_sessions'[s].family = auth_sessions[token[p]].family
<1>1. staged[p][s] # Null /\ auth_sessions'[s] = staged[p][s]
  BY DEF Commit, Exists
<1>2. repl[p] # Null
  BY <1>1 DEF IInv, RevocationStaged, InUpdate, Active
<1>3. CASE LoginStaged(p)
  BY <1>1, <1>3 DEF LoginStaged
<1>4. CASE RotationStaged(p)
  <2>1. entity[p] \in Row /\ now[p] \in Nat
    BY <1>4 DEF IInv, TypeOK, RotationStaged
  <2>2. token[p] \in Session /\ auth_sessions[token[p]] = entity[p] /\ Exists(token[p])
    BY <1>4 DEF IInv, EntityIsCurrent, RotationStaged, Exists
  <2>3. repl[p] = s
    BY <1>1, <1>4, <2>2 DEF RotationStaged
  <2>4. auth_sessions'[s] = ReplacementRow(entity[p], now[p])
    BY <1>1, <1>4, <2>3 DEF RotationStaged
  <2>5. QED
    BY <1>1, <2>1, <2>2, <2>3, <2>4, ReplacementFacts
<1>5. QED
  BY <1>2, <1>3, <1>4 DEF IInv, ReplacementStaged

LEMMA RowsKeep ==
    ASSUME IInv, AInv, [AuthNext]_allvars, NEW s \in Session, Exists(s)'
    PROVE  auth_sessions'[s].user = Account
<1>1. CASE UNCHANGED auth_sessions
  BY <1>1 DEF AInv, Exists
<1>2. ASSUME NEW p \in Request, Commit(p)
      PROVE  auth_sessions'[s].user = Account
  <2>1. CASE Exists(s)
    BY <1>2, <2>1, CommitMonotone DEF AInv
  <2>2. CASE ~Exists(s)
    <3>1. CASE LoginStaged(p)
      <4>1. pc[p] # "idle" /\ op[p] = "login"
        BY <3>1 DEF LoginStaged
      <4>2. QED
        BY <1>2, <2>2, <4>1, CommittedRow DEF AInv, SessionState
    <3>2. CASE ~LoginStaged(p)
      BY <1>2, <2>2, <3>2, CommittedRow DEF AInv
    <3>3. QED
      BY <3>1, <3>2
  <2>3. QED
    BY <2>1, <2>2
<1>3. QED
  BY <1>1, <1>2, StepIsRefresh, OnlyCommitWrites

LEMMA AuthInitial == AuthInit => AInv
<1> SUFFICES ASSUME AuthInit PROVE AInv
  OBVIOUS
<1>1. \A p \in Request : pc[p] = "idle" /\ login_pc[p] = "idle" /\ is_active[p] = Null
  BY DEF AuthInit, Init, PL!Init
<1>2. \A s \in Session : ~Exists(s)
  BY DEF AuthInit, Init, Exists
<1>3. QED
  BY <1>1, <1>2 DEF AuthInit, AInv, PasswordState, SessionState, ShutState

LEMMA AuthInductive == IInv /\ PLP!IInv /\ AInv /\ [AuthNext]_allvars => AInv'
<1> SUFFICES ASSUME IInv, PLP!IInv, AInv, [AuthNext]_allvars PROVE AInv'
  OBVIOUS
<1>1. \A s \in Session : Exists(s)' => auth_sessions'[s].user = Account
  BY RowsKeep
<1>2. ASSUME NEW q \in Request PROVE RequestState(q)'
  <2>1. CASE UNCHANGED allvars
    BY <2>1 DEF allvars, vars, world, password, AInv, RequestState, PasswordState,
       SessionState, ShutState, Passed
  <2>2. QED
    BY <2>1, RequestsKeep
<1>3. QED
  BY <1>1, <1>2 DEF AInv, RequestState, Exists

-----------------------------------------------------------------------------
(* The theorems.                                                           *)

THEOREM AuthInvariance == AuthSpec => [](IInv /\ PLP!IInv /\ AInv)
<1>1. AuthSpec => []IInv
  BY ImplementsRefresh, Invariance
<1>2. AuthInit => AInv
  BY AuthInitial
<1>3. IInv /\ PLP!IInv /\ AInv /\ [AuthNext]_allvars => AInv'
  BY AuthInductive
<1>4. QED
  BY <1>1, <1>2, <1>3, LoginInvariance, PTL DEF AuthSpec

\* A request during which the user was never active is not given a token.
THEOREM DeactivationTakesEffect == AuthSpec => DeactivationIsEffective
<1> DEFINE A == \A p \in Request : pc[p] = "issue" /\ pc'[p] = "replied" => p \notin shut
<1>1. AInv => [A]_allvars
  BY DEF AInv, ShutState
<1>2. QED
  BY <1>1, AuthInvariance, PTL DEF DeactivationIsEffective

\* Every family goes back to a login with the right password.
THEOREM FamiliesAreAuthenticated == AuthSpec => SessionsAreAuthenticated
<1> DEFINE A == \A s \in Session : ~Exists(s) /\ Exists(s)' /\ auth_sessions'[s].family = s =>
                  \E p \in Request : /\ repl[p] = s
                                     /\ attempt[p] = "right"
                                     /\ is_active[p] = TRUE
                                     /\ credential[p].active
<1>1. IInv /\ AInv /\ [AuthNext]_allvars => [A]_allvars
  <2> SUFFICES ASSUME IInv, AInv, [AuthNext]_allvars, NEW s \in Session,
                      ~Exists(s), Exists(s)', auth_sessions'[s].family = s
               PROVE  \E p \in Request : repl[p] = s /\ Passed(p)
    BY DEF Passed
  <2>1. PICK p \in Request : Commit(p)
    BY StepIsRefresh, OnlyCommitWrites DEF Exists
  <2>2. repl[p] = s
    BY <2>1, CommittedRow
  <2>3. LoginStaged(p)
    <3>1. SUFFICES ASSUME token[p] \in Session, Exists(token[p]),
                          auth_sessions[token[p]].family = s
                   PROVE  FALSE
      BY <2>1, <3>1, CommittedRow
    <3>2. token[p] \in Family(s)
      BY <3>1 DEF Family
    <3>3. QED
      BY <3>2 DEF IInv, FamilyIsAChain, Family
  <2>4. QED
    BY <2>2, <2>3 DEF LoginStaged, AInv, SessionState
<1>2. QED
  BY <1>1, AuthInvariance, PTL DEF AuthSpec, SessionsAreAuthenticated

-----------------------------------------------------------------------------
(* What has been proved of RefreshSessions and of PasswordLogin, of the    *)
(* two together.                                                           *)

\* Families are chains with one active end, in the composition too: whatever
\* passwords, rehashes and deactivations go on beside the sessions.
THEOREM AuthSessionsAreSound == AuthSpec => [](/\ FamilyIsAChain
                                               /\ OneActivePerFamily
                                               /\ StoredSessionsLoad)
BY ImplementsRefresh, FamiliesAreChains, OneActive, StoredRowsLoad, PTL

\* The sessions of the composition are the token families of the abstract
\* specification: the two refinements compose.
THEOREM AuthRefinement == AuthSpec => ImplementsTokenFamilies
BY ImplementsRefresh, Refinement, PTL

\* Logins that open sessions keep the promises of PasswordLogin, about the
\* password, the status and the hash of the credential, and equal work.
THEOREM AuthCredentialsAreSound == AuthSpec => /\ [](/\ PLP!PasswordKept
                                                   /\ PLP!StatusMatchesRevocation
                                                   /\ PLP!EqualWork)
                                               /\ PLP!CurrentStaysCurrent
BY ImplementsLogin, SameModule, Assumptions, PLP!PasswordIsKept, PLP!StatusIsNotTorn,
   PLP!WorkIsEqual, PLP!HashesStayCurrent, PTL

-----------------------------------------------------------------------------
(* The two kinds of locks.                                                 *)

LEMMA HandlersInductive ==
    ASSUME IInv, PLP!IInv, HandlersApart, [AuthNext]_allvars
    PROVE  HandlersApart'
<1> USE DEF HandlersApart
<1>1. CASE UNCHANGED allvars
  BY <1>1 DEF allvars, vars, password
<1>2. ASSUME NEW p \in Request, \/ \E a \in PL!Attempt : BeginLogin(p, a)
                                \/ PasswordStep(p) \/ NoSessionLeft(p)
      PROVE  HandlersApart'
  <2>1. UNCHANGED vars /\ PasswordMove(p) /\ pc[p] = "idle"
    BY <1>2 DEF BeginLogin, PasswordStep, NoSessionLeft, PasswordMove
  <2>2. QED
    BY <2>1, PasswordIsLocal DEF vars
<1>3. ASSUME NEW p \in Request, RehashStep(p)
      PROVE  HandlersApart'
  <2>1. UNCHANGED vars /\ PasswordMove(p) /\ login_pc[p] = "flush"
    BY <1>3 DEF RehashStep, PasswordMove, PL!Flush, PL!Step
  <2>2. QED
    BY <2>1, PasswordIsLocal DEF vars
<1>4. ASSUME NEW p \in Request, NEW s \in Session, OpenSession(p, s)
      PROVE  HandlersApart'
  BY <1>4 DEF OpenSession, Login, Step, password, IInv, TypeOK
<1>5. ASSUME NEW p \in Request, AnswerLogin(p) \/ CommitLogin(p)
      PROVE  HandlersApart'
  <2>1. Run(p) /\ PasswordMove(p) /\ pc'[p] \in {"idle", "replied"}
    BY <1>5 DEF AnswerLogin, CommitLogin, Run, PL!Run, PasswordMove, IssueTokens, Commit,
       Step, End, IInv, TypeOK
  <2>2. QED
    BY <2>1, RefreshIsLocal, PasswordIsLocal
<1>6. ASSUME NEW p \in Request, NEW o, NEW t, BeginOther(p, o, t)
      PROVE  HandlersApart'
  BY <1>6, RefreshIsLocal DEF BeginOther, password
<1>7. ASSUME NEW p \in Request, OtherStep(p)
      PROVE  HandlersApart'
  BY <1>7, RefreshIsLocal DEF OtherStep, password
<1>8. ASSUME NEW p \in Request, Crash(p)
      PROVE  HandlersApart'
  <2>1. pc'[p] = "idle"
    BY <1>8 DEF Crash, Abort, End, IInv, TypeOK, vars
  <2>2. \A q \in Request \ {p} : pc'[q] = pc[q]
    BY <1>8, RefreshIsLocal DEF Crash, vars
  <2>3. \A q \in Request \ {p} : login_pc'[q] = login_pc[q]
    BY <1>8, PasswordIsLocal DEF Crash, PasswordMove, password
  <2>4. QED
    BY <2>1, <2>2, <2>3
<1>9. CASE Environment /\ UNCHANGED password
  BY <1>9 DEF Environment, Tick, StepBack, Deactivate, Reactivate, local, password
<1>10. ASSUME NEW a \in Admin, Revocation(a)
       PROVE  HandlersApart'
  BY <1>10, RevocationApart
<1>11. QED
  BY <1>1, <1>2, <1>3, <1>4, <1>5, <1>6, <1>7, <1>8, <1>9, <1>10 DEF AuthNext, Steps

\* Whoever holds the credential waits for nothing, so that a circle would be
\* one of rows of sessions alone.
LEMMA CircleIsOfSessions ==
    ASSUME IInv, PLP!IInv, HandlersApart, NoDeadlock
    PROVE  NoCircle
<1> SUFFICES ASSUME NEW S \in SUBSET Request, S # {},
                    \A p \in S : \E q \in S : Queues(p, q)
             PROVE  FALSE
  BY DEF NoCircle
<1>1. ASSUME NEW p \in S, NEW q \in S, login_pc[p] = "flush", row_owner = q
      PROVE  FALSE
  <2>1. login_pc[q] \in {"issue", "replied"}
    BY <1>1 DEF PLP!IInv, PLP!LoginStates, PLP!LoginState
  <2>2. pc[q] \in {"idle", "issue", "replied"}
    BY <2>1 DEF HandlersApart
  <2>3. \A r \in S : ~Queues(q, r)
    BY <2>1, <2>2 DEF Queues, WaitsFor
  <2>4. QED
    BY <2>3
<1>2. \A p \in S : \E q \in S : WaitsFor(p, q)
  BY <1>1 DEF Queues
<1>3. QED
  BY <1>2 DEF NoDeadlock

\* No deadlock across the two kinds of locks: the database never has to break
\* one, whatever logins, refreshes and logouts compete for.
THEOREM NeverInACircle == AuthSpec => []NoCircle
<1>1. AuthInit => HandlersApart
  BY DEF AuthInit, Init, HandlersApart
<1>2. IInv /\ PLP!IInv /\ HandlersApart /\ [AuthNext]_allvars => HandlersApart'
  BY HandlersInductive
<1>3. IInv /\ PLP!IInv /\ HandlersApart /\ NoDeadlock => NoCircle
  BY CircleIsOfSessions
<1>4. AuthSpec => []NoDeadlock
  BY ImplementsRefresh, NeverDeadlocked
<1>5. QED
  BY <1>1, <1>2, <1>3, <1>4, AuthInvariance, PTL DEF AuthSpec

=============================================================================
