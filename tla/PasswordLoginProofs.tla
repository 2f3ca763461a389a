-------------------------- MODULE PasswordLoginProofs --------------------------
(***************************************************************************)
(* PasswordLogin, for every number of logins and of revocations, with      *)
(* faults at every step and a clock that may be set back: types, the equal *)
(* work of every answer, and what the column-wise UPDATEs of stale copies  *)
(* cannot do to the stored credential.                                     *)
(***************************************************************************)
EXTENDS PasswordLogin, TLAPS

\* A change of a hash, of its date and of the date of the update keeps the rest.
LEMMA ReplaceType ==
    ASSUME NEW c \in Credential, NEW password \in {"wrong", "right"}, NEW at \in Nat
    PROVE  /\ replace_password_hash(c, password, at) \in Credential
           /\ replace_password_hash(c, password, at).hash.password = password
           /\ replace_password_hash(c, password, at).hash.current
           /\ replace_password_hash(c, password, at).active = c.active
           /\ replace_password_hash(c, password, at).revoked_at = c.revoked_at
BY DEF replace_password_hash, Credential, Hash

LEMMA RevokeType ==
    ASSUME NEW c \in Credential, NEW at \in Nat
    PROVE  /\ revoke(c, at) \in Credential
           /\ revoke(c, at).hash = c.hash
           /\ ~revoke(c, at).active
           /\ revoke(c, at).revoked_at = at
BY DEF revoke, Credential

LEMMA CreateType ==
    ASSUME NEW c \in BOOLEAN, NEW at \in Nat
    PROVE  /\ create([password |-> "right", current |-> c], at) \in Credential
           /\ create([password |-> "right", current |-> c], at) # Null =>
                Sound(create([password |-> "right", current |-> c], at))
BY DEF create, Credential, Hash, Sound

\* A column that is written is taken from the copy, any other from the row.
LEMMA OverwriteType ==
    ASSUME row \in Credential, NEW is \in Credential, NEW columns
    PROVE  /\ Overwrite(columns, is) \in Credential
           /\ Overwrite(columns, is).hash = IF "hash" \in columns THEN is.hash ELSE row.hash
           /\ Overwrite(columns, is).active = IF "active" \in columns THEN is.active ELSE row.active
           /\ Overwrite(columns, is).revoked_at =
                IF "revoked_at" \in columns THEN is.revoked_at ELSE row.revoked_at
BY DEF Overwrite, Credential

\* An UPDATE writes the columns in which the copy differs from what was read.
LEMMA ColumnsOf ==
    ASSUME NEW was \in Credential, NEW is \in Credential
    PROVE  /\ "hash" \in Columns(was, is) <=> is.hash # was.hash
           /\ "active" \in Columns(was, is) <=> is.active # was.active
           /\ "revoked_at" \in Columns(was, is) <=> is.revoked_at # was.revoked_at
BY DEF Columns, Credential

\* An UPDATE by an active copy tears nothing apart: it writes status and
\* revocation together, or neither.
LEMMA OverwriteIsSound ==
    ASSUME row \in Credential, Sound(row),
           NEW was \in Credential, Sound(was), NEW is \in Credential, Sound(is)
    PROVE  /\ is.active => Sound(Overwrite(Columns(was, is) \cup {"hash"}, is))
           /\ was.active /\ ~is.active => Sound(Overwrite(Columns(was, is), is))
<1> DEFINE all == Columns(was, is)
           with == all \cup {"hash"}
<1>1. /\ Overwrite(all, is).hash.password = "right"
      /\ Overwrite(with, is).hash.password = "right"
  BY OverwriteType DEF Sound
<1>2. \A columns :
        /\ Overwrite(columns, is).active = IF "active" \in columns THEN is.active ELSE row.active
        /\ Overwrite(columns, is).revoked_at =
             IF "revoked_at" \in columns THEN is.revoked_at ELSE row.revoked_at
  BY OverwriteType
<1>3. \A c \in {"active", "revoked_at"} : c \in with <=> c \in all
  OBVIOUS
<1>4. /\ "active" \in all <=> is.active # was.active
      /\ "revoked_at" \in all <=> is.revoked_at # was.revoked_at
  BY ColumnsOf
<1>5. {row.active, was.active, is.active} \subseteq BOOLEAN
  BY DEF Credential
<1> HIDE DEF all, with
<1>6. is.active => (Overwrite(with, is).active <=> Overwrite(with, is).revoked_at = Null)
  <2>1. CASE was.active
    BY <2>1, <1>2, <1>3, <1>4, <1>5 DEF Sound
  <2>2. CASE ~was.active
    BY <2>2, <1>2, <1>3, <1>4, <1>5 DEF Sound
  <2> QED BY <2>1, <2>2
<1>7. was.active /\ ~is.active =>
        (Overwrite(all, is).active <=> Overwrite(all, is).revoked_at = Null)
  BY <1>2, <1>4, <1>5 DEF Sound
<1> QED BY <1>1, <1>6, <1>7 DEF Sound, all, with

LEMMA InitIInv == Init => IInv
<1> SUFFICES ASSUME Init PROVE IInv
  OBVIOUS
<1>1. clock \in Nat
  BY ClockAssumption DEF Init
<1>2. row \in Credential \cup {Null} /\ (row # Null => Sound(row))
  BY <1>1, CreateType DEF Init
<1> QED BY <1>2, NullAssumption DEF Init, IInv, TypeOK, CopiesAreSound, RevocationsAreSound,
        LoginStates, LoginState, LockState

-----------------------------------------------------------------------------
\* A step that leaves a login alone leaves its state as it was.
LEMMA StateKept ==
    ASSUME NEW q \in Request, LoginState(q), owner' = q => owner = q,
           pc'[q] = pc[q], attempt'[q] = attempt[q], credential'[q] = credential[q],
           model'[q] = model[q], work'[q] = work[q]
    PROVE  LoginState(q)'
BY DEF LoginState

\* The steps of a login that read no table and write none.
LEMMA QuietKeeps ==
    ASSUME IInv, NEW p \in Request,
           \/ \E a \in Attempt : Begin(p, a)
           \/ NoUser(p) \/ LoadUser(p) \/ NoCredential(p) \/ VerifyDummy(p)
           \/ RejectPassword(p) \/ IssueTokens(p)
    PROVE  IInv'
<1> USE DEF IInv, Begin, NoUser, LoadUser, NoCredential, VerifyDummy, RejectPassword,
            IssueTokens, Step, Answer, Verify, local, world
<1>1. UNCHANGED <<row, owner, staged, credential, model, loaded, revoked>>
  OBVIOUS
<1>2. TypeOK'
  BY DEF TypeOK, Attempt, LoginStates, LoginState
<1>3. CopiesAreSound' /\ RevocationsAreSound' /\ LockState'
  BY <1>1 DEF CopiesAreSound, RevocationsAreSound, LockState
<1>4. LoginStates'
  <2> SUFFICES ASSUME NEW q \in Request PROVE LoginState(q)'
    BY DEF LoginStates
  <2>1. CASE q = p
    BY <2>1 DEF LoginStates, LoginState, TypeOK
  <2>2. CASE q # p
    BY <2>2, <1>1, StateKept DEF LoginStates, TypeOK
  <2> QED BY <2>1, <2>2
<1> QED BY <1>2, <1>3, <1>4

LEMMA LoadCredentialKeeps ==
    ASSUME IInv, NEW p \in Request, LoadCredential(p)
    PROVE  IInv'
<1> USE DEF IInv, LoadCredential, Step, world
<1>1. TypeOK'
  BY DEF TypeOK
<1>2. CopiesAreSound' /\ RevocationsAreSound' /\ LockState'
  BY DEF CopiesAreSound, RevocationsAreSound, LockState, TypeOK
<1>3. LoginStates'
  <2> SUFFICES ASSUME NEW q \in Request PROVE LoginState(q)'
    BY DEF LoginStates
  <2>1. CASE q = p
    BY <2>1 DEF LoginStates, LoginState, TypeOK
  <2>2. CASE q # p
    BY <2>2, StateKept DEF LoginStates, TypeOK
  <2> QED BY <2>1, <2>2
<1> QED BY <1>1, <1>2, <1>3

LEMMA AcceptPasswordKeeps ==
    ASSUME IInv, NEW p \in Request, AcceptPassword(p)
    PROVE  IInv'
<1> USE DEF IInv, AcceptPassword, Accepts, Verify, world
<1>1. TypeOK'
  BY DEF TypeOK, LoginStates, LoginState
<1>2. CopiesAreSound' /\ RevocationsAreSound' /\ LockState'
  BY DEF CopiesAreSound, RevocationsAreSound, LockState
<1>3. LoginStates'
  <2> SUFFICES ASSUME NEW q \in Request PROVE LoginState(q)'
    BY DEF LoginStates
  <2>1. CASE q = p
    <3>1. credential[p] # Null /\ attempt[p] = "right"
      BY DEF LoginStates, LoginState, CopiesAreSound, Sound
    <3> QED BY <2>1, <3>1 DEF LoginStates, LoginState, TypeOK
  <2>2. CASE q # p
    BY <2>2, StateKept DEF LoginStates, TypeOK
  <2> QED BY <2>1, <2>2
<1> QED BY <1>1, <1>2, <1>3

LEMMA RehashKeeps ==
    ASSUME IInv, NEW p \in Request, Rehash(p)
    PROVE  IInv'
<1> DEFINE new == replace_password_hash(credential[p], attempt[p], clock)
<1> USE DEF IInv, Rehash, Step, world
<1>1. credential[p] \in Credential /\ credential[p] # Null /\ attempt[p] = "right"
      /\ credential[p].active /\ clock \in Nat
  BY ClockAssumption DEF LoginStates, LoginState, TypeOK
<1> HIDE DEF IInv, Rehash, Step, world
<1>2. new \in Credential /\ new.hash.password = "right" /\ new.hash.current
      /\ new.active = credential[p].active /\ new.revoked_at = credential[p].revoked_at
  <2>1. attempt[p] \in {"wrong", "right"}
    BY <1>1
  <2>2. new \in Credential
    BY <1>1, <2>1, ReplaceType
  <2>3. new.hash.password = "right"
    BY <1>1, <2>1, ReplaceType
  <2>4. new.hash.current
    BY <1>1, <2>1, ReplaceType
  <2>5. new.active = credential[p].active /\ new.revoked_at = credential[p].revoked_at
    BY <1>1 DEF replace_password_hash, Credential
  <2> QED BY <2>2, <2>3, <2>4, <2>5
<1> USE DEF IInv, Rehash, Step, world
<1>3. credential' = [credential EXCEPT ![p] = new]
  BY DEF replace_password_hash
<1> HIDE DEF new
<1>4. Sound(new) /\ row # Null
  BY <1>1, <1>2 DEF CopiesAreSound, Sound
<1>5. TypeOK'
  BY <1>2, <1>3 DEF TypeOK
<1>6. CopiesAreSound' /\ RevocationsAreSound' /\ LockState'
  BY <1>3, <1>4 DEF CopiesAreSound, RevocationsAreSound, LockState, TypeOK
<1>7. LoginStates'
  <2> SUFFICES ASSUME NEW q \in Request PROVE LoginState(q)'
    BY DEF LoginStates
  <2>1. CASE q = p
    <3>1. new # Null
      BY <1>2, NoCredentialAssumption
    <3> QED BY <2>1, <1>1, <1>2, <1>3, <3>1 DEF LoginStates, LoginState, TypeOK
  <2>2. CASE q # p
    BY <2>2, <1>3, StateKept DEF LoginStates, TypeOK
  <2> QED BY <2>1, <2>2
<1> QED BY <1>5, <1>6, <1>7

LEMMA ReadAgainKeeps ==
    ASSUME IInv, NEW p \in Request, ReadAgain(p)
    PROVE  IInv'
<1> USE DEF IInv, ReadAgain, Step, world
<1>1. row # Null
  BY DEF LoginStates, LoginState, CopiesAreSound
<1>2. TypeOK'
  BY DEF TypeOK
<1>3. CopiesAreSound' /\ RevocationsAreSound' /\ LockState'
  BY <1>1 DEF CopiesAreSound, RevocationsAreSound, LockState, TypeOK
<1>4. LoginStates'
  <2> SUFFICES ASSUME NEW q \in Request PROVE LoginState(q)'
    BY DEF LoginStates
  <2>1. CASE q = p
    BY <2>1, <1>1 DEF LoginStates, LoginState, TypeOK
  <2>2. CASE q # p
    BY <2>2, StateKept DEF LoginStates, TypeOK
  <2> QED BY <2>1, <2>2
<1> QED BY <1>2, <1>3, <1>4

LEMMA FlushKeeps ==
    ASSUME IInv, NEW p \in Request, Flush(p)
    PROVE  IInv'
<1> USE DEF IInv, Flush, Step, local, world
<1>1. /\ credential[p] \in Credential /\ Sound(credential[p]) /\ credential[p].active
      /\ credential[p].hash.current
      /\ model[p] \in Credential /\ Sound(model[p])
      /\ row \in Credential /\ Sound(row)
  BY DEF TypeOK, LoginStates, LoginState, CopiesAreSound
<1>2. staged' \in Credential /\ Sound(staged') /\ staged'.hash.current
  <2>1. staged' = Overwrite(Columns(model[p], credential[p]) \cup {"hash"}, credential[p])
    OBVIOUS
  <2> QED BY <1>1, <2>1, OverwriteType, OverwriteIsSound
<1>3. TypeOK'
  BY <1>2 DEF TypeOK
<1>4. CopiesAreSound' /\ RevocationsAreSound'
  BY <1>2 DEF CopiesAreSound, RevocationsAreSound, Sound
<1>5. staged' # Null
  BY <1>2, NoCredentialAssumption
<1>6. LockState'
  BY <1>5, NullAssumption DEF LockState
<1>7. LoginStates'
  <2> SUFFICES ASSUME NEW q \in Request PROVE LoginState(q)'
    BY DEF LoginStates
  <2>1. CASE q = p
    BY <2>1 DEF LoginStates, LoginState, TypeOK
  <2>2. CASE q # p
    BY <2>2, StateKept DEF LoginStates, TypeOK
  <2> QED BY <2>1, <2>2
<1> QED BY <1>3, <1>4, <1>6, <1>7

\* The end of a transaction: rolled back, or with what it staged committed.
LEMMA EndKeeps ==
    ASSUME IInv, NEW p \in Request, End(p), pc[p] # "idle",
           row' = row \/ (owner = p /\ row' = staged)
    PROVE  IInv'
<1> USE DEF IInv, End, Answer, world
<1>1. row' # Null \/ row' = row
  BY NullAssumption DEF LockState
<1>2. row' \in Credential \cup {Null} /\ (row' # Null => Sound(row'))
  BY DEF TypeOK, CopiesAreSound, Sound
<1>3. TypeOK'
  BY <1>2, NullAssumption DEF TypeOK
<1>4. CopiesAreSound' /\ RevocationsAreSound'
  BY <1>1, <1>2, NullAssumption DEF CopiesAreSound, RevocationsAreSound, Sound, TypeOK
<1>5. LockState'
  BY NullAssumption DEF LockState
<1>6. LoginStates'
  <2> SUFFICES ASSUME NEW q \in Request PROVE LoginState(q)'
    BY DEF LoginStates
  <2>1. CASE q = p
    BY <2>1, NullAssumption DEF LoginStates, LoginState, TypeOK
  <2>2. CASE q # p
    BY <2>2, StateKept, NullAssumption DEF LoginStates, TypeOK
  <2> QED BY <2>1, <2>2
<1> QED BY <1>3, <1>4, <1>5, <1>6

LEMMA LoadToRevokeKeeps ==
    ASSUME IInv, NEW a \in Admin, LoadToRevoke(a)
    PROVE  IInv'
<1> DEFINE r == revoke(row, clock)
<1> USE DEF IInv, LoadToRevoke, local
<1>1. row \in Credential /\ clock \in Nat /\ Sound(row)
  BY ClockAssumption DEF TypeOK, CopiesAreSound
<1>2. r \in Credential /\ r.hash = row.hash /\ ~r.active /\ r.revoked_at = clock
  BY <1>1, RevokeType
<1>3. revoked' = [revoked EXCEPT ![a] = r]
  OBVIOUS
<1> HIDE DEF r
<1>4. Sound(r)
  BY <1>1, <1>2, NullAssumption DEF Sound
<1>5. r # Null
  BY <1>2, NoCredentialAssumption
<1>6. TypeOK'
  BY <1>1, <1>2, <1>3 DEF TypeOK
<1>7. RevocationsAreSound'
  BY <1>1, <1>2, <1>3, <1>4, <1>5 DEF RevocationsAreSound, TypeOK
<1>8. CopiesAreSound' /\ LoginStates' /\ LockState'
  BY DEF CopiesAreSound, LoginStates, LoginState, LockState, Sound
<1> QED BY <1>6, <1>7, <1>8

LEMMA CommitRevocationKeeps ==
    ASSUME IInv, NEW a \in Admin, CommitRevocation(a)
    PROVE  IInv' /\ (row.hash.current => row'.hash.current)
<1> USE DEF IInv, CommitRevocation, local
<1>1. /\ loaded[a] \in Credential /\ Sound(loaded[a]) /\ loaded[a].active
      /\ revoked[a] \in Credential /\ Sound(revoked[a]) /\ ~revoked[a].active
      /\ revoked[a].hash = loaded[a].hash
      /\ row \in Credential /\ row # Null /\ Sound(row)
  BY DEF TypeOK, RevocationsAreSound, CopiesAreSound
<1>2. row' = Overwrite(Columns(loaded[a], revoked[a]), revoked[a])
  OBVIOUS
<1>3. row' \in Credential /\ Sound(row') /\ row'.hash = row.hash
  <2>1. row' \in Credential
    BY <1>1, <1>2, OverwriteType
  <2>2. Sound(row')
    BY <1>1, <1>2, OverwriteIsSound
  <2>3. "hash" \notin Columns(loaded[a], revoked[a])
    BY <1>1, ColumnsOf
  <2>4. row'.hash = row.hash
    BY <1>1, <1>2, <2>3, OverwriteType
  <2> QED BY <2>1, <2>2, <2>4
<1>4. row' # Null
  BY <1>3, NoCredentialAssumption
<1>5. TypeOK'
  BY <1>3 DEF TypeOK
<1>6. CopiesAreSound' /\ RevocationsAreSound'
  BY <1>3, <1>4 DEF CopiesAreSound, RevocationsAreSound, Sound, TypeOK
<1>7. LoginStates' /\ LockState'
  BY DEF LoginStates, LoginState, LockState
<1> QED BY <1>3, <1>5, <1>6, <1>7

\* The user's status and the clock are read by others, and read nothing.
LEMMA EnvironmentKeeps ==
    ASSUME IInv, SetStatus \/ Tick \/ StepBack
    PROVE  IInv'
<1> USE DEF IInv, SetStatus, Tick, StepBack, local
<1>1. TypeOK'
  <2>1. clock' \in 0..MaxClock
    BY ClockAssumption DEF TypeOK
  <2>2. active' \in BOOLEAN
    BY DEF TypeOK
  <2>3. UNCHANGED <<row, owner, staged, pc, attempt, is_active, credential, model, work,
                    reply, loaded, revoked>>
    OBVIOUS
  <2> HIDE DEF SetStatus, Tick, StepBack
  <2> QED BY <2>1, <2>2, <2>3 DEF TypeOK
<1>2. CopiesAreSound' /\ RevocationsAreSound' /\ LoginStates' /\ LockState'
  BY DEF CopiesAreSound, RevocationsAreSound, LoginStates, LoginState, LockState, Sound
<1> QED BY <1>1, <1>2

LEMMA StepKeeps == IInv /\ [Next]_vars => IInv'
<1> SUFFICES ASSUME IInv, [Next]_vars PROVE IInv'
  OBVIOUS
<1>1. CASE UNCHANGED vars
  <2>1. TypeOK'
    BY <1>1 DEF vars, IInv, TypeOK
  <2>2. CopiesAreSound' /\ RevocationsAreSound'
    BY <1>1 DEF vars, IInv, CopiesAreSound, RevocationsAreSound, Sound
  <2>3. LoginStates' /\ LockState'
    BY <1>1 DEF vars, IInv, LoginStates, LoginState, LockState
  <2> QED BY <2>1, <2>2, <2>3 DEF IInv
<1>2. ASSUME NEW p \in Request, \/ \E a \in Attempt : Begin(p, a)
                                \/ Run(p) \/ Flush(p) \/ Fault(p)
      PROVE  IInv'
  <2>1. CASE LoadRaises(p) \/ RehashRaises(p) \/ Fault(p) \/ Commit(p)
    BY <2>1, EndKeeps DEF LoadRaises, RehashRaises, Fault, Commit, Raise
  <2>2. CASE ~(LoadRaises(p) \/ RehashRaises(p) \/ Fault(p) \/ Commit(p))
    BY <1>2, <2>2, QuietKeeps, LoadCredentialKeeps, AcceptPasswordKeeps, RehashKeeps,
       ReadAgainKeeps, FlushKeeps DEF Run
  <2> QED BY <2>1, <2>2
<1>3. ASSUME NEW a \in Admin, LoadToRevoke(a) \/ CommitRevocation(a)
      PROVE  IInv'
  BY <1>3, LoadToRevokeKeeps, CommitRevocationKeeps
<1> QED BY <1>1, <1>2, <1>3, EnvironmentKeeps DEF Next

\* The inductive invariant holds in every reachable state.
THEOREM Invariance == Spec => []IInv
BY InitIInv, StepKeeps, PTL DEF Spec

\* Every variable keeps its type, for any numbers of logins and revocations.
THEOREM TypeCorrect == Spec => []TypeOK
<1>1. IInv => TypeOK
  BY DEF IInv
<1> QED BY Invariance, <1>1, PTL

\* However a login was answered, it has verified one hash by then.
THEOREM WorkIsEqual == Spec => []EqualWork
<1>1. IInv => EqualWork
  BY DEF IInv, LoginStates, LoginState, EqualWork
<1> QED BY Invariance, <1>1, PTL

\* The stored status and the stored date of a revocation always agree.
THEOREM StatusIsNotTorn == Spec => []StatusMatchesRevocation
<1>1. IInv => StatusMatchesRevocation
  BY DEF IInv, CopiesAreSound, Sound, StatusMatchesRevocation
<1> QED BY Invariance, <1>1, PTL

\* No attempt with another password ever gets its hash stored.
THEOREM PasswordIsKept == Spec => []PasswordKept
<1>1. IInv => PasswordKept
  BY DEF IInv, CopiesAreSound, Sound, PasswordKept
<1> QED BY Invariance, <1>1, PTL

\* A hash under current parameters is never replaced by an older one.
THEOREM HashesStayCurrent == Spec => CurrentStaysCurrent
<1>1. ASSUME IInv, [Next]_vars, row # Null, row.hash.current
      PROVE  row'.hash.current
  <2>1. CASE row' = row
    BY <2>1, <1>1
  <2>2. ASSUME NEW p \in Request, Commit(p), row' # row
        PROVE  row'.hash.current
    <3>1. row' = staged /\ staged # Null
      BY <1>1, <2>2, NullAssumption DEF IInv, Commit, LockState
    <3>2. staged.hash.current
      BY <1>1, <3>1 DEF IInv, CopiesAreSound
    <3> QED BY <3>1, <3>2
  <2>3. ASSUME NEW a \in Admin, CommitRevocation(a)
        PROVE  row'.hash.current
    BY <2>3, <1>1, CommitRevocationKeeps
  <2>4. row' = row \/ (\E p \in Request : Commit(p)) \/ (\E a \in Admin : CommitRevocation(a))
    BY <1>1 DEF Next, vars, Begin, Run, NoUser, LoadUser, NoCredential, LoadCredential,
       LoadRaises, VerifyDummy, RejectPassword, AcceptPassword, Rehash, RehashRaises,
       ReadAgain, IssueTokens, Flush, Fault, Raise, LoadToRevoke, SetStatus, Tick, StepBack
  <2> QED BY <2>1, <2>2, <2>3, <2>4
<1>2. IInv /\ [Next]_vars => [row # Null /\ row.hash.current => row'.hash.current]_vars
  BY <1>1
<1> QED BY Invariance, <1>2, PTL DEF Spec, CurrentStaysCurrent

=============================================================================
