----------------------- MODULE RefreshSessionsProofs -----------------------
(***************************************************************************)
(* Proofs about RefreshSessions, for any number of requests, sessions and  *)
(* users, any lifetime, and whether or not requests fail or the clock is   *)
(* set back.                                                               *)
(*                                                                         *)
(* The invariant IInv is inductive because a row that a request has loaded *)
(* is locked by it: entities are never stale and what is staged never      *)
(* collides.  There is a lemma for every step of a handler.  A commit is   *)
(* analysed once: CommitShape says that it opens a family, rotates one row *)
(* or revokes rows of one family, and both the invariant and the           *)
(* refinement of TokenFamilies follow from the three shapes.               *)
(***************************************************************************)
EXTENDS RefreshSessions, LeastNumber, TLAPS

\* What the constructor of a login or of a replacement returns: an active row.
LEMMA NewRowFacts ==
    ASSUME NEW u \in User, NEW f \in Session, NEW at \in Nat, NEW e \in Nat
    PROVE  /\ NewRow(u, f, at, e) \in Row
           /\ NewRow(u, f, at, e).user = u
           /\ NewRow(u, f, at, e).family = f
           /\ NewRow(u, f, at, e).created_at = at
           /\ NewRow(u, f, at, e).expires_at = e
           /\ ~is_revoked(NewRow(u, f, at, e))
           /\ ~is_rotated(NewRow(u, f, at, e))
BY DEF NewRow, Row, is_revoked, is_rotated

\* revoke_family ends a row and changes neither its family nor its links.
LEMMA RevokeFacts ==
    ASSUME NEW row \in Row, NEW at \in Nat
    PROVE  /\ revoke(row, at) \in Row
           /\ revoke(row, at).user = row.user
           /\ revoke(row, at).family = row.family
           /\ revoke(row, at).expires_at = row.expires_at
           /\ revoke(row, at).replaced_by = row.replaced_by
           /\ is_revoked(revoke(row, at))
BY NullAssumption DEF revoke, Row, is_revoked

\* rotate ends a row and links it to its replacement, in the same family.
LEMMA RotateFacts ==
    ASSUME NEW row \in Row, NEW r \in Session, NEW at \in Nat
    PROVE  /\ rotate(row, r, at) \in Row
           /\ rotate(row, r, at).user = row.user
           /\ rotate(row, r, at).family = row.family
           /\ rotate(row, r, at).expires_at = row.expires_at
           /\ rotate(row, r, at).replaced_by = r
           /\ is_revoked(rotate(row, r, at))
           /\ is_rotated(rotate(row, r, at))
BY NullAssumption DEF rotate, Row, is_revoked, is_rotated

\* The fields of a row of auth_sessions, and that a row is not NULL.
LEMMA RowFacts ==
    ASSUME NEW row \in Row
    PROVE  /\ row # Null
           /\ row.user \in User
           /\ row.family \in Session
           /\ row.created_at \in Nat
           /\ row.expires_at \in Nat
           /\ row.revoked_at \in Nat \cup {Null}
           /\ row.replaced_by \in Session \cup {Null}
BY RowAssumption DEF Row

\* An empty table with no request in flight satisfies the invariant.
LEMMA Initial == Init => IInv
<1> SUFFICES ASSUME Init PROVE IInv
  OBVIOUS
<1>1. TypeOK
  BY ClockAssumption DEF Init, TypeOK, NothingStaged
<1>2. StagedIsLocked
  BY DEF Init, StagedIsLocked, NothingStaged
<1>3. EntityIsCurrent
  BY DEF Init, EntityIsCurrent
<1>4. HandlerState
  BY DEF Init, HandlerState
<1>5. RevocationStaged
  BY DEF Init, RevocationStaged, NothingStaged
<1>6. ReplacementStaged
  BY DEF Init, ReplacementStaged
<1>7. FamilyIsAChain
  BY DEF Init, FamilyIsAChain, Family, Exists
<1>8. SnapshotIsCurrent
  BY DEF Init, SnapshotIsCurrent
<1>9. RevocationCoversSnapshot
  BY DEF Init, RevocationCoversSnapshot
<1>10. ExpiryBounded
  BY DEF Init, ExpiryBounded, Exists
<1>11. QED
  BY <1>1, <1>2, <1>3, <1>4, <1>5, <1>6, <1>7, <1>8, <1>9, <1>10 DEF IInv

\* A step that writes no row keeps what is said of the committed rows alone.
LEMMA StoreFrame ==
    ASSUME IInv, UNCHANGED auth_sessions
    PROVE  FamilyIsAChain' /\ ExpiryBounded'
BY DEF IInv, FamilyIsAChain, ExpiryBounded, Family, Exists

\* A step that leaves the rows, the locks and the loaded entities alone keeps
\* the parts of the invariant about them.
LEMMA LocalFrame ==
    ASSUME IInv, UNCHANGED <<store, token, entity, matched, todo>>
    PROVE  /\ StagedIsLocked'
           /\ EntityIsCurrent'
           /\ FamilyIsAChain'
           /\ RevocationCoversSnapshot'
           /\ ExpiryBounded'
<1>1. FamilyIsAChain' /\ ExpiryBounded'
  BY StoreFrame DEF store
<1>2. StagedIsLocked' /\ EntityIsCurrent' /\ RevocationCoversSnapshot'
  BY DEF IInv, store, StagedIsLocked, EntityIsCurrent, RevocationCoversSnapshot
<1>3. QED
  BY <1>1, <1>2

\* The answer to an unknown token changes nothing the invariant reads.
LEMMA LookupMissStep ==
    ASSUME IInv, NEW p \in Request, LookupMiss(p)
    PROVE  IInv'
<1>1. /\ StagedIsLocked'
      /\ EntityIsCurrent'
      /\ FamilyIsAChain'
      /\ RevocationCoversSnapshot'
      /\ ExpiryBounded'
  BY LocalFrame DEF LookupMiss, local
<1>2. TypeOK'
  BY DEF IInv, TypeOK, LookupMiss, Step, store, local, world
<1>3. HandlerState'
  BY DEF IInv, HandlerState, LookupMiss, Step, local
<1>4. RevocationStaged'
  BY DEF IInv, RevocationStaged, InUpdate, Active, Exists, LookupMiss, Step,
         store, local
<1>5. ReplacementStaged'
  BY DEF IInv, ReplacementStaged, LoginStaged, RotationStaged, Exists,
         LookupMiss, Step, store, local
<1>6. SnapshotIsCurrent'
  BY DEF IInv, SnapshotIsCurrent, Exists, LookupMiss, Step, store, local
<1>7. QED
  BY <1>1, <1>2, <1>3, <1>4, <1>5, <1>6 DEF IInv

\* SELECT ... FOR UPDATE loads the row that is committed while it locks it, so
\* the entity is current, and stays so for as long as the lock is held.
LEMMA LookupHitStep ==
    ASSUME IInv, NEW p \in Request, LookupHit(p)
    PROVE  IInv'
<1>1. FamilyIsAChain' /\ ExpiryBounded'
  BY StoreFrame DEF LookupHit
<1>2. TypeOK'
  BY DEF IInv, TypeOK, LookupHit, Step, world
<1>3. StagedIsLocked'
  BY NullAssumption DEF IInv, StagedIsLocked, LookupHit
<1>4. EntityIsCurrent'
  BY NullAssumption DEF IInv, TypeOK, EntityIsCurrent, LookupHit
<1>5. HandlerState'
  BY DEF IInv, TypeOK, HandlerState, LookupHit, Step, Exists
<1>6. RevocationStaged'
  BY DEF IInv, RevocationStaged, InUpdate, Active, Exists, LookupHit, Step
<1>7. ReplacementStaged'
  BY DEF IInv, ReplacementStaged, LoginStaged, RotationStaged, Exists,
         LookupHit, Step
<1>8. SnapshotIsCurrent'
  BY DEF IInv, TypeOK, SnapshotIsCurrent, Exists, HandlerState, LookupHit,
         Step
<1>9. RevocationCoversSnapshot'
  BY DEF IInv, RevocationCoversSnapshot, LookupHit
<1>10. QED
  BY <1>1, <1>2, <1>3, <1>4, <1>5, <1>6, <1>7, <1>8, <1>9 DEF IInv

\* Rejecting an expired or revoked token stages nothing.
LEMMA RejectEndedStep ==
    ASSUME IInv, NEW p \in Request, RejectEnded(p)
    PROVE  IInv'
<1>1. /\ StagedIsLocked'
      /\ EntityIsCurrent'
      /\ FamilyIsAChain'
      /\ RevocationCoversSnapshot'
      /\ ExpiryBounded'
  BY LocalFrame DEF RejectEnded
<1>2. TypeOK'
  BY DEF IInv, TypeOK, RejectEnded, Step, ReadClock, store, world
<1>3. HandlerState'
  BY DEF IInv, HandlerState, RejectEnded, Step, ReadClock
<1>4. RevocationStaged'
  BY DEF IInv, RevocationStaged, InUpdate, Active, Exists, RejectEnded, Step,
         ReadClock, store
<1>5. ReplacementStaged'
  BY DEF IInv, ReplacementStaged, LoginStaged, RotationStaged, Exists,
         RejectEnded, Step, ReadClock, store
<1>6. SnapshotIsCurrent'
  BY DEF IInv, SnapshotIsCurrent, Exists, RejectEnded, Step, store
<1>7. QED
  BY <1>1, <1>2, <1>3, <1>4, <1>5, <1>6 DEF IInv

\* Detecting a reuse stages nothing before its revocation.
LEMMA DetectReuseStep ==
    ASSUME IInv, NEW p \in Request, DetectReuse(p)
    PROVE  IInv'
<1>1. /\ StagedIsLocked'
      /\ EntityIsCurrent'
      /\ FamilyIsAChain'
      /\ RevocationCoversSnapshot'
      /\ ExpiryBounded'
  BY LocalFrame DEF DetectReuse
<1>2. TypeOK'
  BY DEF IInv, TypeOK, DetectReuse, Step, ReadClock, store, world
<1>3. HandlerState'
  BY DEF IInv, TypeOK, HandlerState, DetectReuse, Step, ReadClock
<1>4. RevocationStaged'
  BY DEF IInv, RevocationStaged, InUpdate, Active, Exists, DetectReuse, Step,
         ReadClock, store
<1>5. ReplacementStaged'
  BY DEF IInv, ReplacementStaged, LoginStaged, RotationStaged, Exists,
         DetectReuse, Step, ReadClock, store
<1>6. SnapshotIsCurrent'
  BY DEF IInv, SnapshotIsCurrent, Exists, DetectReuse, Step, store
<1>7. QED
  BY <1>1, <1>2, <1>3, <1>4, <1>5, <1>6 DEF IInv

\* Only an entity that is neither revoked nor rotated goes on to a rotation.
LEMMA AcceptTokenStep ==
    ASSUME IInv, NEW p \in Request, AcceptToken(p)
    PROVE  IInv'
<1>1. /\ StagedIsLocked'
      /\ EntityIsCurrent'
      /\ FamilyIsAChain'
      /\ RevocationCoversSnapshot'
      /\ ExpiryBounded'
  BY LocalFrame DEF AcceptToken
<1>2. TypeOK'
  BY DEF IInv, TypeOK, AcceptToken, Step, ReadClock, store, world
<1>3. HandlerState'
  BY DEF IInv, TypeOK, HandlerState, AcceptToken, Step, ReadClock, Acceptable
<1>4. RevocationStaged'
  BY DEF IInv, RevocationStaged, InUpdate, Active, Exists, AcceptToken, Step,
         ReadClock, store
<1>5. ReplacementStaged'
  BY DEF IInv, ReplacementStaged, LoginStaged, RotationStaged, Exists,
         AcceptToken, Step, ReadClock, store
<1>6. SnapshotIsCurrent'
  BY DEF IInv, SnapshotIsCurrent, Exists, AcceptToken, Step, store
<1>7. QED
  BY <1>1, <1>2, <1>3, <1>4, <1>5, <1>6 DEF IInv

\* A logout that found its session stages nothing before its revocation.
LEMMA LogoutFoundStep ==
    ASSUME IInv, NEW p \in Request, LogoutFound(p)
    PROVE  IInv'
<1>1. /\ StagedIsLocked'
      /\ EntityIsCurrent'
      /\ FamilyIsAChain'
      /\ RevocationCoversSnapshot'
      /\ ExpiryBounded'
  BY LocalFrame DEF LogoutFound
<1>2. TypeOK'
  BY DEF IInv, TypeOK, LogoutFound, Step, ReadClock, store, world
<1>3. HandlerState'
  BY DEF IInv, TypeOK, HandlerState, LogoutFound, Step, ReadClock
<1>4. RevocationStaged'
  BY DEF IInv, RevocationStaged, InUpdate, Active, Exists, LogoutFound, Step,
         ReadClock, store
<1>5. ReplacementStaged'
  BY DEF IInv, ReplacementStaged, LoginStaged, RotationStaged, Exists,
         LogoutFound, Step, ReadClock, store
<1>6. SnapshotIsCurrent'
  BY DEF IInv, SnapshotIsCurrent, Exists, LogoutFound, Step, store
<1>7. QED
  BY <1>1, <1>2, <1>3, <1>4, <1>5, <1>6 DEF IInv

\* Rejecting a deactivated user stages nothing.
LEMMA RejectUserStep ==
    ASSUME IInv, NEW p \in Request, RejectUser(p)
    PROVE  IInv'
<1>1. /\ StagedIsLocked'
      /\ EntityIsCurrent'
      /\ FamilyIsAChain'
      /\ RevocationCoversSnapshot'
      /\ ExpiryBounded'
  BY LocalFrame DEF RejectUser, local
<1>2. TypeOK'
  BY DEF IInv, TypeOK, RejectUser, Step, store, local, world
<1>3. HandlerState'
  BY DEF IInv, HandlerState, RejectUser, Step, local
<1>4. RevocationStaged'
  BY DEF IInv, RevocationStaged, InUpdate, Active, Exists, RejectUser, Step,
         store, local
<1>5. ReplacementStaged'
  BY DEF IInv, ReplacementStaged, LoginStaged, RotationStaged, Exists,
         RejectUser, Step, store, local
<1>6. SnapshotIsCurrent'
  BY DEF IInv, SnapshotIsCurrent, Exists, RejectUser, Step, store, local
<1>7. QED
  BY <1>1, <1>2, <1>3, <1>4, <1>5, <1>6 DEF IInv

\* Loading an active user keeps the entity that is about to be rotated.
LEMMA LoadUserStep ==
    ASSUME IInv, NEW p \in Request, LoadUser(p)
    PROVE  IInv'
<1>1. /\ StagedIsLocked'
      /\ EntityIsCurrent'
      /\ FamilyIsAChain'
      /\ RevocationCoversSnapshot'
      /\ ExpiryBounded'
  BY LocalFrame DEF LoadUser, local
<1>2. TypeOK'
  BY DEF IInv, TypeOK, LoadUser, Step, store, local, world
<1>3. HandlerState'
  BY DEF IInv, HandlerState, LoadUser, Step, local
<1>4. RevocationStaged'
  BY DEF IInv, RevocationStaged, InUpdate, Active, Exists, LoadUser, Step,
         store, local
<1>5. ReplacementStaged'
  BY DEF IInv, ReplacementStaged, LoginStaged, RotationStaged, Exists,
         LoadUser, Step, store, local
<1>6. SnapshotIsCurrent'
  BY DEF IInv, SnapshotIsCurrent, Exists, LoadUser, Step, store, local
<1>7. QED
  BY <1>1, <1>2, <1>3, <1>4, <1>5, <1>6 DEF IInv

\* An UPDATE answers once no row it selected is left to visit.
LEMMA RevokeDoneStep ==
    ASSUME IInv, NEW p \in Request, RevokeDone(p)
    PROVE  IInv'
<1>1. /\ StagedIsLocked'
      /\ EntityIsCurrent'
      /\ FamilyIsAChain'
      /\ RevocationCoversSnapshot'
      /\ ExpiryBounded'
  BY LocalFrame DEF RevokeDone, local
<1>2. TypeOK'
  BY DEF IInv, TypeOK, RevokeDone, Step, store, local, world
<1>3. HandlerState'
  BY DEF IInv, HandlerState, RevokeDone, Step, local
<1>4. RevocationStaged'
  BY DEF IInv, RevocationStaged, InUpdate, Active, Exists, RevokeDone, Step,
         store, local
<1>5. ReplacementStaged'
  BY DEF IInv, ReplacementStaged, LoginStaged, RotationStaged, Exists,
         RevokeDone, Step, store, local
<1>6. SnapshotIsCurrent'
  BY DEF IInv, SnapshotIsCurrent, Exists, RevokeDone, Step, store, local
<1>7. QED
  BY <1>1, <1>2, <1>3, <1>4, <1>5, <1>6 DEF IInv

\* Sending the tokens changes neither the rows nor what is staged.
LEMMA IssueTokensStep ==
    ASSUME IInv, NEW p \in Request, IssueTokens(p)
    PROVE  IInv'
<1>1. /\ StagedIsLocked'
      /\ EntityIsCurrent'
      /\ FamilyIsAChain'
      /\ RevocationCoversSnapshot'
      /\ ExpiryBounded'
  BY LocalFrame DEF IssueTokens, local
<1>2. TypeOK'
  BY DEF IInv, TypeOK, HandlerState, IssueTokens, Step, store, local
<1>3. HandlerState'
  BY DEF IInv, HandlerState, IssueTokens, Step, local
<1>4. RevocationStaged'
  BY DEF IInv, RevocationStaged, InUpdate, Active, Exists, IssueTokens, Step,
         store, local
<1>5. ReplacementStaged'
  BY DEF IInv, ReplacementStaged, LoginStaged, RotationStaged, Exists,
         IssueTokens, Step, store, local
<1>6. SnapshotIsCurrent'
  BY DEF IInv, SnapshotIsCurrent, Exists, IssueTokens, Step, store, local
<1>7. QED
  BY <1>1, <1>2, <1>3, <1>4, <1>5, <1>6 DEF IInv

\* The UPDATE selects the active rows of the family, the entity's own among
\* them unless it has ended.
LEMMA RevokeFamilyStep ==
    ASSUME IInv, NEW p \in Request, RevokeFamily(p)
    PROVE  IInv'
<1>1. FamilyIsAChain' /\ ExpiryBounded'
  BY StoreFrame DEF RevokeFamily, store
<1>2. TypeOK'
  BY DEF IInv, TypeOK, RevokeFamily, Step, store, world
<1>3. StagedIsLocked'
  BY DEF IInv, StagedIsLocked, RevokeFamily, store
<1>4. EntityIsCurrent'
  BY DEF IInv, EntityIsCurrent, RevokeFamily, store
<1>5. HandlerState'
  BY DEF IInv, TypeOK, HandlerState, RevokeFamily, Step
<1>6. RevocationStaged'
  BY DEF IInv, RevocationStaged, InUpdate, Active, Exists, RevokeFamily,
         Step, store
<1>7. ReplacementStaged'
  BY DEF IInv, ReplacementStaged, LoginStaged, RotationStaged, Exists,
         RevokeFamily, Step, store
<1>8. SnapshotIsCurrent'
  BY DEF IInv, TypeOK, SnapshotIsCurrent, Exists, HandlerState,
         EntityIsCurrent, RevokeFamily, Step, InUpdate, Active, store
<1>9. RevocationCoversSnapshot'
  BY DEF IInv, TypeOK, RevocationCoversSnapshot, RevokeFamily, store
<1>10. QED
  BY <1>1, <1>2, <1>3, <1>4, <1>5, <1>6, <1>7, <1>8, <1>9 DEF IInv

\* A new request has loaded nothing yet.
LEMMA BeginStep ==
    ASSUME IInv, NEW p \in Request, NEW o \in {"refresh", "logout"},
           NEW t \in delivered \cup {Null}, Begin(p, o, t)
    PROVE  IInv'
<1>1. FamilyIsAChain' /\ ExpiryBounded'
  BY StoreFrame DEF Begin, store
<1>2. TypeOK'
  BY DEF IInv, TypeOK, Begin, Step, store, world
<1>3. StagedIsLocked'
  BY DEF IInv, StagedIsLocked, Begin, store
<1>4. EntityIsCurrent'
  BY DEF IInv, EntityIsCurrent, HandlerState, Begin, Step, store
<1>5. HandlerState'
  BY DEF IInv, HandlerState, Begin, Step
<1>6. RevocationStaged'
  BY DEF IInv, RevocationStaged, InUpdate, Active, Exists, Begin, Step, store
<1>7. ReplacementStaged'
  BY DEF IInv, ReplacementStaged, LoginStaged, RotationStaged, Exists, Begin,
         Step, store
<1>8. SnapshotIsCurrent'
  BY DEF IInv, SnapshotIsCurrent, Exists, HandlerState, Begin, Step, store
<1>9. RevocationCoversSnapshot'
  BY DEF IInv, RevocationCoversSnapshot, Begin, store
<1>10. QED
  BY <1>1, <1>2, <1>3, <1>4, <1>5, <1>6, <1>7, <1>8, <1>9 DEF IInv

\* A row is skipped only when its newest version has ended, so that skipping
\* it leaves no active row behind.
LEMMA SkipRowStep ==
    ASSUME IInv, NEW p \in Request, NEW s \in Session, SkipRow(p, s)
    PROVE  IInv'
<1>1. FamilyIsAChain' /\ ExpiryBounded'
  BY StoreFrame DEF SkipRow
<1>2. TypeOK'
  BY DEF IInv, TypeOK, SkipRow, world
<1>3. StagedIsLocked'
  BY NullAssumption DEF IInv, StagedIsLocked, SkipRow, ReachRow
<1>4. EntityIsCurrent'
  BY NullAssumption DEF IInv, EntityIsCurrent, SkipRow, ReachRow
<1>5. HandlerState'
  BY DEF IInv, HandlerState, SkipRow
<1>6. RevocationStaged'
  BY DEF IInv, RevocationStaged, InUpdate, Active, Exists, SkipRow
<1>7. ReplacementStaged'
  BY DEF IInv, ReplacementStaged, LoginStaged, RotationStaged, Exists, SkipRow
<1>8. SnapshotIsCurrent'
  BY DEF IInv, SnapshotIsCurrent, Exists, SkipRow
<1>9. RevocationCoversSnapshot'
  BY DEF IInv, RevocationCoversSnapshot, SnapshotIsCurrent, InUpdate, Active,
         SkipRow
<1>10. QED
  BY <1>1, <1>2, <1>3, <1>4, <1>5, <1>6, <1>7, <1>8, <1>9 DEF IInv

\* The clock and the deactivation of users touch no row and no request.
LEMMA EnvironmentStep ==
    ASSUME IInv, Environment
    PROVE  IInv'
<1>1. /\ StagedIsLocked'
      /\ EntityIsCurrent'
      /\ FamilyIsAChain'
      /\ RevocationCoversSnapshot'
      /\ ExpiryBounded'
  BY LocalFrame DEF Environment, Tick, StepBack, Deactivate, Reactivate, local
<1>2. TypeOK'
  BY ClockAssumption
  DEF IInv, TypeOK, Environment, Tick, StepBack, Deactivate, Reactivate,
      store, local
<1>3. HandlerState'
  BY DEF IInv, HandlerState, Environment, Tick, StepBack, Deactivate,
         Reactivate, local
<1>4. RevocationStaged'
  BY DEF IInv, RevocationStaged, InUpdate, Active, Exists, Environment, Tick,
         StepBack, Deactivate, Reactivate, store, local
<1>5. ReplacementStaged'
  BY DEF IInv, ReplacementStaged, LoginStaged, RotationStaged, Exists,
         Environment, Tick, StepBack, Deactivate, Reactivate, store, local
<1>6. SnapshotIsCurrent'
  BY DEF IInv, SnapshotIsCurrent, Exists, Environment, Tick, StepBack,
         Deactivate, Reactivate, store, local
<1>7. QED
  BY <1>1, <1>2, <1>3, <1>4, <1>5, <1>6 DEF IInv

\* What the replacement of a rotated row inherits.
LEMMA ReplacementFacts ==
    ASSUME NEW old \in Row, NEW at \in Nat
    PROVE  /\ ReplacementRow(old, at) \in Row
           /\ ReplacementRow(old, at).user = old.user
           /\ ReplacementRow(old, at).family = old.family
           /\ ReplacementRow(old, at).expires_at = old.expires_at
           /\ ~is_revoked(ReplacementRow(old, at))
           /\ ~is_rotated(ReplacementRow(old, at))
<1>1. old.user \in User /\ old.family \in Session /\ old.expires_at \in Nat
  BY RowFacts
<1>2. QED
  BY <1>1, NewRowFacts DEF ReplacementRow

\* A login stages one new family and nothing else.
LEMMA LoginStep ==
    ASSUME IInv, NEW p \in Request, NEW u \in User, NEW s \in Session, Login(p, u, s)
    PROVE  IInv'
<1> DEFINE row == NewRow(u, s, clock, clock + TTL)
<1>1. row \in Row /\ row # Null
  BY NewRowFacts, RowAssumption, TTLAssumption, ClockAssumption DEF IInv, TypeOK
<1>2. /\ repl[p] = Null /\ entity[p] = Null /\ matched[p] = {} /\ todo[p] = {}
      /\ \A t \in Session : staged[p][t] = Null
  BY NullAssumption
  DEF IInv, TypeOK, HandlerState, ReplacementStaged, LoginStaged, RotationStaged,
      RevocationStaged, Login, Step
<1>3. s # Null
  BY NullAssumption
<1> HIDE DEF row
<1>4. /\ pc' = [pc EXCEPT ![p] = "issue"] /\ pc[p] = "idle"
      /\ op' = [op EXCEPT ![p] = "login"]
      /\ now' = [now EXCEPT ![p] = clock]
      /\ repl' = [repl EXCEPT ![p] = s]
      /\ staged' = [staged EXCEPT ![p][s] = row]
      /\ owner' = [owner EXCEPT ![s] = p] /\ owner[s] = Null /\ ~Exists(s)
      /\ UNCHANGED <<auth_sessions, token, entity, matched, todo, clock, delivered, active>>
  BY DEF Login, Step, Write, Fresh, world, row
<1>5. FamilyIsAChain' /\ ExpiryBounded'
  BY <1>4, StoreFrame
<1>6. TypeOK'
  BY <1>1, <1>4, ClockAssumption, NullAssumption DEF IInv, TypeOK
<1>7. StagedIsLocked'
  BY <1>2, <1>4, NullAssumption DEF IInv, TypeOK, StagedIsLocked
<1>8. EntityIsCurrent'
  BY <1>2, <1>4, NullAssumption DEF IInv, TypeOK, EntityIsCurrent
<1>9. HandlerState'
  BY <1>2, <1>3, <1>4 DEF IInv, TypeOK, HandlerState
<1>10. RevocationStaged'
  BY <1>3, <1>4 DEF IInv, TypeOK, RevocationStaged, InUpdate, Active, Exists
<1>11. ReplacementStaged'
  <2> SUFFICES ASSUME NEW q \in Request, repl'[q] # Null
               PROVE  (~Exists(repl[q]) /\ (LoginStaged(q) \/ RotationStaged(q)))'
    BY DEF ReplacementStaged
  <2>1. CASE q = p
    <3>1. LoginStaged(p)'
      BY <1>1, <1>2, <1>4 DEF IInv, TypeOK, LoginStaged, row
    <3>2. ~Exists(repl[p])'
      BY <1>4 DEF IInv, TypeOK, Exists
    <3>3. QED
      BY <2>1, <3>1, <3>2
  <2>2. CASE q # p
    BY <1>4, <2>2
    DEF IInv, TypeOK, ReplacementStaged, LoginStaged, RotationStaged, Exists
  <2>3. QED
    BY <2>1, <2>2
<1>12. SnapshotIsCurrent'
  BY <1>2, <1>4 DEF IInv, TypeOK, SnapshotIsCurrent, Exists
<1>13. RevocationCoversSnapshot'
  BY <1>1, <1>2, <1>4 DEF IInv, TypeOK, RevocationCoversSnapshot
<1>14. QED
  BY <1>5, <1>6, <1>7, <1>8, <1>9, <1>10, <1>11, <1>12, <1>13 DEF IInv

\* The replacement is staged under an identifier nobody has, for a token whose
\* row is locked.
LEMMA SaveReplacementStep ==
    ASSUME IInv, NEW p \in Request, NEW s \in Session, SaveReplacement(p, s)
    PROVE  IInv'
<1> DEFINE row == ReplacementRow(entity[p], now[p])
<1>1. /\ entity[p] \in Row /\ now[p] \in Nat
      /\ ~is_revoked(entity[p]) /\ ~is_rotated(entity[p])
      /\ op[p] = "refresh"
  BY DEF IInv, TypeOK, HandlerState, SaveReplacement, Step
<1>2. row \in Row /\ row # Null
  BY <1>1, ReplacementFacts, RowAssumption
<1>3. /\ repl[p] = Null
      /\ \A t \in Session : staged[p][t] = Null
  BY DEF IInv, TypeOK, ReplacementStaged, LoginStaged, RotationStaged, RevocationStaged,
         SaveReplacement, Step
<1>4. s # Null
  BY NullAssumption
<1>5. token[p] \in Session /\ owner[token[p]] = p /\ auth_sessions[token[p]] = entity[p]
  BY <1>1, RowAssumption DEF IInv, EntityIsCurrent
<1> HIDE DEF row
<1>6. /\ pc' = [pc EXCEPT ![p] = "save_rotated"] /\ pc[p] = "save_replacement"
      /\ repl' = [repl EXCEPT ![p] = s]
      /\ staged' = [staged EXCEPT ![p][s] = row]
      /\ owner' = [owner EXCEPT ![s] = p] /\ owner[s] = Null /\ ~Exists(s)
      /\ UNCHANGED <<auth_sessions, op, token, entity, now, matched, todo, clock,
                     delivered, active>>
  BY DEF SaveReplacement, Step, Write, Fresh, world, row
<1>7. s # token[p]
  BY <1>5, <1>6, NullAssumption
<1>8. FamilyIsAChain' /\ ExpiryBounded'
  BY <1>6, StoreFrame
<1>9. TypeOK'
  BY <1>2, <1>6 DEF IInv, TypeOK
<1>10. StagedIsLocked'
  BY <1>3, <1>6, NullAssumption DEF IInv, TypeOK, StagedIsLocked
<1>11. EntityIsCurrent'
  BY <1>6, NullAssumption DEF IInv, TypeOK, EntityIsCurrent
<1>12. HandlerState'
  BY <1>1, <1>4, <1>6, RowAssumption DEF IInv, TypeOK, HandlerState
<1>13. RevocationStaged'
  BY <1>4, <1>6 DEF IInv, TypeOK, RevocationStaged, InUpdate, Active, Exists
<1>14. ReplacementStaged'
  <2> SUFFICES ASSUME NEW q \in Request, repl'[q] # Null
               PROVE  (~Exists(repl[q]) /\ (LoginStaged(q) \/ RotationStaged(q)))'
    BY DEF ReplacementStaged
  <2>1. CASE q = p
    <3>1. RotationStaged(p)'
      BY <1>1, <1>2, <1>3, <1>5, <1>6, <1>7, RowAssumption
      DEF IInv, TypeOK, RotationStaged, row
    <3>2. ~Exists(repl[p])'
      BY <1>6 DEF IInv, TypeOK, Exists
    <3>3. QED
      BY <2>1, <3>1, <3>2
  <2>2. CASE q # p
    BY <1>6, <2>2
    DEF IInv, TypeOK, ReplacementStaged, LoginStaged, RotationStaged, Exists
  <2>3. QED
    BY <2>1, <2>2
<1>15. SnapshotIsCurrent'
  BY <1>6 DEF IInv, TypeOK, SnapshotIsCurrent, Exists
<1>16. RevocationCoversSnapshot'
  BY <1>2, <1>6 DEF IInv, TypeOK, RevocationCoversSnapshot
<1>17. QED
  BY <1>8, <1>9, <1>10, <1>11, <1>12, <1>13, <1>14, <1>15, <1>16 DEF IInv

\* The rotated row is staged from an entity that is still current.
LEMMA SaveRotatedStep ==
    ASSUME IInv, NEW p \in Request, SaveRotated(p)
    PROVE  IInv'
<1> DEFINE row == rotate(entity[p], repl[p], now[p])
<1>1. /\ entity[p] \in Row
      /\ token[p] \in Session
      /\ owner[token[p]] = p
      /\ auth_sessions[token[p]] = entity[p]
  BY DEF IInv, TypeOK, HandlerState, EntityIsCurrent, SaveRotated, Step
<1>2. repl[p] # Null
  BY DEF IInv, HandlerState, SaveRotated, Step
<1>3. /\ repl[p] \in Session
      /\ ~Exists(repl[p])
      /\ RotationStaged(p)
  BY <1>2 DEF IInv, TypeOK, ReplacementStaged, LoginStaged, SaveRotated, Step
<1>4. row \in Row /\ row # Null
  BY <1>1, <1>3, RotateFacts, RowAssumption DEF RotationStaged
<1>5. repl[p] # token[p]
  BY <1>1, <1>3, RowAssumption DEF Exists
<1> HIDE DEF row
<1>6. /\ pc' = [pc EXCEPT ![p] = "issue"] /\ pc[p] = "save_rotated"
      /\ staged' = [staged EXCEPT ![p][token[p]] = row]
      /\ owner' = [owner EXCEPT ![token[p]] = p]
      /\ UNCHANGED <<auth_sessions, op, token, entity, now, repl, matched, todo, clock,
                     delivered, active>>
  BY DEF SaveRotated, Step, Write, local, world, row
<1>7. FamilyIsAChain' /\ ExpiryBounded'
  BY <1>6, StoreFrame
<1>8. TypeOK'
  BY <1>1, <1>4, <1>6 DEF IInv, TypeOK
<1>9. StagedIsLocked'
  BY <1>1, <1>6 DEF IInv, TypeOK, StagedIsLocked
<1>10. EntityIsCurrent'
  BY <1>1, <1>6 DEF IInv, TypeOK, EntityIsCurrent
<1>11. HandlerState'
  BY <1>2, <1>6 DEF IInv, TypeOK, HandlerState
<1>12. RevocationStaged'
  BY <1>2, <1>6 DEF IInv, TypeOK, RevocationStaged, InUpdate, Active, Exists
<1>13. ReplacementStaged'
  <2> SUFFICES ASSUME NEW q \in Request, repl'[q] # Null
               PROVE  (~Exists(repl[q]) /\ (LoginStaged(q) \/ RotationStaged(q)))'
    BY DEF ReplacementStaged
  <2>1. CASE q = p
    <3>1. RotationStaged(p)'
      BY <1>1, <1>3, <1>5, <1>6 DEF IInv, TypeOK, RotationStaged, row
    <3>2. ~Exists(repl[p])'
      BY <1>3, <1>6 DEF Exists
    <3>3. QED
      BY <2>1, <3>1, <3>2
  <2>2. CASE q # p
    BY <1>6, <2>2
    DEF IInv, TypeOK, ReplacementStaged, LoginStaged, RotationStaged, Exists
  <2>3. QED
    BY <2>1, <2>2
<1>14. SnapshotIsCurrent'
  BY <1>6 DEF IInv, TypeOK, SnapshotIsCurrent, Exists
<1>15. RevocationCoversSnapshot'
  BY <1>4, <1>6 DEF IInv, TypeOK, RevocationCoversSnapshot
<1>16. QED
  BY <1>7, <1>8, <1>9, <1>10, <1>11, <1>12, <1>13, <1>14, <1>15 DEF IInv

\* The UPDATE stages a revocation of the newest version of a row it locked.
LEMMA RevokeRowStep ==
    ASSUME IInv, NEW p \in Request, NEW s \in Session, RevokeRow(p, s)
    PROVE  IInv'
<1> DEFINE row == revoke(auth_sessions[s], now[p])
<1>1. now[p] \in Nat /\ pc[p] = "updating" /\ repl[p] = Null
  BY DEF IInv, HandlerState, ReplacementStaged, LoginStaged, RotationStaged, RevokeRow, ReachRow
<1>2. InUpdate(p, s) /\ entity[p] # Null /\ auth_sessions[s] \in Row
  BY DEF IInv, TypeOK, HandlerState, RevokeRow, ReachRow, InUpdate, Active, Exists
<1>3. row \in Row /\ row # Null
  BY <1>1, <1>2, RevokeFacts, RowAssumption
<1> HIDE DEF row
<1>4. /\ owner[s] \in {Null, p}
      /\ staged' = [staged EXCEPT ![p][s] = row]
      /\ owner' = [owner EXCEPT ![s] = p]
      /\ todo' = [todo EXCEPT ![p] = todo[p] \ {s}]
      /\ UNCHANGED <<auth_sessions, pc, op, token, entity, now, repl, matched, clock,
                     delivered, active>>
  BY DEF RevokeRow, ReachRow, Write, world, row
<1>5. FamilyIsAChain' /\ ExpiryBounded'
  BY <1>4, StoreFrame
<1>6. TypeOK'
  BY <1>3, <1>4 DEF IInv, TypeOK
<1>7. StagedIsLocked'
  BY <1>4, NullAssumption DEF IInv, TypeOK, StagedIsLocked
<1>8. EntityIsCurrent'
  BY <1>4, NullAssumption DEF IInv, TypeOK, EntityIsCurrent
<1>9. HandlerState'
  BY <1>1, <1>4 DEF IInv, TypeOK, HandlerState
<1>10. RevocationStaged'
  <2> SUFFICES ASSUME NEW q \in Request, repl'[q] = Null,
                      NEW t \in Session, staged'[q][t] # Null
               PROVE  (/\ pc[q] \in {"updating", "replied"}
                       /\ now[q] \in Nat
                       /\ entity[q] # Null
                       /\ InUpdate(q, t)
                       /\ staged[q][t] = revoke(auth_sessions[t], now[q]))'
    BY DEF RevocationStaged
  <2>1. CASE q = p /\ t = s
    BY <1>1, <1>2, <1>4, <2>1 DEF IInv, TypeOK, InUpdate, Active, Exists, row
  <2>2. CASE ~(q = p /\ t = s)
    <3>1. staged'[q][t] = staged[q][t]
      BY <1>4, <2>2 DEF IInv, TypeOK
    <3>2. QED
      BY <1>4, <3>1 DEF IInv, RevocationStaged, InUpdate, Active, Exists
  <2>3. QED
    BY <2>1, <2>2
<1>11. ReplacementStaged'
  BY <1>1, <1>4 DEF IInv, TypeOK, ReplacementStaged, LoginStaged, RotationStaged, Exists
<1>12. SnapshotIsCurrent'
  BY <1>4 DEF IInv, TypeOK, SnapshotIsCurrent, Exists
<1>13. RevocationCoversSnapshot'
  BY <1>3, <1>4 DEF IInv, TypeOK, RevocationCoversSnapshot
<1>14. QED
  BY <1>5, <1>6, <1>7, <1>8, <1>9, <1>10, <1>11, <1>12, <1>13 DEF IInv

\* A rollback drops what was staged and keeps every committed row.
LEMMA AbortStep ==
    ASSUME IInv, NEW p \in Request, Abort(p)
    PROVE  IInv'
<1>1. FamilyIsAChain' /\ ExpiryBounded'
  BY StoreFrame DEF Abort
<1>2. TypeOK'
  BY DEF IInv, TypeOK, Abort, End, Release, NothingStaged, world
<1>3. StagedIsLocked'
  BY DEF IInv, TypeOK, StagedIsLocked, Abort, End, Release, NothingStaged
<1>4. EntityIsCurrent'
  BY DEF IInv, TypeOK, EntityIsCurrent, Abort, End, Release
<1>5. HandlerState'
  BY DEF IInv, TypeOK, HandlerState, Abort, End
<1>6. RevocationStaged'
  BY DEF IInv, TypeOK, RevocationStaged, InUpdate, Active, Exists, Abort, End, NothingStaged
<1>7. ReplacementStaged'
  BY DEF IInv, TypeOK, ReplacementStaged, LoginStaged, RotationStaged, Exists,
         Abort, End, NothingStaged
<1>8. SnapshotIsCurrent'
  BY DEF IInv, TypeOK, SnapshotIsCurrent, Exists, Abort, End
<1>9. RevocationCoversSnapshot'
  BY DEF IInv, TypeOK, RevocationCoversSnapshot, Abort, End, NothingStaged
<1>10. QED
  BY <1>1, <1>2, <1>3, <1>4, <1>5, <1>6, <1>7, <1>8, <1>9 DEF IInv

-----------------------------------------------------------------------------
(* What a commit does to the table: nothing, or one of three things.       *)

Revokes(f, n) ==
    \A s \in Session :
        \/ auth_sessions'[s] = auth_sessions[s]
        \/ /\ s \in Family(f) /\ Active(s) /\ n \in Nat
           /\ auth_sessions'[s] = revoke(auth_sessions[s], n)

Opens(r, u, at) ==
    /\ ~Exists(r)
    /\ auth_sessions' = [auth_sessions EXCEPT ![r] = NewRow(u, r, at, at + TTL)]

Rotates(old, r, at) ==
    /\ Active(old)
    /\ ~is_rotated(auth_sessions[old])
    /\ ~Exists(r)
    /\ auth_sessions' = [auth_sessions EXCEPT
                            ![old] = rotate(auth_sessions[old], r, at),
                            ![r] = ReplacementRow(auth_sessions[old], at)]

\* A commit leaves the table alone, revokes active rows of one family at one
\* moment, opens a family, or rotates one active row.
LEMMA CommitShape ==
    ASSUME IInv, NEW p \in Request, Commit(p)
    PROVE  \/ UNCHANGED auth_sessions
           \/ \E f \in Session, n \in Nat \cup {Null} : Revokes(f, n)
           \/ \E r \in Session, u \in User, at \in 0..MaxClock : Opens(r, u, at)
           \/ \E old, r \in Session, at \in Nat : Rotates(old, r, at)
<1>1. auth_sessions' = [s \in Session |-> IF staged[p][s] # Null THEN staged[p][s]
                                         ELSE auth_sessions[s]]
  BY DEF Commit
<1>2. pc[p] = "replied"
  BY DEF Commit
<1>3. auth_sessions \in [Session -> Row \cup {Null}]
  BY DEF IInv, TypeOK
<1>4. CASE repl[p] = Null
  <2>1. now[p] \in Nat \cup {Null}
    BY DEF IInv, TypeOK
  <2>2. CASE entity[p] = Null
    <3>1. \A s \in Session : staged[p][s] = Null
      BY <1>4, <2>2 DEF IInv, RevocationStaged
    <3>2. QED
      BY <1>1, <1>3, <3>1
  <2>3. CASE entity[p] # Null
    <3>1. entity[p].family \in Session
      BY <2>3, RowFacts DEF IInv, TypeOK
    <3>2. Revokes(entity[p].family, now[p])
      BY <1>1, <1>4 DEF IInv, RevocationStaged, InUpdate, Active, Revokes, Family
    <3>3. QED
      BY <2>1, <3>1, <3>2
  <2>4. QED
    BY <2>2, <2>3
<1>5. CASE repl[p] # Null /\ LoginStaged(p)
  <2>1. PICK u \in User : staged[p][repl[p]] = NewRow(u, repl[p], now[p], now[p] + TTL)
    BY <1>5 DEF LoginStaged
  <2>2. repl[p] \in Session /\ ~Exists(repl[p]) /\ now[p] \in 0..MaxClock
    BY <1>5 DEF IInv, TypeOK, ReplacementStaged, LoginStaged
  <2>3. NewRow(u, repl[p], now[p], now[p] + TTL) # Null
    BY <2>2, NewRowFacts, RowAssumption, TTLAssumption, ClockAssumption
  <2>4. Opens(repl[p], u, now[p])
    BY <1>1, <1>3, <1>5, <2>1, <2>2, <2>3 DEF Opens, LoginStaged
  <2>5. QED
    BY <2>2, <2>4
<1>6. CASE repl[p] # Null /\ RotationStaged(p)
  <2>1. /\ entity[p] \in Row /\ token[p] \in Session
        /\ auth_sessions[token[p]] = entity[p]
    BY <1>6 DEF IInv, TypeOK, EntityIsCurrent, RotationStaged
  <2>2. repl[p] \in Session /\ ~Exists(repl[p]) /\ now[p] \in Nat
    BY <1>6 DEF IInv, TypeOK, ReplacementStaged, RotationStaged
  <2>3. repl[p] # token[p]
    BY <2>1, <2>2, RowAssumption DEF Exists
  <2>4. /\ staged[p][token[p]] = rotate(auth_sessions[token[p]], repl[p], now[p])
        /\ staged[p][repl[p]] = ReplacementRow(auth_sessions[token[p]], now[p])
        /\ \A s \in Session \ {repl[p], token[p]} : staged[p][s] = Null
    BY <1>2, <1>6, <2>1 DEF RotationStaged
  <2>5. staged[p][token[p]] # Null /\ staged[p][repl[p]] # Null
    <3>1. rotate(auth_sessions[token[p]], repl[p], now[p]) \in Row
      BY <2>1, <2>2, RotateFacts
    <3>2. ReplacementRow(auth_sessions[token[p]], now[p]) \in Row
      BY <2>1, <2>2, ReplacementFacts
    <3>3. QED
      BY <2>4, <3>1, <3>2, RowAssumption
  <2>6. Active(token[p]) /\ ~is_rotated(auth_sessions[token[p]])
    BY <1>6, <2>1, RowAssumption DEF RotationStaged, Active, Exists
  <2>7. Rotates(token[p], repl[p], now[p])
    BY <1>1, <1>3, <2>1, <2>2, <2>3, <2>4, <2>5, <2>6 DEF Rotates
  <2>8. QED
    BY <2>1, <2>2, <2>7
<1>7. QED
  BY <1>4, <1>5, <1>6 DEF IInv, ReplacementStaged

\* A commit deletes no row, moves none to another family, and leaves the rows
\* that have been revoked as they are.
LEMMA CommitMonotone ==
    ASSUME IInv, NEW p \in Request, Commit(p), NEW s \in Session, Exists(s)
    PROVE  /\ Exists(s)'
           /\ auth_sessions'[s].user = auth_sessions[s].user
           /\ auth_sessions'[s].family = auth_sessions[s].family
           /\ auth_sessions'[s].expires_at = auth_sessions[s].expires_at
           /\ is_revoked(auth_sessions[s]) => auth_sessions'[s] = auth_sessions[s]
<1>1. auth_sessions \in [Session -> Row \cup {Null}] /\ auth_sessions[s] \in Row
  BY DEF IInv, TypeOK, Exists
<1>2. ASSUME NEW f \in Session, NEW n \in Nat \cup {Null}, Revokes(f, n)
      PROVE  \/ auth_sessions'[s] = auth_sessions[s]
             \/ /\ ~is_revoked(auth_sessions[s])
                /\ \E m \in Nat : auth_sessions'[s] = revoke(auth_sessions[s], m)
  BY <1>2 DEF Revokes, Active
<1>3. ASSUME NEW r \in Session, NEW u \in User, NEW at \in 0..MaxClock, Opens(r, u, at)
      PROVE  auth_sessions'[s] = auth_sessions[s]
  BY <1>1, <1>3 DEF Opens, Exists
<1>4. ASSUME NEW old \in Session, NEW r \in Session, NEW at \in Nat, Rotates(old, r, at)
      PROVE  \/ auth_sessions'[s] = auth_sessions[s]
             \/ /\ ~is_revoked(auth_sessions[s])
                /\ \E q \in Session, m \in Nat : auth_sessions'[s] = rotate(auth_sessions[s], q, m)
  BY <1>1, <1>4 DEF Rotates, Exists, Active
<1>5. \/ auth_sessions'[s] = auth_sessions[s]
      \/ /\ ~is_revoked(auth_sessions[s])
         /\ \/ \E m \in Nat : auth_sessions'[s] = revoke(auth_sessions[s], m)
            \/ \E q \in Session, m \in Nat : auth_sessions'[s] = rotate(auth_sessions[s], q, m)
  BY <1>2, <1>3, <1>4, CommitShape
<1>6. QED
  BY <1>1, <1>5, RevokeFacts, RotateFacts, RowAssumption DEF Exists

\* Committing revocations keeps every family a chain.
LEMMA RevokesKeepsChain ==
    ASSUME IInv, NEW f \in Session, NEW n \in Nat \cup {Null}, Revokes(f, n)
    PROVE  FamilyIsAChain' /\ ExpiryBounded'
<1>1. \A s \in Session :
        /\ Exists(s)' <=> Exists(s)
        /\ Exists(s) =>
            /\ auth_sessions'[s].user = auth_sessions[s].user
            /\ auth_sessions'[s].family = auth_sessions[s].family
            /\ auth_sessions'[s].expires_at = auth_sessions[s].expires_at
            /\ auth_sessions'[s].replaced_by = auth_sessions[s].replaced_by
            /\ is_revoked(auth_sessions[s]) => is_revoked(auth_sessions'[s])
  <2> SUFFICES ASSUME NEW s \in Session
               PROVE  /\ Exists(s)' <=> Exists(s)
                      /\ Exists(s) =>
                          /\ auth_sessions'[s].user = auth_sessions[s].user
                          /\ auth_sessions'[s].family = auth_sessions[s].family
                          /\ auth_sessions'[s].expires_at = auth_sessions[s].expires_at
                          /\ auth_sessions'[s].replaced_by = auth_sessions[s].replaced_by
                          /\ is_revoked(auth_sessions[s]) => is_revoked(auth_sessions'[s])
    OBVIOUS
  <2>1. CASE auth_sessions'[s] = auth_sessions[s]
    BY <2>1 DEF Exists
  <2>2. CASE auth_sessions'[s] # auth_sessions[s]
    <3>1. Active(s) /\ n \in Nat /\ auth_sessions'[s] = revoke(auth_sessions[s], n)
      BY <2>2 DEF Revokes
    <3>2. auth_sessions[s] \in Row
      BY <3>1 DEF IInv, TypeOK, Active, Exists
    <3>3. QED
      BY <3>1, <3>2, RevokeFacts, RowAssumption DEF Active, Exists
  <2>3. QED
    BY <2>1, <2>2
<1>2. \A g \in Session : Family(g)' = Family(g)
  BY <1>1 DEF Family
<1>3. FamilyIsAChain'
  BY <1>1, <1>2, SMTT(30) DEF IInv, FamilyIsAChain, Family, is_rotated
<1>4. ExpiryBounded'
  BY <1>1 DEF IInv, ExpiryBounded
<1>5. QED
  BY <1>3, <1>4

\* Committing a login adds a family of one.
LEMMA OpensKeepsChain ==
    ASSUME IInv, NEW r \in Session, NEW u \in User, NEW at \in 0..MaxClock, Opens(r, u, at)
    PROVE  FamilyIsAChain' /\ ExpiryBounded'
<1> DEFINE row == NewRow(u, r, at, at + TTL)
<1>1. /\ row \in Row /\ row.user = u /\ row.family = r /\ row.expires_at = at + TTL
      /\ ~is_revoked(row) /\ ~is_rotated(row)
  BY NewRowFacts, TTLAssumption, ClockAssumption
<1>2. auth_sessions' = [auth_sessions EXCEPT ![r] = row] /\ ~Exists(r)
  BY DEF Opens
<1>3. auth_sessions \in [Session -> Row \cup {Null}]
  BY DEF IInv, TypeOK
<1> HIDE DEF row
<1>4. \A s \in Session \ {r} : auth_sessions'[s] = auth_sessions[s]
  BY <1>2, <1>3
<1>5. auth_sessions'[r] = row
  BY <1>2, <1>3
<1>6. \A s \in Session : Exists(s) => auth_sessions[s].family # r
  BY <1>2 DEF IInv, FamilyIsAChain, Family, Exists
<1>7. Family(r)' = {r}
  BY <1>1, <1>4, <1>5, <1>6, RowAssumption DEF Family, Exists
<1>8. \A f \in Session \ {r} : Family(f)' = Family(f) /\ r \notin Family(f)
  BY <1>1, <1>2, <1>4, <1>5 DEF Family, Exists
<1>9. FamilyIsAChain'
  <2> SUFFICES ASSUME NEW f \in Session, NEW s \in Family(f)'
               PROVE  (/\ f \in Family(f)
                       /\ auth_sessions[s].user = auth_sessions[f].user
                       /\ auth_sessions[s].expires_at = auth_sessions[f].expires_at
                       /\ s # f => \E t \in Family(f) : auth_sessions[t].replaced_by = s
                       /\ is_rotated(auth_sessions[s]) =>
                            /\ is_revoked(auth_sessions[s])
                            /\ auth_sessions[s].replaced_by \in Family(f) \ {f, s}
                            /\ \A t \in Family(f) :
                                auth_sessions[t].replaced_by = auth_sessions[s].replaced_by
                                => t = s
                       /\ \A t \in Family(f) :
                            ~is_rotated(auth_sessions[s]) /\ ~is_rotated(auth_sessions[t])
                            => t = s)'
    BY DEF FamilyIsAChain
  <2>1. CASE f = r
    BY <1>1, <1>5, <1>7, <2>1
  <2>2. CASE f # r
    <3>1. s \in Family(f) /\ Family(f)' = Family(f) /\ r \notin Family(f)
      BY <1>8, <2>2
    <3>2. \A t \in Family(f) : auth_sessions'[t] = auth_sessions[t]
      BY <1>4, <3>1 DEF Family
    <3>3. QED
      BY <3>1, <3>2 DEF IInv, FamilyIsAChain
  <2>3. QED
    BY <2>1, <2>2
<1>10. ExpiryBounded'
  BY <1>1, <1>4, <1>5, TTLAssumption, ClockAssumption DEF IInv, ExpiryBounded, Exists
<1>11. QED
  BY <1>9, <1>10

\* Committing a rotation appends the replacement at the end of the chain: the
\* row that is replaced was the only one of its family without a successor.
LEMMA RotatesKeepsChain ==
    ASSUME IInv, NEW old \in Session, NEW r \in Session, NEW at \in Nat, Rotates(old, r, at)
    PROVE  FamilyIsAChain' /\ ExpiryBounded'
<1> DEFINE e == auth_sessions[old]
           ended == rotate(e, r, at)
           row == ReplacementRow(e, at)
<1>1. auth_sessions \in [Session -> Row \cup {Null}] /\ e \in Row /\ old # r
  BY DEF IInv, TypeOK, Rotates, Active, Exists
<1>2. r # Null
  BY NullAssumption
<1>3. PICK g \in Session : g = e.family
  BY <1>1, RowFacts
<1>4. /\ ended \in Row /\ ended.user = e.user /\ ended.family = g
      /\ ended.expires_at = e.expires_at /\ ended.replaced_by = r
      /\ is_revoked(ended) /\ is_rotated(ended)
  BY <1>1, <1>3, RotateFacts
<1>5. /\ row \in Row /\ row.user = e.user /\ row.family = g
      /\ row.expires_at = e.expires_at /\ ~is_revoked(row) /\ ~is_rotated(row)
  BY <1>1, <1>3, ReplacementFacts
<1>6. auth_sessions' = [auth_sessions EXCEPT ![old] = ended, ![r] = row]
  BY DEF Rotates
<1>7. ~Exists(r) /\ ~is_rotated(e) /\ Exists(old)
  BY DEF Rotates, Active
<1> HIDE DEF row, ended
<1>8. /\ auth_sessions'[old] = ended
      /\ auth_sessions'[r] = row
      /\ \A s \in Session \ {old, r} : auth_sessions'[s] = auth_sessions[s]
  BY <1>1, <1>6
<1>9. old \in Family(g) /\ r \notin Family(g) /\ g # r
  BY <1>7, <1>3 DEF IInv, FamilyIsAChain, Family
<1>10. Family(g)' = Family(g) \cup {r}
  BY <1>1, <1>3, <1>4, <1>5, <1>7, <1>8, RowAssumption DEF Family, Exists
<1>11. \A f \in Session \ {g} :
         Family(f)' = Family(f) /\ old \notin Family(f) /\ r \notin Family(f)
  BY <1>1, <1>3, <1>4, <1>5, <1>7, <1>8 DEF Family, Exists
<1>12. \A t \in Family(g) : auth_sessions[t].replaced_by # r
  BY <1>2, <1>9 DEF IInv, FamilyIsAChain, is_rotated
<1>13. \A s \in Family(g) \ {old} : is_rotated(auth_sessions[s])
  BY <1>7, <1>9 DEF IInv, FamilyIsAChain
<1>14. FamilyIsAChain'
  <2> SUFFICES ASSUME NEW f \in Session, NEW s \in Family(f)'
               PROVE  (/\ f \in Family(f)
                       /\ auth_sessions[s].user = auth_sessions[f].user
                       /\ auth_sessions[s].expires_at = auth_sessions[f].expires_at
                       /\ s # f => \E t \in Family(f) : auth_sessions[t].replaced_by = s
                       /\ is_rotated(auth_sessions[s]) =>
                            /\ is_revoked(auth_sessions[s])
                            /\ auth_sessions[s].replaced_by \in Family(f) \ {f, s}
                            /\ \A t \in Family(f) :
                                auth_sessions[t].replaced_by = auth_sessions[s].replaced_by
                                => t = s
                       /\ \A t \in Family(f) :
                            ~is_rotated(auth_sessions[s]) /\ ~is_rotated(auth_sessions[t])
                            => t = s)'
    BY DEF FamilyIsAChain
  <2>1. CASE f # g
    <3>1. s \in Family(f) /\ Family(f)' = Family(f)
      BY <1>11, <2>1
    <3>2. \A t \in Family(f) : auth_sessions'[t] = auth_sessions[t]
      BY <1>8, <1>11, <2>1 DEF Family
    <3>3. QED
      BY <3>1, <3>2 DEF IInv, FamilyIsAChain
  <2>2. CASE f = g
    <3>1. /\ g \in Family(g)
          /\ \A t \in Family(g) :
               /\ auth_sessions[t].user = auth_sessions[g].user
               /\ auth_sessions[t].expires_at = auth_sessions[g].expires_at
      BY <1>9 DEF IInv, FamilyIsAChain
    <3>2. \A t \in Family(g) :
            /\ auth_sessions'[t].user = auth_sessions[t].user
            /\ auth_sessions'[t].expires_at = auth_sessions[t].expires_at
            /\ t # old => auth_sessions'[t] = auth_sessions[t]
      BY <1>4, <1>8, <1>9 DEF Family
    <3>3. CASE s = r
      <4>1. auth_sessions'[r] = row /\ auth_sessions'[old].replaced_by = r
        BY <1>4, <1>8
      <4>2. \A t \in Family(g) : is_rotated(auth_sessions'[t])
        BY <1>4, <1>8, <1>13, <3>2
      <4>3. QED
        BY <1>5, <1>9, <1>10, <2>2, <3>1, <3>2, <3>3, <4>1, <4>2
    <3>4. CASE s = old
      <4>1. auth_sessions'[old] = ended
        BY <1>8
      <4>2. \A t \in Family(g) \ {old} : auth_sessions'[t].replaced_by # r
        BY <1>12, <3>2
      <4>3. auth_sessions'[r].replaced_by # r
        BY <1>2, <1>5, <1>8 DEF is_rotated
      <4>4. s # f => \E t \in Family(f)' : auth_sessions'[t].replaced_by = s
        <5>1. SUFFICES ASSUME s # f
                       PROVE  \E t \in Family(f)' : auth_sessions'[t].replaced_by = s
          OBVIOUS
        <5>2. PICK t \in Family(g) : auth_sessions[t].replaced_by = old
          BY <1>9, <2>2, <3>4, <5>1 DEF IInv, FamilyIsAChain
        <5>3. t # old
          BY <1>7, <5>2, NullAssumption DEF is_rotated
        <5>4. QED
          BY <1>10, <2>2, <3>2, <3>4, <5>2, <5>3
      <4>5. QED
        BY <1>4, <1>9, <1>10, <2>2, <3>1, <3>2, <3>4, <4>1, <4>2, <4>3, <4>4
    <3>5. CASE s # r /\ s # old
      <4>1. s \in Family(g) /\ auth_sessions'[s] = auth_sessions[s]
        BY <1>10, <2>2, <3>2, <3>5
      <4>2. is_rotated(auth_sessions[s])
        BY <1>13, <3>5, <4>1
      <4>3. /\ is_revoked(auth_sessions[s])
            /\ auth_sessions[s].replaced_by \in Family(g) \ {g, s}
            /\ \A t \in Family(g) :
                 auth_sessions[t].replaced_by = auth_sessions[s].replaced_by => t = s
        BY <4>1, <4>2 DEF IInv, FamilyIsAChain
      <4>4. \A t \in Family(g) \cup {r} :
              auth_sessions'[t].replaced_by = auth_sessions[s].replaced_by => t = s
        BY <1>4, <1>5, <1>8, <1>9, <3>2, <4>2, <4>3 DEF is_rotated
      <4>5. s # f => \E t \in Family(f)' : auth_sessions'[t].replaced_by = s
        <5>1. SUFFICES ASSUME s # f
                       PROVE  \E t \in Family(f)' : auth_sessions'[t].replaced_by = s
          OBVIOUS
        <5>2. PICK t \in Family(g) : auth_sessions[t].replaced_by = s
          BY <2>2, <4>1, <5>1 DEF IInv, FamilyIsAChain
        <5>3. t # old
          BY <1>7, <4>1, <5>2, NullAssumption DEF is_rotated, Family
        <5>4. QED
          BY <1>10, <2>2, <3>2, <5>2, <5>3
      <4>6. QED
        BY <1>10, <2>2, <3>1, <3>2, <4>1, <4>2, <4>3, <4>4, <4>5
    <3>6. QED
      BY <3>3, <3>4, <3>5
  <2>3. QED
    BY <2>1, <2>2
<1>15. ExpiryBounded'
  BY <1>4, <1>5, <1>7, <1>8 DEF IInv, ExpiryBounded, Exists
<1>16. QED
  BY <1>14, <1>15

\* The rows that other requests have written or loaded are out of p's reach.
LEMMA OthersUntouched ==
    ASSUME IInv, NEW p \in Request, Commit(p), NEW q \in Request \ {p}
    PROVE  /\ \A s \in Session : owner[s] = q => auth_sessions'[s] = auth_sessions[s]
           /\ \A s \in Session : owner[s] = q => owner'[s] = q
           /\ repl[q] # Null => repl[q] \in Session /\ owner[repl[q]] = q
<1>1. \A s \in Session : owner[s] = q => staged[p][s] = Null
  BY DEF IInv, StagedIsLocked
<1>2. ASSUME repl[q] # Null
      PROVE  repl[q] \in Session /\ staged[q][repl[q]] # Null
  <2>1. repl[q] \in Session
    BY <1>2 DEF IInv, TypeOK
  <2>2. CASE LoginStaged(q)
    BY <2>1, <2>2, NewRowFacts, RowAssumption, TTLAssumption, ClockAssumption DEF LoginStaged
  <2>3. CASE RotationStaged(q)
    <3>1. entity[q] \in Row /\ now[q] \in Nat
      BY <2>3 DEF IInv, TypeOK, RotationStaged
    <3>2. QED
      BY <2>1, <2>3, <3>1, ReplacementFacts, RowAssumption DEF RotationStaged
  <2>4. QED
    BY <1>2, <2>1, <2>2, <2>3 DEF IInv, ReplacementStaged
<1>3. QED
  BY <1>1, <1>2 DEF IInv, StagedIsLocked, Commit, End, Release

\* A commit preserves the invariant, for its own request and for the others.
LEMMA CommitStep ==
    ASSUME IInv, NEW p \in Request, Commit(p)
    PROVE  IInv'
<1>1. FamilyIsAChain' /\ ExpiryBounded'
  BY CommitShape, StoreFrame, RevokesKeepsChain, OpensKeepsChain, RotatesKeepsChain
<1>2. TypeOK'
  BY DEF IInv, TypeOK, Commit, End, Release, NothingStaged, world
<1>3. StagedIsLocked'
  BY DEF IInv, TypeOK, StagedIsLocked, Commit, End, Release, NothingStaged
<1>4. EntityIsCurrent'
  <2> SUFFICES ASSUME NEW q \in Request, entity'[q] # Null
               PROVE  (/\ token[q] \in Session
                       /\ owner[token[q]] = q
                       /\ auth_sessions[token[q]] = entity[q])'
    BY DEF EntityIsCurrent
  <2>1. q # p /\ entity'[q] = entity[q] /\ token'[q] = token[q]
    BY DEF IInv, TypeOK, Commit, End
  <2>2. QED
    BY <2>1, OthersUntouched DEF IInv, EntityIsCurrent
<1>5. HandlerState'
  BY DEF IInv, TypeOK, HandlerState, Commit, End
<1>6. RevocationStaged'
  <2> SUFFICES ASSUME NEW q \in Request, repl'[q] = Null,
                      NEW s \in Session, staged'[q][s] # Null
               PROVE  (/\ pc[q] \in {"updating", "replied"}
                       /\ now[q] \in Nat
                       /\ entity[q] # Null
                       /\ InUpdate(q, s)
                       /\ staged[q][s] = revoke(auth_sessions[s], now[q]))'
    BY DEF RevocationStaged
  <2>1. /\ q # p /\ repl[q] = Null /\ staged[q][s] # Null
        /\ staged'[q] = staged[q] /\ pc'[q] = pc[q] /\ now'[q] = now[q]
    BY DEF IInv, TypeOK, Commit, End, NothingStaged
  <2>2. auth_sessions'[s] = auth_sessions[s] /\ entity'[q] = entity[q]
    BY <2>1, OthersUntouched DEF IInv, TypeOK, StagedIsLocked, Commit, End
  <2>3. QED
    BY <2>1, <2>2 DEF IInv, RevocationStaged, InUpdate, Active, Exists
<1>7. ReplacementStaged'
  <2> SUFFICES ASSUME NEW q \in Request, repl'[q] # Null
               PROVE  (~Exists(repl[q]) /\ (LoginStaged(q) \/ RotationStaged(q)))'
    BY DEF ReplacementStaged
  <2>1. /\ q # p /\ repl'[q] = repl[q] /\ op'[q] = op[q] /\ pc'[q] = pc[q]
        /\ now'[q] = now[q] /\ entity'[q] = entity[q] /\ token'[q] = token[q]
        /\ staged'[q] = staged[q]
    BY DEF IInv, TypeOK, Commit, End
  <2>2. ~Exists(repl[q])'
    BY <2>1, OthersUntouched DEF IInv, ReplacementStaged, Exists
  <2>3. LoginStaged(q) \/ RotationStaged(q)
    BY <2>1 DEF IInv, ReplacementStaged
  <2>4. (LoginStaged(q) \/ RotationStaged(q))'
    BY <2>1, <2>3 DEF LoginStaged, RotationStaged
  <2>5. QED
    BY <2>2, <2>4
<1>8. SnapshotIsCurrent'
  <2> SUFFICES ASSUME NEW q \in Request
               PROVE  (/\ todo[q] \subseteq matched[q]
                       /\ \A s \in matched[q] :
                            /\ entity[q] # Null
                            /\ Exists(s)
                            /\ auth_sessions[s].family = entity[q].family
                       /\ (/\ op[q] = "logout"
                           /\ entity[q] # Null
                           /\ pc[q] \notin {"found", "revoke"}
                           /\ ~is_revoked(entity[q])) => token[q] \in matched[q])'
    BY DEF SnapshotIsCurrent
  <2>1. CASE q = p
    BY <2>1 DEF IInv, TypeOK, Commit, End
  <2>2. CASE q # p
    <3>1. /\ todo'[q] = todo[q] /\ matched'[q] = matched[q] /\ entity'[q] = entity[q]
          /\ op'[q] = op[q] /\ pc'[q] = pc[q] /\ token'[q] = token[q]
      BY <2>2 DEF IInv, TypeOK, Commit, End
    <3>2. matched[q] \subseteq Session
      BY DEF IInv, TypeOK
    <3>3. QED
      BY <3>1, <3>2, CommitMonotone DEF IInv, SnapshotIsCurrent
  <2>3. QED
    BY <2>1, <2>2
<1>9. RevocationCoversSnapshot'
  <2> SUFFICES ASSUME NEW q \in Request, NEW s \in Session, s \in matched'[q] \ todo'[q]
               PROVE  is_revoked(auth_sessions'[s]) \/ staged'[q][s] # Null
    BY DEF RevocationCoversSnapshot, IInv, TypeOK, Commit, End
  <2>1. /\ q # p /\ s \in matched[q] \ todo[q] /\ staged'[q] = staged[q]
    BY DEF IInv, TypeOK, Commit, End
  <2>2. Exists(s) /\ (is_revoked(auth_sessions[s]) \/ staged[q][s] # Null)
    BY <2>1 DEF IInv, SnapshotIsCurrent, RevocationCoversSnapshot
  <2>3. QED
    BY <2>1, <2>2, CommitMonotone
<1>10. QED
  BY <1>1, <1>2, <1>3, <1>4, <1>5, <1>6, <1>7, <1>8, <1>9 DEF IInv

-----------------------------------------------------------------------------
\* The invariant is inductive: every handler step, fault and environment step
\* preserves it.
LEMMA Inductive == IInv /\ [Next]_vars => IInv'
<1> SUFFICES ASSUME IInv, [Next]_vars PROVE IInv'
  OBVIOUS
<1>1. CASE UNCHANGED vars
  <2>1. /\ StagedIsLocked' /\ EntityIsCurrent' /\ FamilyIsAChain'
        /\ RevocationCoversSnapshot' /\ ExpiryBounded'
    BY <1>1, LocalFrame DEF vars, store
  <2>2. TypeOK' /\ HandlerState' /\ SnapshotIsCurrent'
    BY <1>1 DEF vars, IInv, TypeOK, HandlerState, SnapshotIsCurrent, Exists
  <2>3. RevocationStaged' /\ ReplacementStaged'
    BY <1>1 DEF vars, IInv, RevocationStaged, ReplacementStaged, LoginStaged,
                RotationStaged, InUpdate, Active, Exists
  <2>4. QED
    BY <2>1, <2>2, <2>3 DEF IInv
<1>2. CASE Environment
  BY <1>2, EnvironmentStep
<1>3. ASSUME NEW p \in Request, Arrive(p)
      PROVE  IInv'
  BY <1>3, LoginStep, BeginStep DEF Arrive
<1>4. ASSUME NEW p \in Request, Lock(p)
      PROVE  IInv'
  BY <1>4, LookupHitStep, RevokeRowStep, SkipRowStep, AbortStep DEF Lock, RevokeRowRejected
<1>5. ASSUME NEW p \in Request, Run(p)
      PROVE  IInv'
  BY <1>5, LookupMissStep, RejectEndedStep, DetectReuseStep, AcceptTokenStep,
     RejectUserStep, LoadUserStep, SaveReplacementStep, SaveRotatedStep,
     IssueTokensStep, LogoutFoundStep, RevokeFamilyStep, RevokeDoneStep,
     CommitStep, AbortStep
  DEF Run, IdentifiersExhausted, HashRaises, RotateRaises
<1>6. ASSUME NEW p \in Request, Fault(p)
      PROVE  IInv'
  BY <1>6, AbortStep DEF Fault
<1>7. QED
  BY <1>1, <1>2, <1>3, <1>4, <1>5, <1>6 DEF Next

\* IInv is an invariant of the specification, for any number of requests,
\* sessions and users, whether or not requests fail and clocks step back.
THEOREM Invariance == Spec => []IInv
<1>1. Init => IInv
  BY Initial
<1>2. IInv /\ [Next]_vars => IInv'
  BY Inductive
<1>3. QED
  BY <1>1, <1>2, PTL DEF Spec

\* Every variable keeps its type: no handler reads a field of a missing row.
THEOREM TypeCorrect == Spec => []TypeOK
<1>1. IInv => TypeOK
  BY DEF IInv
<1>2. QED
  BY <1>1, Invariance, PTL

\* A family is one line of rotations with one user and one absolute expiry.
THEOREM FamiliesAreChains == Spec => []FamilyIsAChain
<1>1. IInv => FamilyIsAChain
  BY DEF IInv
<1>2. QED
  BY <1>1, Invariance, PTL

LEMMA ActiveIsUnique ==
    ASSUME IInv, NEW f \in Session, NEW s \in Family(f), NEW t \in Family(f),
           Active(s), Active(t)
    PROVE  s = t
<1>1. ~is_rotated(auth_sessions[s]) /\ ~is_rotated(auth_sessions[t])
  BY DEF IInv, FamilyIsAChain, Active
<1>2. QED
  BY <1>1 DEF IInv, FamilyIsAChain

\* At most one token of a family can be exchanged.
THEOREM OneActive == Spec => []OneActivePerFamily
<1>1. IInv => OneActivePerFamily
  BY ActiveIsUnique DEF OneActivePerFamily
<1>2. QED
  BY <1>1, Invariance, PTL

\* The rows that the snapshot of a revocation found active are ended by it.
THEOREM SnapshotIsCovered == Spec => []RevocationCoversSnapshot
<1>1. IInv => RevocationCoversSnapshot
  BY DEF IInv
<1>2. QED
  BY <1>1, Invariance, PTL

\* A logout with the newest token of its family leaves nothing active in it.
THEOREM LogoutIsTotal == Spec => []LogoutOfNewestTokenIsTotal
<1>1. IInv => LogoutOfNewestTokenIsTotal
  <2> SUFFICES ASSUME IInv, NEW p \in Request, pc[p] = "replied", op[p] = "logout",
                      entity[p] # Null, ~is_rotated(entity[p]), NEW s \in Session
               PROVE  /\ InUpdate(p, s) => staged[p][s] # Null
                      /\ \A q \in Request \ {p} :
                           staged[q][s] # Null => staged[q][s].family # entity[p].family
    BY DEF LogoutOfNewestTokenIsTotal
  <2> DEFINE f == entity[p].family
  <2>1. /\ token[p] \in Session /\ owner[token[p]] = p /\ entity[p] \in Row
        /\ auth_sessions[token[p]] = entity[p]
    BY DEF IInv, TypeOK, EntityIsCurrent
  <2>2. f \in Session
    BY <2>1, RowFacts
  <2>3. token[p] \in Family(f) /\ Exists(f)
    BY <2>1, <2>2, RowFacts DEF IInv, FamilyIsAChain, Family, Exists
  <2>4. ASSUME NEW t \in Family(f), Active(t)
        PROVE  t = token[p]
    <3>1. ~is_rotated(auth_sessions[t])
      BY <2>2, <2>4 DEF IInv, FamilyIsAChain, Active
    <3>2. QED
      BY <2>1, <2>2, <2>3, <2>4, <3>1 DEF IInv, FamilyIsAChain
  <2>5. InUpdate(p, s) => staged[p][s] # Null
    <3>1. SUFFICES ASSUME InUpdate(p, s) PROVE staged[p][s] # Null
      OBVIOUS
    <3>2. s = token[p] /\ ~is_revoked(auth_sessions[s])
      BY <2>4, <3>1 DEF InUpdate, Active, Family
    <3>3. s \in matched[p] /\ todo[p] = {}
      BY <2>1, <3>2 DEF IInv, SnapshotIsCurrent, HandlerState
    <3>4. QED
      BY <3>2, <3>3 DEF IInv, RevocationCoversSnapshot
  <2>6. ASSUME NEW q \in Request \ {p}, staged[q][s] # Null, staged[q][s].family = f
        PROVE  FALSE
    <3>1. owner[s] = q
      BY <2>6 DEF IInv, StagedIsLocked
    <3>2. CASE repl[q] = Null
      <4>1. Active(s) /\ auth_sessions[s].family = f
        <5>1. Active(s) /\ now[q] \in Nat /\ staged[q][s] = revoke(auth_sessions[s], now[q])
          BY <2>6, <3>2 DEF IInv, RevocationStaged, InUpdate
        <5>2. auth_sessions[s] \in Row
          BY <5>1 DEF IInv, TypeOK, Active, Exists
        <5>3. QED
          BY <2>6, <5>1, <5>2, RevokeFacts
      <4>2. s = token[p]
        BY <2>4, <4>1 DEF Family, Active
      <4>3. QED
        BY <2>1, <3>1, <4>2
    <3>3. CASE repl[q] # Null /\ LoginStaged(q)
      <4>1. s = repl[q] /\ ~Exists(s)
        BY <2>6, <3>3 DEF IInv, ReplacementStaged, LoginStaged
      <4>2. staged[q][s].family = s
        BY <3>3, <4>1, NewRowFacts, TTLAssumption, ClockAssumption DEF LoginStaged
      <4>3. QED
        BY <2>3, <2>6, <4>1, <4>2
    <3>4. CASE repl[q] # Null /\ RotationStaged(q)
      <4>1. /\ entity[q] \in Row /\ token[q] \in Session /\ owner[token[q]] = q
            /\ auth_sessions[token[q]] = entity[q] /\ now[q] \in Nat
            /\ repl[q] \in Session
        BY <3>4 DEF IInv, TypeOK, EntityIsCurrent, RotationStaged
      <4>2. staged[q][s] \in {ReplacementRow(entity[q], now[q]),
                              rotate(entity[q], repl[q], now[q])}
        BY <2>6, <3>4, <4>1 DEF RotationStaged
      <4>3. entity[q].family = f
        <5>1. CASE staged[q][s] = ReplacementRow(entity[q], now[q])
          BY <2>6, <4>1, <5>1, ReplacementFacts
        <5>2. CASE staged[q][s] = rotate(entity[q], repl[q], now[q])
          <6>1. rotate(entity[q], repl[q], now[q]).family = entity[q].family
            BY <4>1, RotateFacts
          <6>2. QED
            BY <2>6, <5>2, <6>1
        <5>3. QED
          BY <4>2, <5>1, <5>2
      <4>4. token[q] \in Family(f) /\ Active(token[q])
        BY <3>4, <4>1, <4>3, RowAssumption DEF Family, Active, Exists, RotationStaged
      <4>5. QED
        BY <2>1, <2>4, <4>1, <4>4
    <3>5. QED
      BY <3>2, <3>3, <3>4 DEF IInv, ReplacementStaged
  <2>7. QED
    BY <2>5, <2>6
<1>2. QED
  BY <1>1, Invariance, PTL

\* Only a commit changes the table.
LEMMA OnlyCommitWrites ==
    ASSUME [Next]_vars
    PROVE  UNCHANGED auth_sessions \/ \E p \in Request : Commit(p)
BY DEF Next, vars, store, world, local, Environment, Tick, StepBack, Deactivate, Reactivate,
       Arrive, Login, Begin, Lock, LookupHit, RevokeRow, SkipRow, RevokeRowRejected, Run,
       LookupMiss, RejectEnded, DetectReuse, AcceptToken, RejectUser, LoadUser,
       SaveReplacement, IdentifiersExhausted, HashRaises, SaveRotated, RotateRaises, IssueTokens,
       LogoutFound, RevokeFamily, RevokeDone, Fault, Abort

\* A revoked row is never rewritten, revived or deleted.
THEOREM EndIsFinal == Spec => EndedStaysEnded
<1>1. IInv /\ [Next]_vars =>
        [\A s \in Session : Exists(s) /\ is_revoked(auth_sessions[s])
              => auth_sessions'[s] = auth_sessions[s]]_vars
  BY OnlyCommitWrites, CommitMonotone
<1>2. QED
  BY <1>1, Invariance, PTL DEF Spec, EndedStaysEnded

-----------------------------------------------------------------------------
(* Stored rows load again.                                                 *)

\* A step that leaves the rows alone, or writes one that loads.
LEMMA WriteLoads ==
    ASSUME IInv, LoadState, UNCHANGED auth_sessions,
           \/ UNCHANGED staged
           \/ \E p \in Request : staged' = [staged EXCEPT ![p] = NothingStaged]
           \/ \E p \in Request, s \in Session, row \in Row : Write(p, s, row) /\ Loads(s, row)
    PROVE  StoredSessionsLoad' /\ StagedRowsLoad'
<1> DEFINE Rows == [Session -> Row \cup {Null}]
<1>1. staged \in [Request -> Rows]
  BY DEF IInv, TypeOK
<1>2. StoredSessionsLoad'
  BY DEF LoadState, StoredSessionsLoad, Exists, Loads
<1>3. \A q \in Request : \A t \in Session :
        staged[q][t] # Null => Loads(t, staged[q][t])
  BY DEF LoadState, StagedRowsLoad
<1> SUFFICES ASSUME NEW q \in Request, NEW t \in Session, staged'[q][t] # Null
             PROVE  Loads(t, staged'[q][t])
  BY <1>2 DEF StagedRowsLoad, Loads
<1> HIDE DEF Rows
<1>4. CASE UNCHANGED staged
  BY <1>3, <1>4
<1>5. ASSUME NEW p \in Request, staged' = [staged EXCEPT ![p] = NothingStaged]
      PROVE  Loads(t, staged'[q][t])
  <2>1. staged'[q] = IF q = p THEN NothingStaged ELSE staged[q]
    BY <1>1, <1>5
  <2>2. q # p
    BY <2>1 DEF NothingStaged
  <2>3. QED
    BY <1>3, <2>1, <2>2
<1>6. ASSUME NEW p \in Request, NEW s \in Session, NEW row \in Row,
             Write(p, s, row), Loads(s, row)
      PROVE  Loads(t, staged'[q][t])
  <2>1. staged'[q][t] = IF q = p /\ t = s THEN row ELSE staged[q][t]
    BY <1>1, <1>6 DEF Write, Rows
  <2>2. QED
    BY <1>3, <1>6, <2>1
<1>7. QED
  BY <1>4, <1>5, <1>6

LEMMA LoginLoads ==
    ASSUME IInv, NEW u \in User, NEW s \in Session
    PROVE  /\ NewRow(u, s, clock, clock + TTL) \in Row
           /\ Loads(s, NewRow(u, s, clock, clock + TTL))
<1>1. clock \in Nat /\ clock + TTL \in Nat /\ clock + TTL > clock
  BY TTLAssumption, ClockAssumption DEF IInv, TypeOK
<1>2. QED
  BY <1>1, NewRowFacts DEF NewRow, Loads

LEMMA ReplacementLoads ==
    ASSUME IInv, LoadState, NEW p \in Request, NEW s \in Session, pc[p] = "save_replacement"
    PROVE  /\ ReplacementRow(entity[p], now[p]) \in Row
           /\ Loads(s, ReplacementRow(entity[p], now[p]))
<1>1. entity[p] \in Row /\ now[p] \in Nat /\ now[p] < entity[p].expires_at
  BY DEF IInv, TypeOK, HandlerState, LoadState, AcceptedInTime
<1>2. QED
  BY <1>1, ReplacementFacts, RowFacts DEF ReplacementRow, NewRow, Loads

LEMMA RotatedLoads ==
    ASSUME IInv, LoadState, NEW p \in Request, pc[p] = "save_rotated", CanEnd(entity[p], now[p])
    PROVE  /\ token[p] \in Session
           /\ rotate(entity[p], repl[p], now[p]) \in Row
           /\ Loads(token[p], rotate(entity[p], repl[p], now[p]))
<1>1. entity[p] \in Row /\ entity[p] # Null /\ repl[p] \in Session
  BY DEF IInv, TypeOK, HandlerState
<1>2. now[p] \in Nat
  BY <1>1 DEF IInv, ReplacementStaged, LoginStaged, RotationStaged, HandlerState
<1>3. token[p] \in Session /\ auth_sessions[token[p]] = entity[p]
  BY <1>1 DEF IInv, EntityIsCurrent
<1>4. Loads(token[p], entity[p])
  BY <1>1, <1>3 DEF LoadState, StoredSessionsLoad, Exists
<1>5. repl[p] # token[p]
  BY <1>1, <1>3, NullAssumption DEF IInv, ReplacementStaged, Exists
<1>6. now[p] >= entity[p].created_at
  BY DEF CanEnd
<1>7. rotate(entity[p], repl[p], now[p]) \in Row
  BY <1>1, <1>2, RotateFacts
<1>8. Loads(token[p], rotate(entity[p], repl[p], now[p]))
  BY <1>1, <1>2, <1>4, <1>5, <1>6, NullAssumption DEF rotate, Loads, Row
<1>9. QED
  BY <1>3, <1>7, <1>8

LEMMA RevokedLoads ==
    ASSUME IInv, LoadState, NEW p \in Request, NEW s \in Session, RevokeRow(p, s)
    PROVE  /\ revoke(auth_sessions[s], now[p]) \in Row
           /\ Loads(s, revoke(auth_sessions[s], now[p]))
<1>1. auth_sessions[s] \in Row /\ Exists(s) /\ now[p] \in Nat /\ now[p] >= auth_sessions[s].created_at
  BY DEF IInv, TypeOK, HandlerState, RevokeRow, ReachRow, InUpdate, Active, Exists
<1>2. Loads(s, auth_sessions[s])
  BY <1>1 DEF LoadState, StoredSessionsLoad
<1>3. QED
  BY <1>1, <1>2, RevokeFacts, NullAssumption DEF revoke, Loads, Row

\* Only the check of the expiry leads to the states that rely on it.
LEMMA InTimeStep ==
    ASSUME IInv, AcceptedInTime, [Next]_vars
    PROVE  AcceptedInTime'
<1> USE DEF IInv, TypeOK, AcceptedInTime
<1>1. ASSUME NEW p \in Request, AcceptToken(p)
      PROVE  AcceptedInTime'
  <2>1. entity[p] \in Row /\ clock \in Nat /\ entity[p].expires_at \in Nat
    BY <1>1, RowFacts, ClockAssumption DEF AcceptToken, Step, HandlerState
  <2>2. clock < entity[p].expires_at
    BY <1>1, <2>1 DEF AcceptToken, Acceptable, is_expired
  <2>3. QED
    BY <1>1, <2>2 DEF AcceptToken, Step, ReadClock
<1>2. ASSUME NEW p \in Request,
             \/ \E u \in User, s \in Session : Login(p, u, s)
             \/ \E o, t : Begin(p, o, t)
             \/ LookupMiss(p) \/ LookupHit(p)
             \/ RejectEnded(p) \/ DetectReuse(p) \/ RejectUser(p) \/ LoadUser(p) \/ LogoutFound(p)
             \/ \E s \in Session : SaveReplacement(p, s)
             \/ SaveRotated(p) \/ IssueTokens(p) \/ RevokeFamily(p) \/ RevokeDone(p)
      PROVE  AcceptedInTime'
  BY <1>2 DEF Login, Begin, LookupMiss, LookupHit, RejectEnded, DetectReuse, RejectUser, LoadUser,
     LogoutFound, SaveReplacement, SaveRotated, IssueTokens, RevokeFamily, RevokeDone, Step,
     ReadClock, local
<1>3. ASSUME NEW p \in Request, NEW s \in Session, RevokeRow(p, s) \/ SkipRow(p, s)
      PROVE  AcceptedInTime'
  BY <1>3 DEF RevokeRow, SkipRow
<1>4. ASSUME NEW p \in Request,
             \/ Commit(p) \/ Fault(p) \/ IdentifiersExhausted(p) \/ HashRaises(p) \/ RotateRaises(p)
             \/ \E s \in Session : RevokeRowRejected(p, s)
      PROVE  AcceptedInTime'
  BY <1>4 DEF Commit, Fault, IdentifiersExhausted, HashRaises, RotateRaises, RevokeRowRejected,
     Abort, End
<1>5. CASE Environment \/ UNCHANGED vars
  BY <1>5 DEF Environment, Tick, StepBack, Deactivate, Reactivate, local, vars
<1>6. QED
  BY <1>1, <1>2, <1>3, <1>4, <1>5 DEF Next, Arrive, Lock, Run

LEMMA LoadInductive == IInv /\ LoadState /\ [Next]_vars => LoadState'
<1> SUFFICES ASSUME IInv, LoadState, [Next]_vars PROVE StoredSessionsLoad' /\ StagedRowsLoad'
  BY InTimeStep DEF LoadState
<1>1. ASSUME NEW p \in Request, NEW u \in User, NEW s \in Session, Login(p, u, s)
      PROVE  StoredSessionsLoad' /\ StagedRowsLoad'
  BY <1>1, LoginLoads, WriteLoads DEF Login
<1>2. ASSUME NEW p \in Request, NEW s \in Session, SaveReplacement(p, s)
      PROVE  StoredSessionsLoad' /\ StagedRowsLoad'
  BY <1>2, ReplacementLoads, WriteLoads DEF SaveReplacement, Step
<1>3. ASSUME NEW p \in Request, SaveRotated(p)
      PROVE  StoredSessionsLoad' /\ StagedRowsLoad'
  BY <1>3, RotatedLoads, WriteLoads DEF SaveRotated, Step
<1>4. ASSUME NEW p \in Request, NEW s \in Session, RevokeRow(p, s)
      PROVE  StoredSessionsLoad' /\ StagedRowsLoad'
  BY <1>4, RevokedLoads, WriteLoads DEF RevokeRow
<1>5. ASSUME NEW p \in Request, Commit(p)
      PROVE  StoredSessionsLoad' /\ StagedRowsLoad'
  <2>1. StoredSessionsLoad'
    BY <1>5 DEF Commit, LoadState, StoredSessionsLoad, StagedRowsLoad, Exists, Loads
  <2>2. StagedRowsLoad'
    BY <1>5 DEF Commit, End, LoadState, StagedRowsLoad, NothingStaged, IInv, TypeOK, Loads
  <2>3. QED
    BY <2>1, <2>2
<1>6. ASSUME NEW p \in Request,
             \/ Fault(p) \/ IdentifiersExhausted(p) \/ HashRaises(p) \/ RotateRaises(p)
             \/ \E s \in Session : RevokeRowRejected(p, s)
      PROVE  StoredSessionsLoad' /\ StagedRowsLoad'
  BY <1>6, WriteLoads DEF Fault, IdentifiersExhausted, HashRaises, RotateRaises,
     RevokeRowRejected, Abort, End
<1>7. ASSUME NEW p \in Request,
             \/ \E o, t : Begin(p, o, t)
             \/ LookupMiss(p) \/ LookupHit(p) \/ RejectEnded(p) \/ DetectReuse(p) \/ AcceptToken(p)
             \/ RejectUser(p) \/ LoadUser(p) \/ LogoutFound(p) \/ IssueTokens(p)
             \/ RevokeFamily(p) \/ RevokeDone(p)
             \/ \E s \in Session : SkipRow(p, s)
      PROVE  UNCHANGED <<auth_sessions, staged>>
  BY <1>7 DEF Begin, LookupMiss, LookupHit, RejectEnded, DetectReuse, AcceptToken, RejectUser,
     LoadUser, LogoutFound, IssueTokens, RevokeFamily, RevokeDone, SkipRow, store
<1>8. CASE Environment \/ UNCHANGED vars
  BY <1>8, WriteLoads DEF Environment, Tick, StepBack, Deactivate, Reactivate, store, vars
<1>9. QED
  BY <1>1, <1>2, <1>3, <1>4, <1>5, <1>6, <1>7, <1>8, WriteLoads DEF Next, Arrive, Lock, Run

\* Whatever clocks do, every stored session can be loaded again.
THEOREM StoredRowsLoad == Spec => []StoredSessionsLoad
<1>1. Init => LoadState
  BY DEF Init, NothingStaged, LoadState, StoredSessionsLoad, StagedRowsLoad, AcceptedInTime, Exists
<1>2. IInv /\ LoadState /\ [Next]_vars => LoadState'
  BY LoadInductive
<1>3. LoadState => StoredSessionsLoad
  BY DEF LoadState
<1>4. QED
  BY <1>1, <1>2, <1>3, Invariance, PTL DEF Spec

-----------------------------------------------------------------------------
\* A session is ended by a request that presented a token of its own family.
THEOREM RevocationIsContained == Spec => RevocationStaysInFamily
<1>1. ASSUME IInv, [Next]_vars, NEW s \in Session, Active(s), ~Active(s)'
      PROVE  \E p \in Request :
                /\ pc[p] = "replied" /\ pc'[p] = "idle"
                /\ token[p] # Null /\ Exists(token[p])
                /\ auth_sessions[token[p]].family = auth_sessions[s].family
  <2>1. PICK p \in Request : Commit(p)
    BY <1>1, OnlyCommitWrites DEF Active, Exists
  <2>2. Exists(s) /\ staged[p][s] # Null
    BY <1>1, <2>1 DEF Commit, Active, Exists, IInv, TypeOK
  <2>3. pc[p] = "replied" /\ pc'[p] = "idle"
    BY <1>1, <2>1 DEF Commit, End, IInv, TypeOK
  <2>4. entity[p] # Null /\ auth_sessions[s].family = entity[p].family
    <3>1. CASE repl[p] = Null
      BY <1>1, <2>2, <3>1 DEF IInv, RevocationStaged, InUpdate
    <3>2. CASE repl[p] # Null /\ LoginStaged(p)
      BY <1>1, <2>2, <3>2 DEF IInv, ReplacementStaged, LoginStaged
    <3>3. CASE repl[p] # Null /\ RotationStaged(p)
      BY <1>1, <2>2, <3>3 DEF IInv, ReplacementStaged, RotationStaged, EntityIsCurrent
    <3>4. QED
      BY <1>1, <3>1, <3>2, <3>3 DEF IInv, ReplacementStaged
  <2>5. token[p] \in Session /\ auth_sessions[token[p]] = entity[p]
    BY <1>1, <2>4 DEF IInv, EntityIsCurrent
  <2>6. token[p] # Null /\ Exists(token[p])
    BY <2>4, <2>5, NullAssumption DEF Exists
  <2>7. QED
    BY <2>3, <2>4, <2>5, <2>6
<1>2. IInv /\ [Next]_vars =>
        [\A s \in Session : Active(s) /\ ~Active(s)' =>
            \E p \in Request :
               /\ pc[p] = "replied" /\ pc'[p] = "idle"
               /\ token[p] # Null /\ Exists(token[p])
               /\ auth_sessions[token[p]].family = auth_sessions[s].family]_vars
  BY <1>1
<1>3. QED
  BY <1>2, Invariance, PTL DEF Spec, RevocationStaysInFamily

-----------------------------------------------------------------------------
(* The refinement: every commit is a step of TokenFamilies, or shows nothing. *)

grantBar == [s \in Session |-> IF Exists(s) THEN grantOf(auth_sessions[s]) ELSE Null]
liveBar  == {s \in Session : Active(s)}
succBar  == [s \in Session |-> IF Exists(s) THEN auth_sessions[s].replaced_by ELSE Null]

\* What the abstraction keeps of a row.
LEMMA GrantFacts ==
    ASSUME NEW row \in Row
    PROVE  /\ grantOf(row).user = row.user
           /\ grantOf(row).family = row.family
           /\ grantOf(row).expires_at = row.expires_at
           /\ grantOf(row) # Null
<1>1. grantOf(row) \in Grant
  BY RowFacts DEF grantOf, Grant
<1>2. QED
  BY <1>1, RowAssumption DEF grantOf

\* The commit of a login is an Issue of the abstract store.
LEMMA OpensIsIssue ==
    ASSUME IInv, NEW r \in Session, NEW u \in User, NEW at \in 0..MaxClock, Opens(r, u, at)
    PROVE  TF!Next
<1> DEFINE row == NewRow(u, r, at, at + TTL)
           g == grantOf(row)
<1>1. /\ row \in Row /\ row.family = r /\ row.expires_at \in 0..(MaxClock + TTL)
      /\ ~is_revoked(row) /\ row.replaced_by = Null
  BY NewRowFacts, TTLAssumption, ClockAssumption DEF is_rotated
<1>2. g = [user |-> u, family |-> r, expires_at |-> at + TTL]
  BY TTLAssumption, NewRowFacts DEF grantOf
<1>3. auth_sessions' = [auth_sessions EXCEPT ![r] = row] /\ ~Exists(r)
  BY DEF Opens
<1>4. auth_sessions \in [Session -> Row \cup {Null}]
  BY DEF IInv, TypeOK
<1> HIDE DEF row
<1>5. /\ auth_sessions'[r] = row /\ row # Null
      /\ \A s \in Session \ {r} : auth_sessions'[s] = auth_sessions[s]
  BY <1>1, <1>3, <1>4, RowAssumption
<1>6. grantBar[r] = Null /\ grantBar' = [grantBar EXCEPT ![r] = g]
  <2>1. grantBar[r] = Null
    BY <1>3 DEF grantBar
  <2>2. grantBar' = [s \in Session |-> IF s = r THEN g ELSE grantBar[s]]
    BY <1>5 DEF grantBar, Exists
  <2>3. QED
    BY <2>1, <2>2 DEF grantBar
<1>7. liveBar' = liveBar \cup {r}
  BY <1>1, <1>5 DEF liveBar, Active, Exists
<1>8. succBar' = succBar
  BY <1>1, <1>3, <1>5 DEF succBar, Exists
<1>9. TF!Issue(r, u, at + TTL)
  BY <1>2, <1>6, <1>7, <1>8 DEF TF!Issue, grantBar, liveBar, succBar
<1>10. at + TTL \in 0..(MaxClock + TTL)
  BY TTLAssumption, ClockAssumption
<1>11. QED
  BY <1>9, <1>10 DEF TF!Next

\* The commit of a rotation is an Exchange: it consumes a live token for one
\* new token under the same grant.
LEMMA RotatesIsExchange ==
    ASSUME IInv, NEW old \in Session, NEW r \in Session, NEW at \in Nat, Rotates(old, r, at)
    PROVE  TF!Next
<1> DEFINE e == auth_sessions[old]
           ended == rotate(e, r, at)
           row == ReplacementRow(e, at)
<1>1. auth_sessions \in [Session -> Row \cup {Null}] /\ e \in Row /\ old # r
  BY DEF IInv, TypeOK, Rotates, Active, Exists
<1>2. ended \in Row /\ row \in Row
  BY <1>1, RotateFacts, ReplacementFacts
<1>3. grantOf(ended) = grantOf(e) /\ ended.replaced_by = r /\ is_revoked(ended)
  BY <1>1, RotateFacts DEF grantOf
<1>4. grantOf(row) = grantOf(e) /\ row.replaced_by = Null /\ ~is_revoked(row)
  BY <1>1, ReplacementFacts DEF grantOf, is_rotated
<1>5. auth_sessions' = [auth_sessions EXCEPT ![old] = ended, ![r] = row]
  BY DEF Rotates
<1>6. ~Exists(r) /\ Exists(old) /\ Active(old)
  BY DEF Rotates, Active
<1> HIDE DEF ended, row
<1>7. /\ auth_sessions'[old] = ended /\ ended # Null
      /\ auth_sessions'[r] = row /\ row # Null
      /\ \A s \in Session \ {old, r} : auth_sessions'[s] = auth_sessions[s]
  BY <1>1, <1>2, <1>5, RowAssumption
<1>8. grantBar[r] = Null /\ grantBar' = [grantBar EXCEPT ![r] = grantBar[old]]
  BY <1>1, <1>3, <1>4, <1>6, <1>7 DEF grantBar, Exists
<1>9. old \in liveBar /\ liveBar' = (liveBar \ {old}) \cup {r}
  BY <1>1, <1>3, <1>4, <1>6, <1>7 DEF liveBar, Active, Exists
<1>10. succBar' = [succBar EXCEPT ![old] = r]
  BY <1>1, <1>3, <1>4, <1>6, <1>7 DEF succBar, Exists
<1>11. TF!Exchange(old, r)
  BY <1>8, <1>9, <1>10 DEF TF!Exchange, grantBar, liveBar, succBar
<1>12. QED
  BY <1>11 DEF TF!Next

\* The commit of a revocation is a Close, or leaves the abstract store alone.
LEMMA RevokesIsClose ==
    ASSUME IInv, NEW f \in Session, NEW n \in Nat \cup {Null}, Revokes(f, n)
    PROVE  [TF!Next]_(TF!vars)
<1>1. auth_sessions \in [Session -> Row \cup {Null}]
  BY DEF IInv, TypeOK
<1>2. ASSUME NEW s \in Session, auth_sessions'[s] # auth_sessions[s]
      PROVE  /\ s \in Family(f) /\ Active(s) /\ auth_sessions[s] \in Row
             /\ auth_sessions'[s] = revoke(auth_sessions[s], n) /\ n \in Nat
  BY <1>1, <1>2 DEF Revokes, Active, Exists
<1>3. ASSUME NEW s \in Session
      PROVE  /\ Exists(s)' <=> Exists(s)
             /\ Exists(s) => /\ grantOf(auth_sessions'[s]) = grantOf(auth_sessions[s])
                             /\ auth_sessions'[s].replaced_by = auth_sessions[s].replaced_by
  <2>1. CASE auth_sessions'[s] = auth_sessions[s]
    BY <2>1 DEF Exists
  <2>2. CASE auth_sessions'[s] # auth_sessions[s]
    BY <1>2, <2>2, RevokeFacts, RowAssumption DEF grantOf, Exists
  <2>3. QED
    BY <2>1, <2>2
<1>4. grantBar' = grantBar /\ succBar' = succBar
  BY <1>3 DEF grantBar, succBar
<1>5. CASE \A s \in Session : auth_sessions'[s] = auth_sessions[s]
  <2>1. liveBar' = liveBar
    BY <1>5 DEF liveBar, Active, Exists
  <2>2. QED
    BY <1>4, <2>1 DEF TF!vars, grantBar, liveBar, succBar
<1>6. CASE \E s \in Session : auth_sessions'[s] # auth_sessions[s]
  <2>1. PICK s \in Session : auth_sessions'[s] # auth_sessions[s]
    BY <1>6
  <2>2. s \in Family(f) /\ Active(s) /\ ~Active(s)'
    BY <1>2, <2>1, RevokeFacts DEF Active, Exists
  <2>3. \A t \in Family(f) : Active(t) => t = s
    BY <2>2 DEF IInv, FamilyIsAChain, Active
  <2>4. \A t \in Session \ {s} : auth_sessions'[t] = auth_sessions[t]
    BY <1>2, <2>3
  <2>5. TF!Members(f) = Family(f)
    BY <1>1, GrantFacts DEF TF!Members, Family, Exists
  <2>6. liveBar' = liveBar \ Family(f)
    BY <2>2, <2>3, <2>4 DEF liveBar, Active, Exists, Family
  <2>7. TF!Close(f)
    BY <1>4, <2>5, <2>6 DEF TF!Close, grantBar, liveBar, succBar
  <2>8. QED
    BY <2>7 DEF TF!Next
<1>7. QED
  BY <1>5, <1>6

\* Every step of a handler is a step of the abstract store or a stutter.
LEMMA StepRefines == IInv /\ [Next]_vars => [TF!Next]_(TF!vars)
<1> SUFFICES ASSUME IInv, [Next]_vars PROVE [TF!Next]_(TF!vars)
  OBVIOUS
<1>1. CASE UNCHANGED auth_sessions
  BY <1>1 DEF TF!vars, Exists, Active
<1>2. ASSUME NEW p \in Request, Commit(p)
      PROVE  [TF!Next]_(TF!vars)
  BY <1>1, <1>2, CommitShape, RevokesIsClose, OpensIsIssue, RotatesIsExchange
<1>3. QED
  BY <1>1, <1>2, OnlyCommitWrites

\* The table auth_sessions, as its transactions commit, implements one-time
\* tokens in families: the store behaves as if each login, rotation and
\* revocation were a single step.
THEOREM Refinement == Spec => ImplementsTokenFamilies
<1>1. Init => TF!Init
  BY DEF Init, TF!Init, Exists, Active
<1>2. IInv /\ [Next]_vars => [TF!Next]_(TF!vars)
  BY StepRefines
<1>3. QED
  BY <1>1, <1>2, Invariance, PTL DEF Spec, ImplementsTokenFamilies, TF!Spec

-----------------------------------------------------------------------------
(* A token that was sent.                                                  *)

\* What a request presents was sent, and what was sent stays sent.
LEMMA PresentedInductive == IInv /\ PresentedWasSent /\ [Next]_vars => PresentedWasSent'
<1> SUFFICES ASSUME IInv, PresentedWasSent, [Next]_vars PROVE PresentedWasSent'
  OBVIOUS
<1>1. ASSUME NEW p \in Request, NEW o, NEW t \in delivered \cup {Null}, Begin(p, o, t)
      PROVE  PresentedWasSent'
  BY <1>1 DEF Begin, world, PresentedWasSent, IInv, TypeOK
<1>2. ASSUME NEW p \in Request,
             \/ Commit(p) \/ Fault(p) \/ IdentifiersExhausted(p) \/ HashRaises(p) \/ RotateRaises(p)
             \/ \E s \in Session : RevokeRowRejected(p, s)
      PROVE  PresentedWasSent'
  BY <1>2 DEF Commit, Fault, IdentifiersExhausted, HashRaises, RotateRaises, RevokeRowRejected,
     Abort, End,
     world, PresentedWasSent, IInv, TypeOK
<1>3. ASSUME UNCHANGED token, delivered \subseteq delivered' PROVE PresentedWasSent'
  BY <1>3 DEF PresentedWasSent
<1>4. ASSUME NEW p \in Request,
             \/ \E u \in User, s \in Session : Login(p, u, s)
             \/ LookupMiss(p) \/ LookupHit(p) \/ RejectEnded(p) \/ DetectReuse(p) \/ AcceptToken(p)
             \/ RejectUser(p) \/ LoadUser(p) \/ LogoutFound(p) \/ IssueTokens(p)
             \/ (\E s \in Session : SaveReplacement(p, s)) \/ SaveRotated(p)
             \/ RevokeFamily(p) \/ RevokeDone(p)
             \/ \E s \in Session : SkipRow(p, s) \/ RevokeRow(p, s)
      PROVE  PresentedWasSent'
  BY <1>3, <1>4 DEF Login, LookupMiss, LookupHit, RejectEnded, DetectReuse, AcceptToken, RejectUser,
     LoadUser, LogoutFound, IssueTokens, SaveReplacement, SaveRotated, RevokeFamily, RevokeDone,
     SkipRow, RevokeRow, local, world
<1>5. CASE Environment \/ UNCHANGED vars
  BY <1>3, <1>5 DEF Environment, Tick, StepBack, Deactivate, Reactivate, local, vars
<1>6. ASSUME NEW p \in Request, Arrive(p) PROVE PresentedWasSent'
  BY <1>1, <1>4, <1>6 DEF Arrive
<1>7. ASSUME NEW p \in Request, Lock(p) \/ Run(p) PROVE PresentedWasSent'
  BY <1>2, <1>4, <1>7 DEF Lock, Run
<1>8. QED
  BY <1>2, <1>5, <1>6, <1>7 DEF Next

\* A commit stores what its request has generated.
LEMMA CommitStores ==
    ASSUME IInv, NEW p \in Request, Commit(p), NEW r \in Session, repl[p] = r
    PROVE  Exists(r)'
<1>1. staged[p][r] # Null
  <2>1. CASE LoginStaged(p)
    <3>1. now[p] \in Nat /\ now[p] + TTL \in Nat
      BY <2>1, TTLAssumption, ClockAssumption DEF LoginStaged
    <3>2. PICK u \in User : staged[p][r] = NewRow(u, r, now[p], now[p] + TTL)
      BY <2>1 DEF LoginStaged
    <3>3. NewRow(u, r, now[p], now[p] + TTL) \in Row
      BY <3>1, NewRowFacts
    <3>4. QED
      BY <3>2, <3>3, RowAssumption
  <2>2. CASE RotationStaged(p)
    <3>1. entity[p] \in Row /\ now[p] \in Nat
      BY <2>2 DEF RotationStaged, IInv, TypeOK
    <3>2. ReplacementRow(entity[p], now[p]) \in Row
      BY <3>1, ReplacementFacts
    <3>3. QED
      BY <2>2, <3>2, RowAssumption DEF RotationStaged
  <2>3. QED
    BY <2>1, <2>2, NullAssumption DEF IInv, ReplacementStaged
<1>2. QED
  BY <1>1 DEF Commit, Exists

LEMMA SentInductive ==
    ~MayFail /\ IInv /\ SentIsStored /\ [Next]_vars => SentIsStored'
<1> SUFFICES ASSUME ~MayFail, IInv, SentIsStored, [Next]_vars, NEW t \in delivered'
             PROVE  Exists(t)' \/ \E q \in Request : pc'[q] = "replied" /\ repl'[q] = t
  BY DEF SentIsStored
<1>1. ASSUME NEW p \in Request, Commit(p)
      PROVE  Exists(t)' \/ \E q \in Request : pc'[q] = "replied" /\ repl'[q] = t
  <2>1. t \in delivered /\ t \in Session
    BY <1>1 DEF Commit, world, IInv, TypeOK
  <2>2. CASE Exists(t)
    BY <1>1, <2>1, <2>2, CommitMonotone
  <2>3. CASE ~Exists(t)
    <3>1. PICK q \in Request : pc[q] = "replied" /\ repl[q] = t
      BY <2>1, <2>3 DEF SentIsStored
    <3>2. CASE q = p
      BY <1>1, <2>1, <3>1, <3>2, CommitStores, NullAssumption
    <3>3. CASE q # p
      BY <1>1, <3>1, <3>3 DEF Commit, End, IInv, TypeOK
    <3>4. QED
      BY <3>2, <3>3
  <2>4. QED
    BY <2>2, <2>3
<1>2. ASSUME NEW p \in Request, IssueTokens(p)
      PROVE  Exists(t)' \/ \E q \in Request : pc'[q] = "replied" /\ repl'[q] = t
  <2>1. UNCHANGED <<auth_sessions, repl>> /\ pc'[p] = "replied"
    BY <1>2 DEF IssueTokens, Step, store, local, IInv, TypeOK
  <2>2. CASE t = repl[p]
    BY <2>1, <2>2
  <2>3. CASE t \in delivered
    BY <1>2, <2>1, <2>3 DEF SentIsStored, IssueTokens, Step, Exists, IInv, TypeOK
  <2>4. QED
    BY <1>2, <2>2, <2>3 DEF IssueTokens
<1>3. ASSUME UNCHANGED <<auth_sessions, delivered>>,
             \A q \in Request : pc[q] = "replied" => pc'[q] = "replied" /\ repl'[q] = repl[q]
      PROVE  Exists(t)' \/ \E q \in Request : pc'[q] = "replied" /\ repl'[q] = t
  BY <1>3 DEF SentIsStored, Exists
<1>4. ASSUME NEW p \in Request,
             \/ IdentifiersExhausted(p) \/ HashRaises(p) \/ RotateRaises(p)
             \/ \E s \in Session : RevokeRowRejected(p, s)
      PROVE  /\ UNCHANGED <<auth_sessions, delivered>>
             /\ \A q \in Request : pc[q] = "replied" => pc'[q] = "replied" /\ repl'[q] = repl[q]
  BY <1>4 DEF IdentifiersExhausted, HashRaises, RotateRaises, RevokeRowRejected, ReachRow,
     Abort, End, world,
     IInv, TypeOK
<1>5. ASSUME NEW p \in Request,
             \/ \E u \in User, s \in Session : Login(p, u, s)
             \/ \E s \in Session : SaveReplacement(p, s)
      PROVE  /\ UNCHANGED <<auth_sessions, delivered>>
             /\ \A q \in Request : pc[q] = "replied" => pc'[q] = "replied" /\ repl'[q] = repl[q]
  BY <1>5 DEF Login, SaveReplacement, Step, world, IInv, TypeOK
<1>6. ASSUME NEW p \in Request,
             \/ \E o, u : Begin(p, o, u)
             \/ LookupMiss(p) \/ LookupHit(p) \/ RejectEnded(p) \/ DetectReuse(p) \/ AcceptToken(p)
             \/ RejectUser(p) \/ LoadUser(p) \/ LogoutFound(p) \/ SaveRotated(p)
             \/ RevokeFamily(p) \/ RevokeDone(p)
             \/ \E s \in Session : SkipRow(p, s) \/ RevokeRow(p, s)
      PROVE  /\ UNCHANGED <<auth_sessions, delivered>>
             /\ \A q \in Request : pc[q] = "replied" => pc'[q] = "replied" /\ repl'[q] = repl[q]
  BY <1>6 DEF Begin, LookupMiss, LookupHit, RejectEnded, DetectReuse, AcceptToken, RejectUser,
     LoadUser, LogoutFound, SaveRotated, RevokeFamily, RevokeDone, SkipRow, RevokeRow, Step,
     store, local, world, IInv, TypeOK
<1>7. CASE Environment \/ UNCHANGED vars
  BY <1>3, <1>7 DEF Environment, Tick, StepBack, Deactivate, Reactivate, store, local, vars
<1>8. QED
  BY <1>1, <1>2, <1>3, <1>4, <1>5, <1>6, <1>7 DEF Next, Arrive, Lock, Run, Fault

\* Without faults, a token that was sent is unknown only while the transaction
\* that answered with it has not committed.
THEOREM UnknownIsTransient == ~MayFail => (Spec => []UnknownIsUncommitted)
<1>1. ASSUME ~MayFail PROVE Spec => []UnknownIsUncommitted
  <2>1. Init => SentIsStored /\ PresentedWasSent
    BY DEF Init, SentIsStored, PresentedWasSent
  <2>2. SentIsStored /\ PresentedWasSent => UnknownIsUncommitted
    BY DEF SentIsStored, PresentedWasSent, UnknownIsUncommitted
  <2>3. IInv /\ PresentedWasSent /\ [Next]_vars => PresentedWasSent'
    BY PresentedInductive
  <2>4. IInv /\ SentIsStored /\ [Next]_vars => SentIsStored'
    BY <1>1, SentInductive
  <2>5. QED
    BY <2>1, <2>2, <2>3, <2>4, Invariance, PTL DEF Spec
<1>2. QED
  BY <1>1

-----------------------------------------------------------------------------
(* The order of the row locks.                                             *)

LEMMA InitialOrder == Init => LockOrder
<1> SUFFICES ASSUME Init PROVE LockOrder
  OBVIOUS
<1>1. LocksKnown /\ MatchedOnce
  BY NullAssumption DEF Init, LocksKnown, MatchedOnce
<1>2. InOrder([s \in Session |-> 0], 0)
  BY DEF Init, InOrder, Exists
<1>3. [s \in Session |-> 0] \in [Session -> Nat] /\ 0 \in Nat
  OBVIOUS
<1>4. QED
  BY <1>1, <1>2, <1>3 DEF LockOrder

\* The end of a request gives its locks back and takes none.
LEMMA EndReleases ==
    ASSUME IInv, LocksKnown, NEW p \in Request, End(p)
    PROVE  LocksKnown'
<1>1. owner' = [s \in Session |-> IF owner[s] = p THEN Null ELSE owner[s]]
  BY DEF End, Release
<1>2. \A s \in Session, q \in Request : owner'[s] = q => q # p /\ owner[s] = q
  BY <1>1, NullAssumption
<1>3. \A q \in Request \ {p} :
        pc'[q] = pc[q] /\ token'[q] = token[q] /\ matched'[q] = matched[q] /\ todo'[q] = todo[q]
  BY DEF End, IInv, TypeOK
<1>4. QED
  BY <1>2, <1>3 DEF LocksKnown

\* It stays known which rows a request has locked.
LEMMA LocksInductive == IInv /\ LocksKnown /\ [Next]_vars => LocksKnown'
<1> SUFFICES ASSUME IInv, LocksKnown, [Next]_vars PROVE LocksKnown'
  OBVIOUS
<1>1. ASSUME NEW p \in Request, End(p) PROVE LocksKnown'
  BY <1>1, EndReleases
<1>2. ASSUME NEW p \in Request, NEW u \in User, NEW s \in Session, Login(p, u, s)
      PROVE  LocksKnown'
  BY <1>2 DEF Login, Step, Write, LocksKnown, IInv, TypeOK
<1>3. ASSUME NEW p \in Request, NEW s \in Session, SaveReplacement(p, s)
      PROVE  LocksKnown'
  BY <1>3 DEF SaveReplacement, Step, Write, LocksKnown, IInv, TypeOK
<1>4. ASSUME NEW p \in Request, SaveRotated(p)
      PROVE  LocksKnown'
  BY <1>4 DEF SaveRotated, Step, Write, LocksKnown, IInv, TypeOK, local
<1>5. ASSUME NEW p \in Request, LookupHit(p)
      PROVE  LocksKnown'
  BY <1>5 DEF LookupHit, Step, LocksKnown, IInv, TypeOK
<1>6. ASSUME NEW p \in Request, NEW s \in Session, RevokeRow(p, s) \/ SkipRow(p, s)
      PROVE  LocksKnown'
  <2>1. /\ pc' = pc /\ token' = token /\ matched' = matched
        /\ owner' = [owner EXCEPT ![s] = p] /\ todo' = [todo EXCEPT ![p] = @ \ {s}]
        /\ pc[p] = "updating" /\ s \in todo[p] /\ owner[s] \in {Null, p}
    BY <1>6 DEF RevokeRow, SkipRow, ReachRow, Write
  <2>2. s \in matched[p]
    BY <2>1 DEF IInv, SnapshotIsCurrent
  <2>3. QED
    BY <2>1, <2>2 DEF LocksKnown, IInv, TypeOK
<1>7. ASSUME NEW p \in Request, NEW o, NEW t, Begin(p, o, t)
      PROVE  LocksKnown'
  BY <1>7 DEF Begin, Step, LocksKnown, store, IInv, TypeOK
<1>8. ASSUME NEW p \in Request, RevokeFamily(p)
      PROVE  LocksKnown'
  BY <1>8 DEF RevokeFamily, Step, LocksKnown, store, IInv, TypeOK
<1>9. ASSUME NEW p \in Request,
             \/ LookupMiss(p) \/ RejectEnded(p) \/ DetectReuse(p) \/ AcceptToken(p)
             \/ RejectUser(p) \/ LoadUser(p) \/ LogoutFound(p) \/ IssueTokens(p) \/ RevokeDone(p)
      PROVE  LocksKnown'
  BY <1>9 DEF LookupMiss, RejectEnded, DetectReuse, AcceptToken, RejectUser, LoadUser,
     LogoutFound, IssueTokens, RevokeDone, Step, LocksKnown, store, local, IInv, TypeOK
<1>10. CASE Environment \/ UNCHANGED vars
  BY <1>10 DEF Environment, Tick, StepBack, Deactivate, Reactivate, store, local, vars,
     LocksKnown
<1>11. ASSUME NEW p \in Request, Arrive(p) PROVE LocksKnown'
  BY <1>2, <1>7, <1>11 DEF Arrive
<1>12. ASSUME NEW p \in Request, Lock(p) PROVE LocksKnown'
  BY <1>1, <1>5, <1>6, <1>12 DEF Lock, RevokeRowRejected, Abort
<1>13. ASSUME NEW p \in Request, Run(p) \/ Fault(p) PROVE LocksKnown'
  BY <1>1, <1>3, <1>4, <1>8, <1>9, <1>13
     DEF Run, Fault, IdentifiersExhausted, HashRaises, RotateRaises, Commit, Abort
<1>14. QED
  BY <1>10, <1>11, <1>12, <1>13 DEF Next

\* Only RevokeFamily takes a snapshot; every other step keeps the snapshots
\* and their tokens, or drops them.
LEMMA SnapshotFrame ==
    ASSUME IInv, [Next]_vars
    PROVE  \A q \in Request :
             \/ RevokeFamily(q)
             \/ matched'[q] = {}
             \/ matched'[q] = matched[q] /\ token'[q] = token[q]
<1>1. ASSUME NEW p \in Request, End(p)
      PROVE  \A q \in Request : matched'[q] = {} \/ (matched'[q] = matched[q] /\ token'[q] = token[q])
  BY <1>1 DEF End, IInv, TypeOK
<1>2. ASSUME NEW p \in Request, NEW o, NEW t, Begin(p, o, t)
      PROVE  \A q \in Request : matched'[q] = {} \/ (matched'[q] = matched[q] /\ token'[q] = token[q])
  BY <1>2 DEF Begin, Step, IInv, TypeOK, HandlerState
<1>3. ASSUME NEW p \in Request, RevokeFamily(p)
      PROVE  \A q \in Request \ {p} : matched'[q] = matched[q] /\ token'[q] = token[q]
  BY <1>3 DEF RevokeFamily, IInv, TypeOK
<1>4. ASSUME NEW p \in Request,
             \/ \E u \in User, s \in Session : Login(p, u, s)
             \/ LookupMiss(p) \/ LookupHit(p) \/ RejectEnded(p) \/ DetectReuse(p) \/ AcceptToken(p)
             \/ RejectUser(p) \/ LoadUser(p) \/ LogoutFound(p) \/ IssueTokens(p)
             \/ (\E s \in Session : SaveReplacement(p, s)) \/ SaveRotated(p) \/ RevokeDone(p)
             \/ \E s \in Session : SkipRow(p, s) \/ RevokeRow(p, s)
      PROVE  UNCHANGED <<token, matched>>
  BY <1>4 DEF Login, LookupMiss, LookupHit, RejectEnded, DetectReuse, AcceptToken, RejectUser,
     LoadUser, LogoutFound, IssueTokens, SaveReplacement, SaveRotated, RevokeDone, SkipRow,
     RevokeRow, local
<1>5. CASE Environment \/ UNCHANGED vars
  BY <1>5 DEF Environment, Tick, StepBack, Deactivate, Reactivate, local, vars
<1>6. ASSUME NEW p \in Request, Arrive(p)
      PROVE  \A q \in Request : matched'[q] = {} \/ (matched'[q] = matched[q] /\ token'[q] = token[q])
  BY <1>2, <1>4, <1>6 DEF Arrive
<1>7. ASSUME NEW p \in Request, Lock(p) \/ Run(p) \/ Fault(p)
      PROVE  \/ RevokeFamily(p)
             \/ \A q \in Request :
                  matched'[q] = {} \/ (matched'[q] = matched[q] /\ token'[q] = token[q])
  BY <1>1, <1>4, <1>7
     DEF Lock, Run, Fault, RevokeRowRejected, IdentifiersExhausted, HashRaises, RotateRaises,
        Commit, Abort
<1>8. QED
  BY <1>3, <1>5, <1>6, <1>7 DEF Next

\* A snapshot finds the one active row of a family, if there is one.
LEMMA SnapshotFacts ==
    ASSUME IInv, NEW p \in Request, RevokeFamily(p)
    PROVE  /\ matched'[p] = {s \in Session : InUpdate(p, s)}
           /\ UNCHANGED <<auth_sessions, token>>
           /\ token[p] \in Session /\ Exists(token[p])
           /\ auth_sessions[token[p]] = entity[p]
           /\ \A s, t \in matched'[p] : s = t
<1>1. /\ matched'[p] = {s \in Session : InUpdate(p, s)}
      /\ UNCHANGED <<auth_sessions, token>>
      /\ entity[p] # Null
  BY DEF RevokeFamily, Step, store, IInv, TypeOK, HandlerState
<1>2. token[p] \in Session /\ auth_sessions[token[p]] = entity[p] /\ Exists(token[p])
  BY <1>1 DEF IInv, EntityIsCurrent, Exists
<1>3. entity[p].family \in Session
  BY <1>1, RowFacts DEF IInv, TypeOK
<1>4. \A s, t \in matched'[p] : s = t
  <2>1. ASSUME NEW s \in matched'[p] PROVE s \in Family(entity[p].family) /\ Active(s)
    BY <1>1, <2>1 DEF InUpdate, Active, Family
  <2>2. QED
    BY <1>3, <2>1, ActiveIsUnique
<1>5. QED
  BY <1>1, <1>2, <1>4

LEMMA MatchedInductive == IInv /\ MatchedOnce /\ [Next]_vars => MatchedOnce'
BY SnapshotFrame, SnapshotFacts DEF MatchedOnce

\* Steps that leave the table alone keep the order.
LEMMA OrderFrame ==
    ASSUME IInv, [Next]_vars, UNCHANGED auth_sessions,
           NEW position \in [Session -> Nat], NEW next \in Nat, InOrder(position, next)
    PROVE  InOrder(position, next)'
<1>1. \A s \in Session : (Exists(s)' <=> Exists(s)) /\ (Active(s)' <=> Active(s))
  BY DEF Exists, Active
<1>2. \A s \in Session : Exists(s)' => position[s] < next
  BY <1>1 DEF InOrder
<1>3. \A s, t \in Session :
        /\ Exists(s)' /\ Active(t)' /\ s # t
        /\ auth_sessions'[s].family = auth_sessions'[t].family
        => position[s] < position[t]
  BY <1>1 DEF InOrder
<1>4. ASSUME NEW q \in Request, NEW s \in matched'[q], s # token'[q]
      PROVE  position[token'[q]] < position[s]
  <2>1. CASE RevokeFamily(q)
    <3>1. /\ s \in Session /\ InUpdate(q, s) /\ token'[q] = token[q]
          /\ token[q] \in Session /\ Exists(token[q]) /\ auth_sessions[token[q]] = entity[q]
      BY <1>4, <2>1, SnapshotFacts
    <3>2. QED
      BY <1>4, <3>1 DEF InUpdate, InOrder
  <2>2. CASE matched'[q] = matched[q] /\ token'[q] = token[q]
    BY <1>4, <2>2 DEF InOrder
  <2>3. QED
    BY <1>4, <2>1, <2>2, SnapshotFrame
<1>5. QED
  BY <1>2, <1>3, <1>4 DEF InOrder

\* Rows that are selected by an UPDATE, and the token of its request, exist.
LEMMA MatchedExist ==
    ASSUME IInv, NEW q \in Request, NEW s \in matched[q]
    PROVE  s \in Session /\ Exists(s) /\ token[q] \in Session /\ Exists(token[q])
<1>1. s \in Session /\ Exists(s) /\ entity[q] # Null
  BY DEF IInv, TypeOK, SnapshotIsCurrent
<1>2. token[q] \in Session /\ auth_sessions[token[q]] = entity[q]
  BY <1>1 DEF IInv, EntityIsCurrent
<1>3. QED
  BY <1>1, <1>2 DEF Exists

\* A commit adds one row at most, and what it adds comes last in its family.
LEMMA CommitKeepsOrder ==
    ASSUME IInv, [Next]_vars, NEW p \in Request, Commit(p),
           NEW position \in [Session -> Nat], NEW next \in Nat, InOrder(position, next)
    PROVE  \E pos \in [Session -> Nat], n \in Nat : InOrder(pos, n)'
<1>1. \A q \in Request : \A s \in matched'[q] :
        s \in matched[q] /\ token'[q] = token[q]
  BY DEF Commit, End, IInv, TypeOK
<1>2. \A s \in Session : Exists(s) =>
        Exists(s)' /\ auth_sessions'[s].family = auth_sessions[s].family
  BY CommitMonotone
<1>3. \A s \in Session : Exists(s) /\ Active(s)' => Active(s)
  BY CommitMonotone DEF Active
<1>4. ASSUME \A s \in Session : Exists(s)' => Exists(s)
      PROVE  InOrder(position, next)'
  <2>1. \A s \in Session : Exists(s)' => position[s] < next
    BY <1>4 DEF InOrder
  <2>2. \A s, t \in Session :
          /\ Exists(s)' /\ Active(t)' /\ s # t
          /\ auth_sessions'[s].family = auth_sessions'[t].family
          => position[s] < position[t]
    <3> SUFFICES ASSUME NEW s \in Session, NEW t \in Session, Exists(s)', Active(t)', s # t,
                        auth_sessions'[s].family = auth_sessions'[t].family
                 PROVE  position[s] < position[t]
      OBVIOUS
    <3>1. Exists(s) /\ Exists(t) /\ Active(t)
      BY <1>3, <1>4 DEF Active
    <3>2. QED
      BY <1>2, <3>1 DEF InOrder
  <2>3. \A q \in Request : \A s \in matched'[q] :
          s # token'[q] => position[token'[q]] < position[s]
    BY <1>1 DEF InOrder
  <2>4. QED
    BY <2>1, <2>2, <2>3 DEF InOrder
<1>5. ASSUME NEW r \in Session, ~Exists(r), \A s \in Session \ {r} : Exists(s)' => Exists(s),
             \A t \in Session \ {r} :
               ~ (Active(t)' /\ auth_sessions'[t].family = auth_sessions'[r].family)
      PROVE  InOrder([position EXCEPT ![r] = next], next + 1)'
  <2> DEFINE pos == [position EXCEPT ![r] = next]
  <2>1. pos[r] = next /\ \A s \in Session \ {r} : pos[s] = position[s]
    OBVIOUS
  <2>2. pos \in [Session -> Nat]
    OBVIOUS
  <2>3. \A s \in Session \ {r} : Exists(s)' => pos[s] < next
    BY <1>5, <2>1 DEF InOrder
  <2> HIDE DEF pos
  <2>4. \A s \in Session : Exists(s)' => pos[s] < next + 1
    BY <2>1, <2>2, <2>3
  <2>5. \A s, t \in Session :
          /\ Exists(s)' /\ Active(t)' /\ s # t
          /\ auth_sessions'[s].family = auth_sessions'[t].family
          => pos[s] < pos[t]
    <3> SUFFICES ASSUME NEW s \in Session, NEW t \in Session, Exists(s)', Active(t)', s # t,
                        auth_sessions'[s].family = auth_sessions'[t].family
                 PROVE  pos[s] < pos[t]
      OBVIOUS
    <3>1. CASE t = r
      BY <2>1, <2>3, <3>1
    <3>2. CASE t # r
      <4>1. s # r
        BY <1>5, <3>2
      <4>2. Exists(s) /\ Exists(t) /\ Active(t)
        BY <1>3, <1>5, <3>2, <4>1 DEF Active
      <4>3. QED
        BY <1>2, <2>1, <3>2, <4>1, <4>2 DEF InOrder
    <3>3. QED
      BY <3>1, <3>2
  <2>6. \A q \in Request : \A s \in matched'[q] :
          s # token'[q] => pos[token'[q]] < pos[s]
    <3> SUFFICES ASSUME NEW q \in Request, NEW s \in matched'[q], s # token'[q]
                 PROVE  pos[token'[q]] < pos[s]
      OBVIOUS
    <3>1. s \in matched[q] /\ token'[q] = token[q]
      BY <1>1
    <3>2. s \in Session \ {r} /\ token[q] \in Session \ {r}
      BY <1>5, <3>1, MatchedExist
    <3>3. QED
      BY <2>1, <3>1, <3>2 DEF InOrder
  <2>7. QED
    BY <2>4, <2>5, <2>6 DEF InOrder, pos
<1>6. ASSUME NEW r \in Session, NEW u \in User, NEW at \in 0..MaxClock, Opens(r, u, at)
      PROVE  InOrder([position EXCEPT ![r] = next], next + 1)'
  <2> DEFINE row == NewRow(u, r, at, at + TTL)
  <2>1. row.family = r
    BY DEF NewRow
  <2>2. ~Exists(r) /\ auth_sessions' = [auth_sessions EXCEPT ![r] = row]
    BY <1>6 DEF Opens
  <2> HIDE DEF row
  <2>3. auth_sessions'[r].family = r /\ \A s \in Session \ {r} : auth_sessions'[s] = auth_sessions[s]
    BY <2>1, <2>2 DEF IInv, TypeOK
  <2>4. \A s \in Session : Exists(s) => auth_sessions[s].family # r
    BY <2>2 DEF IInv, FamilyIsAChain, Family
  <2>5. \A s \in Session \ {r} : Exists(s)' => Exists(s)
    BY <2>3 DEF Exists
  <2>6. \A t \in Session \ {r} :
          ~ (Active(t)' /\ auth_sessions'[t].family = auth_sessions'[r].family)
    BY <2>3, <2>4, <2>5 DEF Active
  <2>7. QED
    BY <1>5, <2>2, <2>5, <2>6
<1>7. ASSUME NEW old \in Session, NEW r \in Session, NEW at \in Nat, Rotates(old, r, at)
      PROVE  InOrder([position EXCEPT ![r] = next], next + 1)'
  <2> DEFINE e == auth_sessions[old]
             ended == rotate(e, r, at)
             row == ReplacementRow(e, at)
  <2>1. e \in Row /\ old # r /\ Active(old) /\ ~Exists(r)
    BY <1>7 DEF Rotates, Active, Exists, IInv, TypeOK
  <2>2. is_revoked(ended) /\ row.family = e.family
    BY <2>1, RotateFacts, ReplacementFacts
  <2>3. auth_sessions' = [auth_sessions EXCEPT ![old] = ended, ![r] = row]
    BY <1>7 DEF Rotates
  <2>4. e.family \in Session
    BY <2>1, RowFacts
  <2> HIDE DEF e, ended, row
  <2>5. /\ auth_sessions'[r] = row /\ auth_sessions'[old] = ended
        /\ \A s \in Session \ {old, r} : auth_sessions'[s] = auth_sessions[s]
    BY <2>1, <2>3 DEF IInv, TypeOK
  <2>6. \A s \in Session \ {r} : Exists(s)' => Exists(s)
    BY <2>1, <2>5 DEF Exists, Active
  <2>7. ASSUME NEW t \in Session \ {r}, Active(t)',
     auth_sessions'[t].family = auth_sessions'[r].family
        PROVE  FALSE
    <3>1. t # old
      BY <2>2, <2>5, <2>7 DEF Active
    <3>2. Active(t) /\ t \in Family(e.family) /\ old \in Family(e.family)
      BY <2>1, <2>2, <2>5, <2>7, <3>1 DEF Active, Exists, Family, e
    <3>3. QED
      BY <2>1, <2>4, <3>1, <3>2, ActiveIsUnique
  <2>8. QED
    BY <1>5, <2>1, <2>6, <2>7
<1>8. \A r \in Session : [position EXCEPT ![r] = next] \in [Session -> Nat] /\ next + 1 \in Nat
  OBVIOUS
<1>9. CASE \/ UNCHANGED auth_sessions
           \/ \E f \in Session, n \in Nat \cup {Null} : Revokes(f, n)
  <2>1. \A s \in Session : Exists(s)' => Exists(s)
    BY <1>9 DEF Revokes, Exists, Active
  <2>2. QED
    BY <1>4, <2>1
<1>10. QED
  BY <1>6, <1>7, <1>8, <1>9, CommitShape

LEMMA OrderInductive == IInv /\ LockOrder /\ [Next]_vars => LockOrder'
<1> SUFFICES ASSUME IInv, LockOrder, [Next]_vars PROVE LockOrder'
  OBVIOUS
<1>1. LocksKnown' /\ MatchedOnce'
  BY LocksInductive, MatchedInductive DEF LockOrder
<1>2. PICK position \in [Session -> Nat], next \in Nat : InOrder(position, next)
  BY DEF LockOrder
<1>3. \E pos \in [Session -> Nat], n \in Nat : InOrder(pos, n)'
  <2>1. CASE UNCHANGED auth_sessions
    BY <1>2, <2>1, OrderFrame
  <2>2. ASSUME NEW p \in Request, Commit(p)
        PROVE  \E pos \in [Session -> Nat], n \in Nat : InOrder(pos, n)'
    BY <1>2, <2>2, CommitKeepsOrder
  <2>3. QED
    BY <2>1, <2>2, OnlyCommitWrites
<1>4. QED
  BY <1>1, <1>3 DEF LockOrder

\* Nobody waits in a circle when the locks are taken in order: a request in an
\* UPDATE is waited for because of the row of its own token, and that row comes
\* after the one of whoever waits.
LEMMA OrderExcludesCycles == IInv /\ LockOrder => NoDeadlock
<1> SUFFICES ASSUME IInv, LockOrder, NEW S \in SUBSET Request, S # {},
                    \A p \in S : \E q \in S : WaitsFor(p, q)
             PROVE  FALSE
  BY DEF NoDeadlock
<1>1. PICK position \in [Session -> Nat], next \in Nat : InOrder(position, next)
  BY DEF LockOrder
<1> DEFINE U == {p \in S : pc[p] = "updating"}
<1>2. ASSUME NEW p \in S, NEW q \in S, WaitsFor(p, q)
      PROVE  q \in U
  <2>1. \E s \in Session : owner[s] = q
    BY <1>2 DEF WaitsFor, IInv, TypeOK
  <2>2. pc[q] # "lookup"
    BY <2>1 DEF LockOrder, LocksKnown
  <2>3. pc[q] \in {"lookup", "updating"}
    BY DEF WaitsFor
  <2>4. QED
    BY <2>2, <2>3
<1>3. ASSUME NEW p \in U
      PROVE  /\ token[p] \in Session /\ owner[token[p]] = p
             /\ position[token[p]] < next
             /\ \E q \in U, s \in todo[p] : q # p /\ owner[s] = q
  <2>1. token[p] \in Session /\ owner[token[p]] = p /\ Exists(token[p])
    BY <1>3 DEF IInv, HandlerState, EntityIsCurrent, Exists
  <2>2. PICK q \in S : WaitsFor(p, q)
    BY <1>3
  <2>3. q \in U /\ q # p /\ \E s \in todo[p] : owner[s] = q
    BY <1>2, <1>3, <2>2 DEF WaitsFor
  <2>4. QED
    BY <1>1, <2>1, <2>3 DEF InOrder
<1>4. ASSUME NEW p \in U
      PROVE  \E q \in U : position[token[p]] < position[token[q]]
  <2>1. PICK q \in U, s \in todo[p] : q # p /\ owner[s] = q
    BY <1>3
  <2>2. s \in matched[p] /\ s \in Session
    BY <2>1 DEF IInv, TypeOK, SnapshotIsCurrent
  <2>3. PICK t \in todo[q] : t \in Session
    BY <1>3 DEF IInv, TypeOK
  <2>4. matched[q] \ todo[q] = {}
    BY <2>3 DEF LockOrder, MatchedOnce, IInv, SnapshotIsCurrent
  <2>5. s = token[q]
    BY <2>1, <2>2, <2>4 DEF LockOrder, LocksKnown
  <2>6. s # token[p]
    BY <1>3, <2>1
  <2>7. QED
    BY <1>1, <2>2, <2>5, <2>6 DEF InOrder
<1>5. U # {}
  <2>1. PICK p \in S : TRUE
    OBVIOUS
  <2>2. QED
    BY <1>2, <2>1
<1> DEFINE Room == {next - position[token[p]] : p \in U}
<1>6. Room \subseteq Nat /\ Room # {}
  <2>1. ASSUME NEW p \in U PROVE next - position[token[p]] \in Nat
    <3>1. position[token[p]] \in Nat /\ position[token[p]] < next
      BY <1>3
    <3>2. QED
      BY <3>1
  <2>2. QED
    BY <1>5, <2>1
<1>7. PICK m \in Room : \A n \in Room : m <= n
  <2> HIDE DEF Room
  <2>1. QED
    BY <1>6, LeastElement
<1>8. PICK p \in U : m = next - position[token[p]]
  BY <1>7
<1>9. PICK q \in U : position[token[p]] < position[token[q]]
  BY <1>4
<1>10. /\ position[token[p]] \in Nat /\ position[token[q]] \in Nat
       /\ next - position[token[p]] <= next - position[token[q]]
  BY <1>3, <1>7, <1>8
<1>11. QED
  BY <1>9, <1>10

\* PostgreSQL never finds requests of this system waiting for each other's
\* rows in a circle, however many of them compete for however many families.
THEOREM NeverDeadlocked == Spec => []NoDeadlock
<1>1. Init => LockOrder
  BY InitialOrder
<1>2. IInv /\ LockOrder /\ [Next]_vars => LockOrder'
  BY OrderInductive
<1>3. IInv /\ LockOrder => NoDeadlock
  BY OrderExcludesCycles
<1>4. QED
  BY <1>1, <1>2, <1>3, Invariance, PTL DEF Spec

=============================================================================
