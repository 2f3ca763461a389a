---------------------------- MODULE PasswordLogin ----------------------------
(***************************************************************************)
(* POST /auth/login up to the session it opens: concurrent logins to one   *)
(* account, while its user is deactivated and its credential revoked.      *)
(*                                                                         *)
(* A login loads the user and the credential without a lock, leaves the    *)
(* event loop for the Argon2 work, and may then write a hash with newer    *)
(* parameters. save() reads the row again, since the session holds its     *)
(* objects weakly and the repository dropped the first one, and SQLAlchemy *)
(* sends an UPDATE of the columns in which the entity differs from what    *)
(* this second read returned.                                              *)
(***************************************************************************)
EXTENDS Naturals

CONSTANTS
    Request,        \* the logins that may run at the same time
    Admin,          \* the transactions that may revoke the credential
    MaxClock,       \* bound on the clock
    ClockStepsBack, \* may the wall clock be set back?
    MayDeactivate,  \* may the user be deactivated and reactivated?
    MayFail,        \* may a login crash, or lose its connection?
    Null

ASSUME ClockAssumption == MaxClock \in Nat /\ ClockStepsBack \in BOOLEAN
ASSUME FlagsAssumption == MayDeactivate \in BOOLEAN /\ MayFail \in BOOLEAN
ASSUME NullAssumption == Null \notin Request \cup Nat

VARIABLES
    active,        \* whether the user's committed status is ACTIVE
    row,           \* the committed credential, or Null
    owner,         \* the login that holds the lock of the row, or Null
    staged,        \* what that login will commit, or Null
    clock,
    pc,
    attempt,       \* what a client sent
    is_active,     \* the status of the user that a login loaded
    credential,    \* the PasswordCredential it loaded, or changed
    model,         \* the row that save() read again
    work,          \* how many hashes it has verified
    reply,         \* the status it answered, or Null
    loaded,        \* the credential that a revocation loaded, or Null
    revoked        \* the same, revoked, before it is written

local == <<attempt, is_active, credential, model, work, reply>>
world == <<active, clock, loaded, revoked>>
vars == <<active, row, owner, staged, clock, pc, attempt, is_active, credential,
          model, work, reply, loaded, revoked>>

\* A request names no account (an address that is invalid, or unknown), or the
\* account with a password right or wrong.
Attempt == {"no_account", "wrong", "right"}

\* A hash is of a password, under old or under current Argon2 parameters.
Hash == [password : {"wrong", "right"}, current : BOOLEAN]

Credential == [hash                : Hash,
               active              : BOOLEAN,
               password_changed_at : Nat,
               created_at          : Nat,
               updated_at          : Nat,
               revoked_at          : Nat \cup {Null}]

ASSUME NoCredentialAssumption == Null \notin Credential

\* What the constructor accepts; to_domain raises on any other row.
Valid(c) ==
    /\ c.created_at <= c.password_changed_at
    /\ c.password_changed_at <= c.updated_at
    /\ c.active <=> c.revoked_at = Null
    /\ c.revoked_at # Null =>
         c.password_changed_at <= c.revoked_at /\ c.revoked_at <= c.updated_at

create(hash, at) ==
    [hash |-> hash, active |-> TRUE, password_changed_at |-> at, created_at |-> at,
     updated_at |-> at, revoked_at |-> Null]

\* Variant: the default of changed_at, None, is stored as it is.
replace_password_hash_None(c, password, at) ==
    [c EXCEPT !.hash = [password |-> password, current |-> TRUE],
              !.password_changed_at = Null, !.updated_at = at]

replace_password_hash(c, password, at) ==
    [c EXCEPT !.hash = [password |-> password, current |-> TRUE],
              !.password_changed_at = at, !.updated_at = at]

revoke(c, at) == [c EXCEPT !.active = FALSE, !.revoked_at = at, !.updated_at = at]

\* Variant: update_model forgets revoked_at.
Columns_NoRevokedAt(was, is) == {k \in DOMAIN is \ {"revoked_at"} : is[k] # was[k]}

\* Variant: the UPDATE writes every column.
Columns_All(was, is) == DOMAIN is

\* The columns that the UPDATE of a changed object writes.
Columns(was, is) == {k \in DOMAIN is : is[k] # was[k]}

\* The newest version of the row with these columns taken from is.
Overwrite(columns, is) == [k \in DOMAIN row |-> IF k \in columns THEN is[k] ELSE row[k]]

-----------------------------------------------------------------------------
\* A user who was created without a credential, or registered, now or when
\* other parameters were current.
Init ==
    /\ active = TRUE
    /\ clock \in 0..MaxClock
    /\ row \in {Null} \cup {create([password |-> "right", current |-> c], clock) : c \in BOOLEAN}
    /\ owner = Null
    /\ staged = Null
    /\ pc = [p \in Request |-> "idle"]
    /\ attempt = [p \in Request |-> Null]
    /\ is_active = [p \in Request |-> Null]
    /\ credential = [p \in Request |-> Null]
    /\ model = [p \in Request |-> Null]
    /\ work = [p \in Request |-> 0]
    /\ reply = [p \in Request |-> Null]
    /\ loaded = [a \in Admin |-> Null]
    /\ revoked = [a \in Admin |-> Null]

Step(p, from, to) == pc[p] = from /\ pc' = [pc EXCEPT ![p] = to]
Answer(p, status) == reply' = [reply EXCEPT ![p] = status]

Begin(p, a) ==
    /\ Step(p, "idle", "load_user")
    /\ attempt' = [attempt EXCEPT ![p] = a]
    /\ UNCHANGED <<row, owner, staged, is_active, credential, model, work, reply, world>>

NoUser(p) ==
    /\ Step(p, "load_user", "verify_dummy")
    /\ attempt[p] = "no_account"
    /\ UNCHANGED <<row, owner, staged, local, world>>

LoadUser(p) ==
    /\ Step(p, "load_user", "load_credential")
    /\ attempt[p] \in {"wrong", "right"}
    /\ is_active' = [is_active EXCEPT ![p] = active]
    /\ UNCHANGED <<row, owner, staged, attempt, credential, model, work, reply, world>>

NoCredential(p) ==
    /\ Step(p, "load_credential", "verify_dummy")
    /\ row = Null
    /\ UNCHANGED <<row, owner, staged, local, world>>

LoadCredential(p) ==
    /\ Step(p, "load_credential", "verify")
    /\ row # Null
    /\ Valid(row)
    /\ credential' = [credential EXCEPT ![p] = row]
    /\ UNCHANGED <<row, owner, staged, attempt, is_active, model, work, reply, world>>

\* The end of a transaction; after an exception, a 500 is the answer.
End(p) ==
    /\ pc' = [pc EXCEPT ![p] = "idle"]
    /\ attempt' = [attempt EXCEPT ![p] = Null]
    /\ is_active' = [is_active EXCEPT ![p] = Null]
    /\ credential' = [credential EXCEPT ![p] = Null]
    /\ model' = [model EXCEPT ![p] = Null]
    /\ work' = [work EXCEPT ![p] = 0]
    /\ Answer(p, Null)
    /\ owner' = IF owner = p THEN Null ELSE owner
    /\ staged' = IF owner = p THEN Null ELSE staged
    /\ UNCHANGED world

\* An exception nothing catches: rolled back.
Raise(p) == End(p) /\ UNCHANGED row

\* to_domain refuses the row.
LoadRaises(p) ==
    /\ pc[p] = "load_credential"
    /\ row # Null
    /\ ~Valid(row)
    /\ Raise(p)

-----------------------------------------------------------------------------
(* The Argon2 work, on a thread.                                           *)

Verify(p) == work' = [work EXCEPT ![p] = @ + 1]

\* Variant: an account without a credential is rejected at once.
VerifyDummy_Skipped(p) ==
    /\ Step(p, "verify_dummy", "replied")
    /\ Answer(p, "401")
    /\ UNCHANGED <<row, owner, staged, attempt, is_active, credential, model, work, world>>

\* _verify_dummy_password, then InvalidCredentialsError.
VerifyDummy(p) ==
    /\ Step(p, "verify_dummy", "replied")
    /\ Verify(p)
    /\ Answer(p, "401")
    /\ UNCHANGED <<row, owner, staged, attempt, is_active, credential, model, world>>

\* Variant: the password is checked after the hash has been replaced.
Accepts_AnyPassword(p) == is_active[p] /\ credential[p].active

\* The login may go on: all three conditions are looked at after the work.
Accepts(p) ==
    /\ credential[p].hash.password = attempt[p]
    /\ is_active[p]
    /\ credential[p].active

RejectPassword(p) ==
    /\ Step(p, "verify", "replied")
    /\ ~Accepts(p)
    /\ Verify(p)
    /\ Answer(p, "401")
    /\ UNCHANGED <<row, owner, staged, attempt, is_active, credential, model, world>>

AcceptPassword(p) ==
    /\ pc[p] = "verify"
    /\ Accepts(p)
    /\ pc' = [pc EXCEPT ![p] = IF credential[p].hash.current THEN "issue" ELSE "rehash"]
    /\ Verify(p)
    /\ UNCHANGED <<row, owner, staged, attempt, is_active, credential, model, reply, world>>

\* _next_updated_at: an update cannot precede the state it was made from.
CanUpdate(c, at) == at >= c.updated_at

Rehash(p) ==
    /\ Step(p, "rehash", "read_again")
    /\ CanUpdate(credential[p], clock)
    /\ credential' = [credential EXCEPT ![p] = replace_password_hash(@, attempt[p], clock)]
    /\ UNCHANGED <<row, owner, staged, attempt, is_active, model, work, reply, world>>

RehashRaises(p) ==
    /\ pc[p] = "rehash"
    /\ ~CanUpdate(credential[p], clock)
    /\ Raise(p)

-----------------------------------------------------------------------------
(* save(): a second read, then the UPDATE, which waits for the row's lock. *)

ReadAgain(p) ==
    /\ Step(p, "read_again", "flush")
    /\ model' = [model EXCEPT ![p] = row]
    /\ UNCHANGED <<row, owner, staged, attempt, is_active, credential, work, reply, world>>

\* A new hash always differs, by its salt.
Flush(p) ==
    /\ Step(p, "flush", "issue")
    /\ owner = Null
    /\ owner' = p
    /\ staged' = Overwrite(Columns(model[p], credential[p]) \cup {"hash"}, credential[p])
    /\ UNCHANGED <<row, local, world>>

\* The refresh session is saved, the access token signed, and both are sent.
IssueTokens(p) ==
    /\ Step(p, "issue", "replied")
    /\ Answer(p, "200")
    /\ UNCHANGED <<row, owner, staged, attempt, is_active, credential, model, work, world>>

Commit(p) ==
    /\ pc[p] = "replied"
    /\ row' = IF owner = p THEN staged ELSE row
    /\ End(p)

\* A crash, a lost connection or a failing commit.
Fault(p) ==
    /\ MayFail
    /\ pc[p] # "idle"
    /\ Raise(p)

-----------------------------------------------------------------------------
(* Who else writes: no route does, the entities and the tests do.          *)

\* A transaction loads the credential, revokes the entity, and copies it back.
LoadToRevoke(a) ==
    /\ loaded[a] = Null
    /\ row # Null
    /\ Valid(row)
    /\ row.active
    /\ CanUpdate(row, clock)
    /\ loaded' = [loaded EXCEPT ![a] = row]
    /\ revoked' = [revoked EXCEPT ![a] = revoke(row, clock)]
    /\ UNCHANGED <<active, row, owner, staged, clock, pc, local>>

\* It holds the object it read and commits the columns that revoke changed.
CommitRevocation(a) ==
    /\ loaded[a] # Null
    /\ owner = Null
    /\ row' = Overwrite(Columns(loaded[a], revoked[a]), revoked[a])
    /\ loaded' = [loaded EXCEPT ![a] = Null]
    /\ revoked' = [revoked EXCEPT ![a] = Null]
    /\ UNCHANGED <<active, owner, staged, clock, pc, local>>

SetStatus ==
    /\ MayDeactivate
    /\ active' = ~active
    /\ UNCHANGED <<row, owner, staged, clock, pc, local, loaded, revoked>>

Tick ==
    /\ clock < MaxClock
    /\ clock' = clock + 1
    /\ UNCHANGED <<active, row, owner, staged, pc, local, loaded, revoked>>

StepBack ==
    /\ ClockStepsBack
    /\ clock > 0
    /\ clock' = clock - 1
    /\ UNCHANGED <<active, row, owner, staged, pc, local, loaded, revoked>>

-----------------------------------------------------------------------------
Run(p) ==
    \/ NoUser(p) \/ LoadUser(p)
    \/ NoCredential(p) \/ LoadCredential(p) \/ LoadRaises(p)
    \/ VerifyDummy(p) \/ RejectPassword(p) \/ AcceptPassword(p)
    \/ Rehash(p) \/ RehashRaises(p) \/ ReadAgain(p)
    \/ IssueTokens(p) \/ Commit(p)

Next ==
    \/ \E p \in Request :
         \/ \E a \in Attempt : Begin(p, a)
         \/ Run(p) \/ Flush(p) \/ Fault(p)
    \/ \E a \in Admin : LoadToRevoke(a) \/ CommitRevocation(a)
    \/ SetStatus \/ Tick \/ StepBack

Spec == Init /\ [][Next]_vars

-----------------------------------------------------------------------------
(* Properties.                                                             *)

TypeOK ==
    /\ active \in BOOLEAN
    /\ row \in Credential \cup {Null}
    /\ owner \in Request \cup {Null}
    /\ staged \in Credential \cup {Null}
    /\ clock \in 0..MaxClock
    /\ pc \in [Request -> {"idle", "load_user", "load_credential", "verify_dummy", "verify",
                           "rehash", "read_again", "flush", "issue", "replied"}]
    /\ attempt \in [Request -> Attempt \cup {Null}]
    /\ is_active \in [Request -> BOOLEAN \cup {Null}]
    /\ credential \in [Request -> Credential \cup {Null}]
    /\ model \in [Request -> Credential \cup {Null}]
    /\ work \in [Request -> {0, 1}]
    /\ reply \in [Request -> {"200", "401", Null}]
    /\ loaded \in [Admin -> Credential \cup {Null}]
    /\ revoked \in [Admin -> Credential \cup {Null}]

\* "Perform equivalent Argon2 work when an account cannot be authenticated"
\* (login_with_password.py): whatever a login was refused for, or if it was
\* accepted, it has verified one hash when it answers.  The new hash of a
\* success that rehashes is not counted: it is extra work, and no refusal.
EqualWork == \A p \in Request : pc[p] = "replied" => work[p] = 1

\* However the column-wise UPDATEs of logins and revocations overwrite each
\* other, status and revoked_at are not torn apart: a revoked credential has a
\* date, an active one has none, though the table has no such constraint.  Of
\* these two columns only: a revocation between the second read and the UPDATE
\* leaves its earlier date beside a later password_changed_at, a row that
\* to_domain refuses.
StatusMatchesRevocation == row # Null => (row.active <=> row.revoked_at = Null)

\* The stored hash is of the password the user registered: an attempt with
\* another one never gets as far as to replace it.
PasswordKept == row # Null => row.hash.password = "right"

\* A hash under current parameters is never exchanged for an older one by a
\* transaction that loaded the credential before.
CurrentStaysCurrent ==
    [][row # Null /\ row.hash.current => row'.hash.current]_vars

\* "A revoked credential cannot replace its password hash"
\* (password_credential.py): what has been revoked is not written any more.
RevokedCredentialIsKept ==
    [][row # Null /\ ~row.active => row' = row]_vars

-----------------------------------------------------------------------------
(* The inductive invariant.                                                *)

\* What every copy of the credential that somebody holds has in common.
Sound(c) == c.hash.password = "right" /\ (c.active <=> c.revoked_at = Null)

CopiesAreSound ==
    /\ row # Null => Sound(row)
    /\ staged # Null => Sound(staged) /\ staged.hash.current
    /\ \A p \in Request :
         /\ credential[p] # Null => row # Null /\ Sound(credential[p])
         /\ model[p] # Null => Sound(model[p])

\* A revocation changes exactly what tells an active credential from a revoked one.
RevocationsAreSound ==
    \A a \in Admin : loaded[a] # Null =>
        /\ row # Null /\ revoked[a] # Null
        /\ Sound(loaded[a]) /\ loaded[a].active
        /\ Sound(revoked[a]) /\ ~revoked[a].active
        /\ revoked[a].hash = loaded[a].hash

\* Where a login stands, and what it holds by then.
LoginState(p) ==
    /\ pc[p] \in {"verify", "rehash", "read_again", "flush"} => credential[p] # Null
    /\ pc[p] = "rehash" => attempt[p] = "right"
    /\ pc[p] \in {"rehash", "read_again", "flush"} => credential[p].active
    /\ pc[p] \in {"read_again", "flush"} => credential[p].hash.current
    /\ pc[p] = "flush" => model[p] # Null
    /\ work[p] = IF pc[p] \in {"rehash", "read_again", "flush", "issue", "replied"}
                 THEN 1 ELSE 0
    /\ owner = p => pc[p] \in {"issue", "replied"}

LoginStates == \A p \in Request : LoginState(p)

LockState == owner = Null <=> staged = Null

IInv == TypeOK /\ CopiesAreSound /\ RevocationsAreSound /\ LoginStates /\ LockState

=============================================================================
