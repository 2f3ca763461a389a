----------------------------- MODULE Registration -----------------------------
(***************************************************************************)
(* The two ways to create a user: POST /users and POST /auth/register, as  *)
(* concurrent requests over the tables users and password_credentials.     *)
(*                                                                         *)
(* Both look the e-mail address up and insert later, so what keeps it      *)
(* unique is the constraint uq_users_email, and what a client is told      *)
(* depends on when the INSERT is flushed: the registration flushes before  *)
(* it answers, the plain creation only when its transaction commits, and   *)
(* get_db_session commits after the answer was sent.                       *)
(***************************************************************************)
EXTENDS Naturals

CONSTANTS
    Request,     \* the request handlers that may run at the same time
    UserId,      \* identifiers of users, uuid4: never generated twice
    RawInput,    \* request bodies
    Email,       \* normalized addresses
    Normal,      \* the address in a body, Null if its route rejects the body
    Null,
    MayFail      \* may a request crash, or lose its connection?

ASSUME NormalAssumption ==
    Normal \in [{"users", "register"} \X RawInput -> Email \cup {Null}]
ASSUME NullAssumption ==
    /\ Null \notin Email \cup UserId \cup RawInput
    /\ Null \notin {"users", "register", "201", "409", "422", "500"}
    /\ Null \notin [address : Email, password : BOOLEAN]
ASSUME FailAssumption == MayFail \in BOOLEAN

VARIABLES
    users,           \* committed rows: UserId -> e-mail or Null
    credentials,     \* the users that have a committed credential
    pc,
    route,           \* "users" or "register"
    body,            \* the request body
    uid,             \* the identifier User.create generated
    pending,         \* objects added to the session and not flushed
    staged,          \* rows inserted by a flush and not committed
    reply            \* the status sent to the client, or Null

tables == <<users, credentials>>
vars == <<users, credentials, pc, route, body, uid, pending, staged, reply>>

Init ==
    /\ users = [u \in UserId |-> Null]
    /\ credentials = {}
    /\ pc = [p \in Request |-> "idle"]
    /\ route = [p \in Request |-> Null]
    /\ body = [p \in Request |-> Null]
    /\ uid = [p \in Request |-> Null]
    /\ pending = [p \in Request |-> {}]
    /\ staged = [p \in Request |-> {}]
    /\ reply = [p \in Request |-> Null]

Step(p, from, to) == pc[p] = from /\ pc' = [pc EXCEPT ![p] = to]
Answer(p, status) == reply' = [reply EXCEPT ![p] = status]

\* EmailAddress, DisplayName and PasswordPolicy: see ValueObjects.
EmailOf(p) == Normal[<<route[p], body[p]>>]

Taken(e) == \E u \in UserId : users[u] = e

Fresh(u) == users[u] = Null /\ \A p \in Request : uid[p] # u

-----------------------------------------------------------------------------
Begin(p, r, b) ==
    /\ Step(p, "idle", "validate")
    /\ route' = [route EXCEPT ![p] = r]
    /\ body' = [body EXCEPT ![p] = b]
    /\ reply' = [reply EXCEPT ![p] = Null]
    /\ UNCHANGED <<tables, uid, pending, staged>>

RejectInput(p) ==
    /\ Step(p, "validate", "replied")
    /\ EmailOf(p) = Null
    /\ Answer(p, "422")
    /\ UNCHANGED <<tables, route, body, uid, pending, staged>>

EmailTaken(p) ==
    /\ Step(p, "validate", "replied")
    /\ EmailOf(p) # Null
    /\ Taken(EmailOf(p))
    /\ Answer(p, "409")
    /\ UNCHANGED <<tables, route, body, uid, pending, staged>>

\* The lookup finds nobody; a registration now hashes the password on a thread.
EmailFree(p) ==
    /\ Step(p, "validate", "create")
    /\ EmailOf(p) # Null
    /\ ~Taken(EmailOf(p))
    /\ UNCHANGED <<tables, route, body, uid, pending, staged, reply>>

\* CreateUser saves with session.add and answers.
CreateUser(p, u) ==
    /\ Step(p, "create", "replied")
    /\ route[p] = "users"
    /\ Fresh(u)
    /\ uid' = [uid EXCEPT ![p] = u]
    /\ pending' = [pending EXCEPT ![p] = {"user"}]
    /\ Answer(p, "201")
    /\ UNCHANGED <<tables, route, body, staged>>

\* Variant: the credential is made for a user that has no identifier yet.
HashPassword_NoUser(p, u) ==
    /\ Step(p, "create", "flush")
    /\ route[p] = "register"
    /\ Fresh(u)
    /\ pending' = [pending EXCEPT ![p] = {"user", "credential"}]
    /\ UNCHANGED <<tables, route, body, uid, staged, reply>>

\* The hash is ready: user and credential are added, and the flush begins.
HashPassword(p, u) ==
    /\ Step(p, "create", "flush")
    /\ route[p] = "register"
    /\ Fresh(u)
    /\ uid' = [uid EXCEPT ![p] = u]
    /\ pending' = [pending EXCEPT ![p] = {"user", "credential"}]
    /\ UNCHANGED <<tables, route, body, staged, reply>>

-----------------------------------------------------------------------------
(* INSERT INTO users, by the flush of a registration or of a commit.       *)

\* Variant: the address is reserved from the moment a user is added.
MayInsert_Reserved(p) ==
    /\ "user" \in pending[p]
    /\ pc[p] \in {"flush", "replied"}
    /\ \A q \in Request \ {p} :
         "user" \in pending[q] \cup staged[q] => EmailOf(q) # EmailOf(p)

\* Variant: an INSERT does not wait for a duplicate that is not committed.
MayInsert_NoWait(p) ==
    /\ "user" \in pending[p]
    /\ pc[p] \in {"flush", "replied"}

\* The unique index makes an INSERT wait for the transaction of a duplicate.
MayInsert(p) ==
    /\ "user" \in pending[p]
    /\ pc[p] \in {"flush", "replied"}
    /\ \A q \in Request \ {p} : "user" \in staged[q] => EmailOf(q) # EmailOf(p)

\* Variant: uq_users_email does not exist.
Duplicate_Unconstrained(p) == FALSE

Duplicate(p) == Taken(EmailOf(p))

InsertUser(p) ==
    /\ MayInsert(p)
    /\ ~Duplicate(p)
    /\ pending' = [pending EXCEPT ![p] = @ \ {"user"}]
    /\ staged' = [staged EXCEPT ![p] = @ \cup {"user"}]
    /\ UNCHANGED <<tables, pc, route, body, uid, reply>>

InsertCredential(p) ==
    /\ Step(p, "flush", "replied")
    /\ pending[p] = {"credential"}
    /\ pending' = [pending EXCEPT ![p] = {}]
    /\ staged' = [staged EXCEPT ![p] = @ \cup {"credential"}]
    /\ Answer(p, "201")
    /\ UNCHANGED <<tables, route, body, uid>>

\* The transaction is over, one way or the other; reply is kept for the client.
End(p) ==
    /\ pc' = [pc EXCEPT ![p] = "idle"]
    /\ route' = [route EXCEPT ![p] = Null]
    /\ body' = [body EXCEPT ![p] = Null]
    /\ uid' = [uid EXCEPT ![p] = Null]
    /\ pending' = [pending EXCEPT ![p] = {}]
    /\ staged' = [staged EXCEPT ![p] = {}]

\* IntegrityError: rolled back. handle_registration_integrity_error turns it
\* into a 409 for a registration; a plain creation has answered already.
InsertRejected(p) ==
    /\ MayInsert(p)
    /\ Duplicate(p)
    /\ IF pc[p] = "flush" THEN Answer(p, "409") ELSE UNCHANGED reply
    /\ End(p)
    /\ UNCHANGED tables

-----------------------------------------------------------------------------
\* Variant: the two inserts are committed one by one.
Durable_UserOnly(p) == staged[p] \ {"credential"}

\* What the commit makes durable.
Durable(p) == staged[p]

Commit(p) ==
    /\ pc[p] = "replied"
    /\ pending[p] = {}
    /\ users' = IF "user" \in Durable(p)
                THEN [users EXCEPT ![uid[p]] = EmailOf(p)] ELSE users
    /\ credentials' = IF "credential" \in Durable(p)
                      THEN credentials \cup {uid[p]} ELSE credentials
    /\ End(p)
    /\ UNCHANGED reply

\* A crash, a lost connection or a failing commit: rolled back.
Fault(p) ==
    /\ MayFail
    /\ pc[p] # "idle"
    /\ IF pc[p] = "replied" THEN UNCHANGED reply ELSE Answer(p, "500")
    /\ End(p)
    /\ UNCHANGED tables

\* Bound: when every identifier has been used, a creation fails.
IdentifiersExhausted(p) ==
    /\ pc[p] = "create"
    /\ \A u \in UserId : ~Fresh(u)
    /\ Answer(p, "500")
    /\ End(p)
    /\ UNCHANGED tables

-----------------------------------------------------------------------------
Insert(p) == InsertUser(p) \/ InsertRejected(p)

Run(p) ==
    \/ RejectInput(p) \/ EmailTaken(p) \/ EmailFree(p)
    \/ \E u \in UserId : CreateUser(p, u) \/ HashPassword(p, u)
    \/ IdentifiersExhausted(p)
    \/ InsertCredential(p)
    \/ Commit(p)

Next ==
    \E p \in Request :
        \/ \E r \in {"users", "register"}, b \in RawInput : Begin(p, r, b)
        \/ Insert(p) \/ Run(p) \/ Fault(p)

Spec == Init /\ [][Next]_vars

\* Handlers that can run do run; PostgreSQL wakes an INSERT that waited.
FairSpec == Spec /\ \A p \in Request : WF_vars(Run(p)) /\ SF_vars(Insert(p))

-----------------------------------------------------------------------------
TypeOK ==
    /\ users \in [UserId -> Email \cup {Null}]
    /\ credentials \subseteq UserId
    /\ pc \in [Request -> {"idle", "validate", "create", "flush", "replied"}]
    /\ route \in [Request -> {"users", "register", Null}]
    /\ body \in [Request -> RawInput \cup {Null}]
    /\ uid \in [Request -> UserId \cup {Null}]
    /\ pending \in [Request -> SUBSET {"user", "credential"}]
    /\ staged \in [Request -> SUBSET {"user", "credential"}]
    /\ reply \in [Request -> {"201", "409", "422", "500", Null}]

\* One profile per address, whichever routes and spellings race for it.
EmailsUnique ==
    \A u, v \in UserId : users[u] # Null /\ users[u] = users[v] => u = v

\* A registration that answered 201 leaves a user and the credential to log in
\* with, unless a fault comes between its answer and its commit; a registration
\* that did not answer 201, or that a fault ended, leaves neither.
RegistrationIsAtomic ==
    [][\A p \in Request : route[p] = "register" /\ pc'[p] = "idle" =>
          IF reply[p] = "201" /\ ~Fault(p)
          THEN users'[uid[p]] = EmailOf(p) /\ uid[p] \in credentials'
          ELSE UNCHANGED tables]_vars

\* Every creation ends, though it may have to wait for its competitors.
CreationsFinish == \A p \in Request : pc[p] # "idle" ~> pc[p] = "idle"

\* "Create, persist, and return a new Vectro user profile" (create_user.py):
\* a POST /users that answered 201 and ended without a fault left a user.
CreatedIsPersisted ==
    [][\A p \in Request : route[p] = "users" /\ reply[p] = "201" /\ pc'[p] = "idle"
          => users'[uid[p]] = EmailOf(p)]_vars

-----------------------------------------------------------------------------
(* The two routes and their tables implement the service of Accounts.      *)

\* What a request still asks for.  One that was rejected or refused asks for
\* nothing, though its transaction has still to end.
WishOf(p) ==
    IF pc[p] = "idle" \/ reply[p] \notin {Null, "201"} \/ EmailOf(p) = Null
    THEN Null
    ELSE [address |-> EmailOf(p), password |-> route[p] = "register"]

\* What its client was told about the account.
ToldOf(p) == IF reply[p] \in {"201", "409", "500"} THEN reply[p] ELSE Null

AC == INSTANCE Accounts WITH
    Id <- UserId,
    Client <- Request,
    Address <- Email,
    None <- Null,
    address <- users,
    withPassword <- credentials,
    wish <- [p \in Request |-> WishOf(p)],
    told <- [p \in Request |-> ToldOf(p)]

\* Two tables, two lookups and a constraint behave as one service: whatever
\* races and whatever fails, an address is claimed once and by one step, with a
\* password exactly if the request was a registration; a 409 is told only when
\* the address is owned, so a competitor that may still fail is waited for; and
\* a registration that was told 201 loses its address to nobody.
ImplementsAccounts == AC!Spec

-----------------------------------------------------------------------------
(* The inductive invariant.                                                *)

\* Where a creation stands, and what it has added to its session by then.
StateOf(p) ==
    /\ pc[p] = "idle" => route[p] = Null
    /\ pc[p] # "idle" => route[p] # Null /\ body[p] # Null
    /\ pc[p] \in {"idle", "validate", "create"} =>
         uid[p] = Null /\ pending[p] = {} /\ staged[p] = {}
    /\ pc[p] \in {"validate", "create", "flush"} => reply[p] = Null
    /\ pc[p] = "create" => EmailOf(p) # Null
    /\ pc[p] = "flush" =>
         /\ route[p] = "register"
         /\ pending[p] \cup staged[p] = {"user", "credential"}
         /\ "credential" \in pending[p]
    /\ pc[p] = "replied" => reply[p] \in {"201", "409", "422"}
    /\ pc[p] = "replied" /\ reply[p] # "201" => pending[p] \cup staged[p] = {}
    /\ pc[p] = "replied" /\ reply[p] = "201" =>
         IF route[p] = "register"
         THEN pending[p] = {} /\ staged[p] = {"user", "credential"}
         ELSE pending[p] \cup staged[p] = {"user"}
    /\ pending[p] \cup staged[p] # {} => uid[p] # Null /\ EmailOf(p) # Null

CreationState == \A p \in Request : StateOf(p)

\* The identifier of a creation belongs to nobody else.
IdentifiersDiffer ==
    \A p \in Request : uid[p] # Null =>
        users[uid[p]] = Null /\ \A q \in Request \ {p} : uid[q] # uid[p]

\* The unique index: an uncommitted row shares its address with no other row.
StagedIsUnique ==
    \A p \in Request : "user" \in staged[p] =>
        /\ ~Taken(EmailOf(p))
        /\ \A q \in Request \ {p} : "user" \in staged[q] => EmailOf(q) # EmailOf(p)

IInv == TypeOK /\ CreationState /\ IdentifiersDiffer /\ StagedIsUnique /\ EmailsUnique

=============================================================================
