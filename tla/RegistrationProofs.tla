-------------------------- MODULE RegistrationProofs --------------------------
(***************************************************************************)
(* Registration, for every number of requests, users, bodies and addresses *)
(* and with faults at every step: types, the uniqueness of addresses, the  *)
(* atomicity of a registration and the refinement of Accounts.             *)
(***************************************************************************)
EXTENDS Registration, TLAPS

\* Nothing has been created, and nothing is being created.
LEMMA InitIInv == Init => IInv
BY NullAssumption DEF Init, IInv, TypeOK, CreationState, StateOf, IdentifiersDiffer, StagedIsUnique,
   EmailsUnique

\* A body that its route accepts has an address.
LEMMA EmailType ==
    ASSUME TypeOK, NEW p \in Request, route[p] # Null, body[p] # Null
    PROVE  EmailOf(p) \in Email \cup {Null}
BY NormalAssumption DEF TypeOK, EmailOf

\* The address of a creation depends on nothing but its own route and body.
LEMMA EmailKept ==
    ASSUME NEW p \in Request, route'[p] = route[p], body'[p] = body[p]
    PROVE  EmailOf(p)' = EmailOf(p)
BY DEF EmailOf

\* A step that leaves a creation alone leaves its state as it was.
LEMMA StateKept ==
    ASSUME NEW q \in Request, StateOf(q),
           pc'[q] = pc[q], route'[q] = route[q], body'[q] = body[q], uid'[q] = uid[q],
           pending'[q] = pending[q], staged'[q] = staged[q], reply'[q] = reply[q]
    PROVE  StateOf(q)'
<1>1. EmailOf(q)' = EmailOf(q)
  BY EmailKept
<1> QED BY <1>1 DEF StateOf

\* A step that writes neither tables nor rows of a transaction breaks no uniqueness.
LEMMA UniquenessKept ==
    ASSUME IInv, UNCHANGED <<users, uid, staged, route, body>>
    PROVE  IdentifiersDiffer' /\ StagedIsUnique' /\ EmailsUnique'
<1>1. \A q \in Request : EmailOf(q)' = EmailOf(q)
  BY DEF EmailOf
<1> QED BY <1>1 DEF IInv, IdentifiersDiffer, StagedIsUnique, EmailsUnique, Taken

-----------------------------------------------------------------------------
(* One lemma for each action, or for the actions that end in the same way. *)

LEMMA BeginKeeps ==
    ASSUME IInv, NEW p \in Request, NEW r \in {"users", "register"}, NEW b \in RawInput,
           Begin(p, r, b)
    PROVE  IInv'
<1> USE DEF IInv, Begin, Step, tables
<1>1. TypeOK'
  BY DEF TypeOK
<1>2. pending[p] = {} /\ staged[p] = {} /\ uid[p] = Null
  BY DEF CreationState, StateOf
<1>3. CreationState'
  <2> SUFFICES ASSUME NEW q \in Request PROVE StateOf(q)'
    BY DEF CreationState
  <2>1. CASE q = p
    BY <2>1, <1>2, NullAssumption DEF StateOf, TypeOK
  <2>2. CASE q # p
    BY <2>2, StateKept DEF CreationState, TypeOK
  <2> QED BY <2>1, <2>2
<1>4. StagedIsUnique'
  <2>1. \A q \in Request : q # p => EmailOf(q)' = EmailOf(q)
    BY DEF TypeOK, EmailOf
  <2> QED BY <2>1, <1>2 DEF StagedIsUnique, Taken
<1>5. IdentifiersDiffer' /\ EmailsUnique'
  BY DEF IdentifiersDiffer, EmailsUnique
<1> QED BY <1>1, <1>3, <1>4, <1>5

LEMMA LookupKeeps ==
    ASSUME IInv, NEW p \in Request, RejectInput(p) \/ EmailTaken(p) \/ EmailFree(p)
    PROVE  IInv'
<1> USE DEF IInv, RejectInput, EmailTaken, EmailFree, Step, Answer, tables
<1>1. TypeOK'
  BY DEF TypeOK
<1>2. CreationState'
  <2> SUFFICES ASSUME NEW q \in Request PROVE StateOf(q)'
    BY DEF CreationState
  <2>1. CASE q = p
    <3>1. EmailOf(p)' = EmailOf(p)
      BY EmailKept
    <3> QED BY <2>1, <3>1, NullAssumption DEF CreationState, StateOf, TypeOK
  <2>2. CASE q # p
    BY <2>2, StateKept DEF CreationState, TypeOK
  <2> QED BY <2>1, <2>2
<1> QED BY <1>1, <1>2, UniquenessKept

LEMMA CreateKeeps ==
    ASSUME IInv, NEW p \in Request, NEW u \in UserId, CreateUser(p, u) \/ HashPassword(p, u)
    PROVE  IInv'
<1> USE DEF IInv, CreateUser, HashPassword, Step, Answer, tables
<1>1. TypeOK'
  BY DEF TypeOK
<1>2. \A q \in Request : EmailOf(q)' = EmailOf(q)
  BY DEF EmailOf
<1>3. CreationState'
  <2> SUFFICES ASSUME NEW q \in Request PROVE StateOf(q)'
    BY DEF CreationState
  <2>1. CASE q = p
    BY <2>1, <1>2, NullAssumption DEF CreationState, StateOf, TypeOK
  <2>2. CASE q # p
    BY <2>2, StateKept DEF CreationState, TypeOK
  <2> QED BY <2>1, <2>2
<1>4. IdentifiersDiffer'
  BY DEF IdentifiersDiffer, Fresh, TypeOK
<1>5. StagedIsUnique' /\ EmailsUnique'
  BY <1>2 DEF StagedIsUnique, EmailsUnique, Taken
<1> QED BY <1>1, <1>3, <1>4, <1>5

LEMMA InsertUserKeeps ==
    ASSUME IInv, NEW p \in Request, InsertUser(p)
    PROVE  IInv'
<1> USE DEF IInv, InsertUser, MayInsert, Duplicate, tables
<1>1. TypeOK'
  BY DEF TypeOK
<1>2. \A q \in Request : EmailOf(q)' = EmailOf(q)
  BY DEF EmailOf
<1>3. CreationState'
  <2> SUFFICES ASSUME NEW q \in Request PROVE StateOf(q)'
    BY DEF CreationState
  <2>1. CASE q = p
    BY <2>1, <1>2 DEF CreationState, StateOf, TypeOK
  <2>2. CASE q # p
    BY <2>2, StateKept DEF CreationState, TypeOK
  <2> QED BY <2>1, <2>2
<1>4. StagedIsUnique'
  <2>1. \A q \in Request : q # p => staged'[q] = staged[q]
    BY DEF TypeOK
  <2>2. ~Taken(EmailOf(p))
    OBVIOUS
  <2> QED BY <1>2, <2>1, <2>2 DEF StagedIsUnique, Taken
<1>5. IdentifiersDiffer' /\ EmailsUnique'
  BY DEF IdentifiersDiffer, EmailsUnique
<1> QED BY <1>1, <1>3, <1>4, <1>5

LEMMA InsertCredentialKeeps ==
    ASSUME IInv, NEW p \in Request, InsertCredential(p)
    PROVE  IInv'
<1> USE DEF IInv, InsertCredential, Step, Answer, tables
<1>1. TypeOK'
  BY DEF TypeOK
<1>2. \A q \in Request : EmailOf(q)' = EmailOf(q)
  BY DEF EmailOf
<1>3. CreationState'
  <2> SUFFICES ASSUME NEW q \in Request PROVE StateOf(q)'
    BY DEF CreationState
  <2>1. CASE q = p
    BY <2>1, <1>2, NullAssumption DEF CreationState, StateOf, TypeOK
  <2>2. CASE q # p
    BY <2>2, StateKept DEF CreationState, TypeOK
  <2> QED BY <2>1, <2>2
<1>4. \A q \in Request : "user" \in staged'[q] <=> "user" \in staged[q]
  BY DEF TypeOK
<1>5. IdentifiersDiffer' /\ StagedIsUnique' /\ EmailsUnique'
  BY <1>2, <1>4 DEF IdentifiersDiffer, StagedIsUnique, EmailsUnique, Taken
<1> QED BY <1>1, <1>3, <1>5

\* What End leaves of a request: nothing.
LEMMA EndState ==
    ASSUME IInv, NEW p \in Request, End(p)
    PROVE  /\ StateOf(p)'
           /\ uid'[p] = Null /\ staged'[p] = {}
           /\ \A q \in Request : q # p =>
                /\ pc'[q] = pc[q] /\ route'[q] = route[q] /\ body'[q] = body[q]
                /\ uid'[q] = uid[q] /\ pending'[q] = pending[q] /\ staged'[q] = staged[q]
                /\ EmailOf(q)' = EmailOf(q)
BY DEF IInv, End, TypeOK, StateOf, EmailOf

\* A transaction that is rolled back leaves everybody else alone.
LEMMA RollbackKeeps ==
    ASSUME IInv, NEW p \in Request, InsertRejected(p) \/ Fault(p) \/ IdentifiersExhausted(p)
    PROVE  IInv'
<1> USE DEF IInv, InsertRejected, Fault, IdentifiersExhausted, Answer, tables
<1>1. TypeOK'
  BY DEF TypeOK, End
<1>2. CreationState'
  <2> SUFFICES ASSUME NEW q \in Request PROVE StateOf(q)'
    BY DEF CreationState
  <2>1. CASE q = p
    BY <2>1, EndState
  <2>2. CASE q # p
    BY <2>2, EndState, StateKept DEF CreationState, TypeOK
  <2> QED BY <2>1, <2>2
<1>3. IdentifiersDiffer' /\ StagedIsUnique' /\ EmailsUnique'
  BY EndState DEF IdentifiersDiffer, StagedIsUnique, EmailsUnique, Taken
<1> QED BY <1>1, <1>2, <1>3

LEMMA CommitKeeps ==
    ASSUME IInv, NEW p \in Request, Commit(p)
    PROVE  IInv'
<1> USE DEF IInv, Commit, Durable
<1>1. staged[p] # {} => uid[p] \in UserId /\ route[p] # Null /\ body[p] # Null
                        /\ EmailOf(p) # Null
  BY NullAssumption DEF CreationState, StateOf, TypeOK
<1>2. staged[p] # {} => EmailOf(p) \in Email
  BY <1>1, EmailType
<1>3. TypeOK'
  BY <1>1, <1>2 DEF TypeOK, End
<1>4. CreationState'
  <2> SUFFICES ASSUME NEW q \in Request PROVE StateOf(q)'
    BY DEF CreationState
  <2>1. CASE q = p
    BY <2>1, EndState
  <2>2. CASE q # p
    BY <2>2, EndState, StateKept DEF CreationState, TypeOK
  <2> QED BY <2>1, <2>2
<1>5. CASE "user" \notin staged[p]
  <2>1. users' = users
    BY <1>5
  <2> QED BY <2>1, <1>3, <1>4, EndState DEF IdentifiersDiffer, StagedIsUnique, EmailsUnique, Taken
<1>6. CASE "user" \in staged[p]
  <2>1. users' = [users EXCEPT ![uid[p]] = EmailOf(p)] /\ uid[p] \in UserId
    BY <1>1, <1>6
  <2>2. ~Taken(EmailOf(p))
    BY <1>6 DEF StagedIsUnique
  <2>3. EmailsUnique'
    BY <2>1, <2>2 DEF EmailsUnique, Taken, TypeOK
  <2>4. IdentifiersDiffer'
    <3> SUFFICES ASSUME NEW q \in Request, uid'[q] # Null
                 PROVE  /\ users'[uid'[q]] = Null
                        /\ \A o \in Request \ {q} : uid'[o] # uid'[q]
      BY DEF IdentifiersDiffer
    <3>1. q # p /\ uid'[q] = uid[q] /\ uid[q] # uid[p]
      BY EndState, <1>1, <1>6 DEF IdentifiersDiffer
    <3>2. users'[uid[q]] = Null
      BY <2>1, <3>1 DEF IdentifiersDiffer, TypeOK
    <3> QED BY <3>1, <3>2, EndState DEF IdentifiersDiffer
  <2>5. StagedIsUnique'
    <3> SUFFICES ASSUME NEW q \in Request, "user" \in staged'[q]
                 PROVE  /\ ~Taken(EmailOf(q))'
                        /\ \A o \in Request \ {q} :
                             "user" \in staged'[o] => EmailOf(o)' # EmailOf(q)'
      BY DEF StagedIsUnique
    <3>1. q # p /\ "user" \in staged[q] /\ EmailOf(q)' = EmailOf(q) /\ EmailOf(q) # EmailOf(p)
      BY EndState, <1>6 DEF StagedIsUnique
    <3>2. ~Taken(EmailOf(q))'
      BY <2>1, <3>1 DEF StagedIsUnique, Taken, TypeOK
    <3> QED BY <3>1, <3>2, EndState DEF StagedIsUnique
  <2> QED BY <1>3, <1>4, <2>3, <2>4, <2>5
<1> QED BY <1>5, <1>6

-----------------------------------------------------------------------------
LEMMA StepKeeps == IInv /\ [Next]_vars => IInv'
<1> SUFFICES ASSUME IInv, [Next]_vars PROVE IInv'
  OBVIOUS
<1>1. CASE UNCHANGED vars
  <2>1. \A q \in Request : EmailOf(q)' = EmailOf(q)
    BY <1>1 DEF vars, tables, EmailOf
  <2>2. CreationState'
    BY <1>1, <2>1 DEF IInv, vars, tables, CreationState, StateOf
  <2> QED BY <1>1, <2>2, UniquenessKept DEF IInv, vars, tables, TypeOK
<1>2. ASSUME NEW p \in Request, Insert(p) \/ Run(p) \/ Fault(p)
      PROVE  IInv'
  BY <1>2, LookupKeeps, CreateKeeps, InsertUserKeeps, InsertCredentialKeeps, RollbackKeeps,
     CommitKeeps DEF Insert, Run
<1>3. ASSUME NEW p \in Request, NEW r \in {"users", "register"}, NEW b \in RawInput,
             Begin(p, r, b)
      PROVE  IInv'
  BY <1>3, BeginKeeps
<1> QED BY <1>1, <1>2, <1>3 DEF Next

\* The inductive invariant holds in every reachable state.
THEOREM Invariance == Spec => []IInv
BY InitIInv, StepKeeps, PTL DEF Spec

\* Every variable keeps its type, for any numbers of requests, users and bodies.
THEOREM TypeCorrect == Spec => []TypeOK
<1>1. IInv => TypeOK
  BY DEF IInv
<1> QED BY Invariance, <1>1, PTL

\* No two profiles ever share an address: uq_users_email decides every race.
THEOREM AddressesAreUnique == Spec => []EmailsUnique
<1>1. IInv => EmailsUnique
  BY DEF IInv
<1> QED BY Invariance, <1>1, PTL

-----------------------------------------------------------------------------
\* The three ways to end a request that roll its transaction back leave the
\* tables alone; only Commit writes them.
LEMMA OnlyCommitWrites ==
    ASSUME IInv, Next, NEW p \in Request, pc[p] # "idle", pc'[p] = "idle", ~Fault(p)
    PROVE  InsertRejected(p) \/ IdentifiersExhausted(p) \/ Commit(p)
<1>1. ASSUME NEW q \in Request, q # p, Insert(q) \/ Run(q) \/ Fault(q)
      PROVE  FALSE
  BY <1>1 DEF IInv, TypeOK, Insert, Run, Fault, InsertUser, InsertRejected, End, RejectInput,
     EmailTaken, EmailFree, CreateUser, HashPassword, IdentifiersExhausted, InsertCredential,
     Commit, Step
<1>2. ASSUME NEW q \in Request, NEW r \in {"users", "register"}, NEW b \in RawInput,
             Begin(q, r, b)
      PROVE  FALSE
  BY <1>2 DEF IInv, TypeOK, Begin, Step
<1>3. ~(\/ InsertUser(p) \/ RejectInput(p) \/ EmailTaken(p) \/ EmailFree(p)
        \/ \E u \in UserId : CreateUser(p, u) \/ HashPassword(p, u)
        \/ InsertCredential(p))
  BY DEF IInv, TypeOK, InsertUser, RejectInput, EmailTaken, EmailFree, CreateUser, HashPassword,
     InsertCredential, Step
<1> QED BY <1>1, <1>2, <1>3 DEF Next, Insert, Run

\* A registration that answered 201 and met no fault leaves its user and its
\* credential; any other leaves neither.
THEOREM RegistrationsAreAtomic == Spec => RegistrationIsAtomic
<1>1. ASSUME IInv, Next, NEW p \in Request, route[p] = "register", pc'[p] = "idle"
      PROVE  IF reply[p] = "201" /\ ~Fault(p)
             THEN users'[uid[p]] = EmailOf(p) /\ uid[p] \in credentials'
             ELSE UNCHANGED tables
  <2>1. pc[p] # "idle" /\ StateOf(p)
    BY <1>1, NullAssumption DEF IInv, CreationState, StateOf
  <2>2. CASE Fault(p)
    BY <2>2 DEF Fault
  <2>3. CASE InsertRejected(p)
    BY <2>1, <2>3, <1>1, NullAssumption DEF InsertRejected, MayInsert, StateOf
  <2>4. CASE IdentifiersExhausted(p)
    BY <2>1, <2>4, NullAssumption DEF IdentifiersExhausted, StateOf
  <2>5. CASE Commit(p) /\ reply[p] = "201"
    <3>1. staged[p] = {"user", "credential"} /\ uid[p] # Null
      BY <2>1, <2>5, <1>1 DEF Commit, StateOf
    <3>2. uid[p] \in UserId
      BY <3>1, <1>1 DEF IInv, TypeOK
    <3>3. users' = [users EXCEPT ![uid[p]] = EmailOf(p)] /\ credentials' = credentials \cup {uid[p]}
      BY <2>5, <3>1 DEF Commit, Durable
    <3>4. ~Fault(p) => users'[uid[p]] = EmailOf(p) /\ uid[p] \in credentials'
      BY <3>2, <3>3, <1>1 DEF IInv, TypeOK
    <3> QED BY <2>2, <3>4, <2>5
  <2>6. CASE Commit(p) /\ reply[p] # "201"
    BY <2>1, <2>6, <1>1 DEF Commit, Durable, StateOf, tables
  <2> QED BY <1>1, <2>1, <2>2, <2>3, <2>4, <2>5, <2>6, OnlyCommitWrites
<1>2. IInv /\ [Next]_vars =>
        [\A p \in Request : route[p] = "register" /\ pc'[p] = "idle" =>
            IF reply[p] = "201" /\ ~Fault(p)
            THEN users'[uid[p]] = EmailOf(p) /\ uid[p] \in credentials'
            ELSE UNCHANGED tables]_vars
  BY <1>1
<1> QED BY Invariance, <1>2, PTL DEF Spec, RegistrationIsAtomic

-----------------------------------------------------------------------------
(* The refinement of Accounts.                                             *)

Wishes == [q \in Request |-> WishOf(q)]
Answers == [q \in Request |-> ToldOf(q)]

\* What a request asks for is a wish, for the address of its body.
LEMMA WishType ==
    ASSUME TypeOK, CreationState, NEW p \in Request
    PROVE  /\ WishOf(p) \in AC!Wish \cup {Null}
           /\ WishOf(p) # Null =>
                /\ pc[p] # "idle" /\ reply[p] \in {Null, "201"}
                /\ WishOf(p).address = EmailOf(p) /\ EmailOf(p) \in Email
                /\ WishOf(p).password <=> route[p] = "register"
<1>1. CASE WishOf(p) = Null
  BY <1>1
<1>2. CASE WishOf(p) # Null
  <2>1. pc[p] # "idle" /\ reply[p] \in {Null, "201"} /\ EmailOf(p) # Null
    BY <1>2 DEF WishOf
  <2>2. EmailOf(p) \in Email
    BY <2>1, EmailType DEF CreationState, StateOf
  <2>3. WishOf(p) = [address |-> EmailOf(p), password |-> route[p] = "register"]
    BY <2>1 DEF WishOf
  <2>4. (route[p] = "register") \in BOOLEAN
    OBVIOUS
  <2>5. WishOf(p) \in AC!Wish
    BY <2>2, <2>3, <2>4 DEF AC!Wish
  <2>6. WishOf(p).address = EmailOf(p)
    BY <2>3
  <2>7. WishOf(p).password <=> route[p] = "register"
    <3>1. CASE route[p] = "register"
      <4>1. (route[p] = "register") = TRUE
        BY <3>1
      <4>2. WishOf(p) = [address |-> EmailOf(p), password |-> TRUE]
        BY <2>3, <4>1, Zenon
      <4>3. QED
        BY <3>1, <4>2
    <3>2. CASE route[p] # "register"
      <4>1. (route[p] = "register") = FALSE
        BY <3>2
      <4>2. WishOf(p) = [address |-> EmailOf(p), password |-> FALSE]
        BY <2>3, <4>1, Zenon
      <4>3. QED
        BY <3>2, <4>2
    <3>3. QED
      BY <3>1, <3>2
  <2>8. QED
    BY <2>1, <2>2, <2>5, <2>6, <2>7
<1>3. QED
  BY <1>1, <1>2

\* A request that runs, was accepted and not refused wishes for an account.
LEMMA Wishing ==
    ASSUME TypeOK, CreationState, NEW p \in Request,
           pc[p] # "idle", reply[p] \in {Null, "201"}, EmailOf(p) # Null
    PROVE  WishOf(p) # Null
<1>1. EmailOf(p) \in Email
  BY EmailType DEF CreationState, StateOf
<1>2. (route[p] = "register") \in BOOLEAN
  OBVIOUS
<1>3. WishOf(p) \in [address : Email, password : BOOLEAN]
  BY <1>1, <1>2 DEF WishOf
<1>4. QED
  BY <1>3, NullAssumption

\* A step of p changes what p asks for and was told, and nobody else.
LEMMA Moves ==
    ASSUME NEW p \in Request,
           \A q \in Request \ {p} : /\ pc'[q] = pc[q] /\ route'[q] = route[q]
                                    /\ body'[q] = body[q] /\ reply'[q] = reply[q]
    PROVE  /\ Wishes' = [Wishes EXCEPT ![p] = WishOf(p)']
           /\ Answers' = [Answers EXCEPT ![p] = ToldOf(p)']
<1>1. \A q \in Request \ {p} : WishOf(q)' = WishOf(q) /\ ToldOf(q)' = ToldOf(q)
  BY DEF WishOf, ToldOf, EmailOf
<1>2. QED
  BY <1>1 DEF Wishes, Answers

\* A reserved address is that of a row which a registration has staged.
LEMMA ReservedIsStaged ==
    ASSUME IInv, NEW p \in Request, NEW a, AC!Reserved(p, a)
    PROVE  \E q \in Request \ {p} : "user" \in staged[q] /\ EmailOf(q) = a
<1>1. PICK q \in Request \ {p} :
        WishOf(q) # Null /\ ToldOf(q) = "201" /\ WishOf(q).password /\ WishOf(q).address = a
  BY DEF AC!Reserved, AC!Promised
<1>2. pc[q] # "idle" /\ route[q] = "register" /\ EmailOf(q) = a
  BY <1>1, WishType DEF IInv
<1>3. reply[q] = "201"
  BY <1>1, NullAssumption DEF ToldOf
<1>4. pc[q] = "replied"
  BY <1>2, <1>3, NullAssumption DEF IInv, TypeOK, CreationState, StateOf
<1>5. QED
  BY <1>2, <1>3, <1>4 DEF IInv, CreationState, StateOf

\* So an address with a staged row is neither owned nor reserved by another.
LEMMA StagedIsFree ==
    ASSUME IInv, NEW p \in Request, "user" \in staged[p]
    PROVE  ~AC!Owned(EmailOf(p)) /\ ~AC!Reserved(p, EmailOf(p))
BY ReservedIsStaged DEF IInv, StagedIsUnique, Taken, AC!Owned

-----------------------------------------------------------------------------
(* One lemma for each kind of step of the service.                         *)

LEMMA BeginAsks ==
    ASSUME IInv, NEW p \in Request, NEW r \in {"users", "register"}, NEW b \in RawInput,
           Begin(p, r, b)
    PROVE  AC!Ask(p)
<1>1. WishOf(p) = Null /\ ToldOf(p)' = Null /\ WishOf(p)' \in AC!Wish \cup {Null}
  <2>1. pc[p] = "idle" /\ reply'[p] = Null /\ EmailOf(p)' = Normal[<<r, b>>]
    BY DEF Begin, Step, IInv, TypeOK, EmailOf
  <2>2. EmailOf(p)' \in Email \cup {Null}
    BY <2>1, NormalAssumption
  <2>3. (route'[p] = "register") \in BOOLEAN
    OBVIOUS
  <2>4. WishOf(p)' \in AC!Wish \cup {Null}
    BY <2>2, <2>3 DEF WishOf, AC!Wish
  <2>5. QED
    BY <2>1, <2>4, NullAssumption DEF WishOf, ToldOf
<1>2. Wishes' = [Wishes EXCEPT ![p] = WishOf(p)'] /\ Answers' = [Answers EXCEPT ![p] = ToldOf(p)']
  BY Moves DEF Begin, Step, IInv, TypeOK
<1>3. UNCHANGED tables
  BY DEF Begin
<1>4. QED
  BY <1>1, <1>2, <1>3 DEF AC!Ask, Wishes, Answers, tables

\* What is told, or decided, while the request goes on: a step that leaves wish
\* and answer as they are does not show.
LEMMA QuietSteps ==
    ASSUME IInv, NEW p \in Request,
           \/ RejectInput(p) \/ EmailFree(p) \/ InsertUser(p)
           \/ \E u \in UserId : HashPassword(p, u)
    PROVE  UNCHANGED AC!vars
<1> USE DEF RejectInput, EmailFree, InsertUser, HashPassword, Step, Answer
<1>1. Wishes' = [Wishes EXCEPT ![p] = WishOf(p)'] /\ Answers' = [Answers EXCEPT ![p] = ToldOf(p)']
  BY Moves DEF IInv, TypeOK
<1>2. UNCHANGED tables /\ EmailOf(p)' = EmailOf(p)
  BY DEF EmailOf
<1>3. WishOf(p)' = WishOf(p) /\ ToldOf(p)' = ToldOf(p)
  <2>1. CASE RejectInput(p)
    <3>1. pc[p] = "validate" /\ reply[p] = Null /\ reply'[p] = "422" /\ EmailOf(p) = Null
      BY <2>1 DEF IInv, TypeOK, CreationState, StateOf
    <3>2. QED
      BY <3>1, <1>2, NullAssumption DEF WishOf, ToldOf
  <2>2. CASE ~RejectInput(p)
    <3>1. reply'[p] = reply[p] /\ route'[p] = route[p] /\ (pc'[p] = "idle" <=> pc[p] = "idle")
      BY <2>2 DEF IInv, TypeOK, MayInsert
    <3>2. QED
      BY <3>1, <1>2 DEF WishOf, ToldOf
  <2>3. QED
    BY <2>1, <2>2
<1>4. Wishes' = Wishes /\ Answers' = Answers
  BY <1>1, <1>3 DEF Wishes, Answers
<1>5. QED
  BY <1>2, <1>4 DEF AC!vars, Wishes, Answers, tables

\* A plain profile is promised with nothing but a lookup behind it, a registration
\* when both of its rows are staged.
LEMMA AnswerPromises ==
    ASSUME IInv, NEW p \in Request,
           InsertCredential(p) \/ \E u \in UserId : CreateUser(p, u)
    PROVE  AC!Promise(p)
<1> USE DEF InsertCredential, CreateUser, Step, Answer
<1>1. /\ Wishes' = [Wishes EXCEPT ![p] = WishOf(p)']
      /\ Answers' = [Answers EXCEPT ![p] = ToldOf(p)']
      /\ UNCHANGED tables /\ EmailOf(p)' = EmailOf(p)
  BY Moves DEF IInv, TypeOK, EmailOf
<1>2. /\ pc[p] \in {"create", "flush"} /\ reply[p] = Null /\ EmailOf(p) # Null
      /\ pc'[p] = "replied" /\ reply'[p] = "201" /\ route'[p] = route[p]
  BY DEF IInv, TypeOK, CreationState, StateOf
<1>3. WishOf(p) # Null /\ WishOf(p)' = WishOf(p)
  BY <1>1, <1>2, Wishing DEF WishOf, IInv
<1>4. ToldOf(p) = Null /\ ToldOf(p)' = "201"
  BY <1>2, NullAssumption DEF ToldOf
<1>5. WishOf(p).password =>
        ~AC!Owned(WishOf(p).address) /\ ~AC!Reserved(p, WishOf(p).address)
  <2> SUFFICES ASSUME WishOf(p).password
               PROVE  ~AC!Owned(WishOf(p).address) /\ ~AC!Reserved(p, WishOf(p).address)
    OBVIOUS
  <2>1. route[p] = "register" /\ WishOf(p).address = EmailOf(p)
    BY <1>3, WishType DEF IInv
  <2>2. "user" \in staged[p]
    BY <2>1 DEF IInv, CreationState, StateOf
  <2>3. QED
    BY <2>1, <2>2, StagedIsFree
<1>6. Wishes' = Wishes
  BY <1>1, <1>3 DEF Wishes
<1>7. QED
  BY <1>1, <1>3, <1>4, <1>5, <1>6 DEF AC!Promise, Wishes, Answers, tables

\* The lookup, or the constraint, has found a committed row with the address.
LEMMA ConflictRefuses ==
    ASSUME IInv, NEW p \in Request,
           EmailTaken(p) \/ (InsertRejected(p) /\ pc[p] = "flush")
    PROVE  AC!Refuse(p)
<1> USE DEF EmailTaken, InsertRejected, MayInsert, Step, Answer, End
<1>1. /\ Wishes' = [Wishes EXCEPT ![p] = WishOf(p)']
      /\ Answers' = [Answers EXCEPT ![p] = ToldOf(p)']
      /\ UNCHANGED tables
  BY Moves DEF IInv, TypeOK
<1>2. /\ pc[p] \in {"validate", "flush"} /\ reply[p] = Null /\ EmailOf(p) # Null
      /\ Taken(EmailOf(p)) /\ reply'[p] = "409"
  BY DEF IInv, TypeOK, CreationState, StateOf, Duplicate
<1>3. WishOf(p) # Null /\ WishOf(p).address = EmailOf(p)
  BY <1>2, Wishing, WishType DEF IInv
<1>4. WishOf(p)' = Null /\ ToldOf(p) = Null /\ ToldOf(p)' = "409"
  BY <1>2, NullAssumption DEF WishOf, ToldOf
<1>5. AC!Owned(WishOf(p).address)
  BY <1>2, <1>3 DEF AC!Owned, Taken
<1>6. QED
  BY <1>1, <1>3, <1>4, <1>5 DEF AC!Refuse, Wishes, Answers, tables

\* The INSERT that a plain creation left to its commit comes too late.
LEMMA LateInsertLoses ==
    ASSUME IInv, NEW p \in Request, InsertRejected(p), pc[p] = "replied"
    PROVE  AC!Lose(p)
<1> USE DEF InsertRejected, MayInsert, End
<1>1. /\ Wishes' = [Wishes EXCEPT ![p] = WishOf(p)']
      /\ Answers' = [Answers EXCEPT ![p] = ToldOf(p)']
      /\ UNCHANGED tables
  BY Moves DEF IInv, TypeOK
<1>2. /\ reply[p] = "201" /\ reply'[p] = "201" /\ route[p] # "register" /\ EmailOf(p) # Null
      /\ Taken(EmailOf(p)) /\ pc'[p] = "idle"
  BY DEF IInv, TypeOK, CreationState, StateOf, Duplicate
<1>3. WishOf(p) # Null /\ WishOf(p).address = EmailOf(p) /\ ~WishOf(p).password
  BY <1>2, Wishing, WishType DEF IInv
<1>4. WishOf(p)' = Null /\ ToldOf(p) = "201" /\ ToldOf(p)' = "201"
  BY <1>2 DEF WishOf, ToldOf
<1>5. AC!Owned(WishOf(p).address)
  BY <1>2, <1>3 DEF AC!Owned, Taken
<1>6. Answers' = Answers
  BY <1>1, <1>4 DEF Answers
<1>7. QED
  BY <1>1, <1>3, <1>4, <1>5, <1>6 DEF AC!Lose, AC!Promised, Wishes, Answers, tables

\* A commit opens the account that was promised, or there was none to open.
LEMMA CommitOpens ==
    ASSUME IInv, NEW p \in Request, Commit(p)
    PROVE  (\E i \in UserId : AC!Open(p, i)) \/ UNCHANGED AC!vars
<1> USE DEF Commit, End
<1>1. Wishes' = [Wishes EXCEPT ![p] = WishOf(p)'] /\ Answers' = [Answers EXCEPT ![p] = ToldOf(p)']
  BY Moves DEF IInv, TypeOK
<1>2. StateOf(p) /\ pc[p] = "replied" /\ pending[p] = {} /\ pc'[p] = "idle" /\ reply'[p] = reply[p]
  BY DEF IInv, CreationState, TypeOK
<1>3. WishOf(p)' = Null /\ ToldOf(p)' = ToldOf(p)
  BY <1>2 DEF WishOf, ToldOf
<1>4. Answers' = Answers
  BY <1>1, <1>3 DEF Answers
<1>5. CASE reply[p] = "201"
  <2>1. /\ "user" \in staged[p] /\ ("credential" \in staged[p] <=> route[p] = "register")
        /\ uid[p] # Null /\ EmailOf(p) # Null
    BY <1>2, <1>5 DEF StateOf
  <2>2. uid[p] \in UserId /\ users[uid[p]] = Null
    BY <2>1 DEF IInv, TypeOK, IdentifiersDiffer
  <2>3. /\ WishOf(p) # Null /\ WishOf(p).address = EmailOf(p)
        /\ (WishOf(p).password <=> route[p] = "register")
    BY <1>2, <1>5, <2>1, Wishing, WishType DEF IInv
  <2>4. /\ users' = [users EXCEPT ![uid[p]] = WishOf(p).address]
        /\ credentials' = IF WishOf(p).password THEN credentials \cup {uid[p]} ELSE credentials
    BY <2>1, <2>3 DEF Durable
  <2>5. ~AC!Owned(WishOf(p).address) /\ ~AC!Reserved(p, WishOf(p).address)
    BY <2>1, <2>3, StagedIsFree
  <2>6. ToldOf(p) = "201"
    BY <1>5 DEF ToldOf
  <2>7. AC!Open(p, uid[p])
    BY <1>1, <1>3, <1>4, <2>2, <2>3, <2>4, <2>5, <2>6
       DEF AC!Open, AC!Promised, Wishes, Answers
  <2>8. QED
    BY <2>2, <2>7
<1>6. CASE reply[p] # "201"
  <2>1. staged[p] = {} /\ WishOf(p) = Null
    BY <1>2, <1>6, NullAssumption DEF StateOf, WishOf
  <2>2. UNCHANGED tables
    BY <2>1 DEF Durable, tables
  <2>3. Wishes' = Wishes
    BY <1>1, <1>3, <2>1 DEF Wishes
  <2>4. QED
    BY <1>4, <2>2, <2>3 DEF AC!vars, Wishes, Answers, tables
<1>7. QED
  BY <1>5, <1>6

\* A failure before the answer is told; one after it loses what was promised.
LEMMA FailureShows ==
    ASSUME IInv, NEW p \in Request, Fault(p) \/ IdentifiersExhausted(p)
    PROVE  AC!Fail(p) \/ AC!Lose(p) \/ UNCHANGED AC!vars
<1> USE DEF Fault, IdentifiersExhausted, End, Answer
<1>1. /\ Wishes' = [Wishes EXCEPT ![p] = WishOf(p)']
      /\ Answers' = [Answers EXCEPT ![p] = ToldOf(p)']
      /\ UNCHANGED tables /\ pc'[p] = "idle"
  BY Moves DEF IInv, TypeOK
<1>2. WishOf(p)' = Null
  BY <1>1 DEF WishOf
<1>3. CASE pc[p] # "replied"
  <2>1. pc[p] \in {"validate", "create", "flush"} /\ reply[p] = Null /\ reply'[p] = "500"
    BY <1>3 DEF IInv, TypeOK, CreationState, StateOf
  <2>2. ToldOf(p) = Null /\ ToldOf(p)' = "500"
    BY <2>1, NullAssumption DEF ToldOf
  <2>3. AC!Fail(p)
    BY <1>1, <1>2, <2>2 DEF AC!Fail, Wishes, Answers, tables
  <2>4. QED
    BY <2>3
<1>4. CASE pc[p] = "replied"
  <2>1. reply'[p] = reply[p] /\ MayFail
    BY <1>4 DEF IInv, TypeOK
  <2>2. Answers' = Answers
    BY <1>1, <2>1 DEF Answers, ToldOf
  <2>3. CASE WishOf(p) = Null
    <3>1. Wishes' = Wishes
      BY <1>1, <1>2, <2>3 DEF Wishes
    <3>2. QED
      BY <1>1, <2>2, <3>1 DEF AC!vars, Wishes, Answers, tables
  <2>4. CASE WishOf(p) # Null
    <3>1. reply[p] = "201"
      BY <1>4, <2>4, WishType, NullAssumption DEF IInv, CreationState, StateOf
    <3>2. AC!Lose(p)
      BY <1>1, <1>2, <2>1, <2>2, <2>4, <3>1
         DEF AC!Lose, AC!Promised, Wishes, Answers, ToldOf, tables
    <3>3. QED
      BY <3>2
  <2>5. QED
    BY <2>3, <2>4
<1>5. QED
  BY <1>3, <1>4

\* The two routes, their tables and the constraint implement the service: an
\* account is opened in one step, with a password exactly if its client asked
\* for a registration, for an address that nobody owns or was promised with a
\* password; a 409 is told only if the address is owned; and without a failure
\* a promise is lost only by a plain profile whose address is owned by then.
THEOREM Refinement == Spec => ImplementsAccounts
<1>1. Init => AC!Init
  BY NullAssumption DEF Init, AC!Init, WishOf, ToldOf
<1>2. IInv /\ [Next]_vars => [AC!Next]_(AC!vars)
  <2> SUFFICES ASSUME IInv, [Next]_vars PROVE [AC!Next]_(AC!vars)
    OBVIOUS
  <2>1. CASE UNCHANGED vars
    BY <2>1 DEF vars, tables, AC!vars, WishOf, ToldOf, EmailOf
  <2>2. ASSUME NEW p \in Request, Insert(p) \/ Run(p) \/ Fault(p)
        PROVE  [AC!Next]_(AC!vars)
    <3>1. InsertRejected(p) => pc[p] \in {"flush", "replied"}
      BY DEF InsertRejected, MayInsert
    <3>2. QED
      BY <2>2, <3>1, QuietSteps, AnswerPromises, ConflictRefuses, LateInsertLoses, CommitOpens,
         FailureShows DEF Insert, Run, AC!Next
  <2>3. ASSUME NEW p \in Request, NEW r \in {"users", "register"}, NEW b \in RawInput,
               Begin(p, r, b)
        PROVE  AC!Next
    BY <2>3, BeginAsks DEF AC!Next
  <2>4. QED
    BY <2>1, <2>2, <2>3 DEF Next
<1>3. QED
  BY <1>1, <1>2, Invariance, PTL DEF Spec, ImplementsAccounts, AC!Spec

=============================================================================
