-------------------------- MODULE RegistrationInputs --------------------------
(***************************************************************************)
(* Registration composed with ValueObjects: what its routes make of bodies *)
(* whose fields are texts, and of the addresses they have stored.          *)
(***************************************************************************)
EXTENDS Registration, ValueObjects

\* The bodies of the two schemas, CreateUserRequest and RegisterWithPasswordRequest.
Profile(email, display_name) ==
    [email |-> email, display_name |-> display_name, has_password |-> FALSE, password |-> <<>>]

Account(email, display_name, password) ==
    [email |-> email, display_name |-> display_name, has_password |-> TRUE,
     password |-> password]

\* A body has the fields of the route's schema, and each of them is accepted.
Accepts(r, b) ==
    /\ IsEmailAddress(b.email)
    /\ IsDisplayName(b.display_name)
    /\ IF r = "register" THEN b.has_password /\ IsPassword(b.password) ELSE ~b.has_password

\* The values of the constants Normal and Email for a set of bodies.
NormalOf(bodies) ==
    [rb \in {"users", "register"} \X bodies |->
        IF Accepts(rb[1], rb[2]) THEN EmailAddress(rb[2].email) ELSE Null]

AddressesOf(bodies) ==
    {EmailAddress(b.email) : b \in {c \in bodies : \E r \in {"users", "register"} : Accepts(r, c)}}

ASSUME InputsAssumption ==
    /\ \A b \in RawInput : b.email \in Seq(Char)
    /\ Normal = NormalOf(RawInput)
    /\ Email = AddressesOf(RawInput)

-----------------------------------------------------------------------------
\* Normalizing is final: whatever was typed, an address or a name that was
\* accepted fits into its column, and is accepted again and left as it is when
\* its row is loaded; otherwise a user could register and never be loaded.
StoredUsersLoad ==
    /\ ValuesLoadAgain
    /\ \A u \in UserId : users[u] # Null =>
          IsEmailAddress(users[u]) /\ EmailAddress(users[u]) = users[u]

=============================================================================
