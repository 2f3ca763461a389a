------------------------------- MODULE Accounts -------------------------------
(***************************************************************************)
(* The service of opening accounts, free of lookups, flushes and           *)
(* transactions.  A client wishes for an account with an address, with or  *)
(* without a password; it is told 201, 409 or 500; and an account that was *)
(* promised is opened in one step, with its password if that was wished.   *)
(* A 409 means that somebody has the address.  A promised account with a   *)
(* password has its address reserved and can be lost to a failure only; a  *)
(* plain profile that was promised can also lose the address to another.   *)
(***************************************************************************)
CONSTANTS
    Id,            \* identifiers of accounts
    Client,
    Address,       \* normalized e-mail addresses
    None,
    MayFail        \* may a promise be lost to a failure?

VARIABLES
    address,       \* the address of an account, or None
    withPassword,  \* the accounts that have a password
    wish,          \* what a client has asked for and not got yet, or None
    told           \* the last answer to a client: "201", "409", "500" or None

vars == <<address, withPassword, wish, told>>

Wish == [address : Address, password : BOOLEAN]

Init ==
    /\ address = [i \in Id |-> None]
    /\ withPassword = {}
    /\ wish = [c \in Client |-> None]
    /\ told = [c \in Client |-> None]

Owned(a) == \E i \in Id : address[i] = a
Promised(c) == wish[c] # None /\ told[c] = "201"

\* Somebody else has been promised an account with a password for a.
Reserved(c, a) ==
    \E d \in Client \ {c} : Promised(d) /\ wish[d].password /\ wish[d].address = a

\* A new request: a wish, or None if what it asks for cannot be granted to anybody.
Ask(c) ==
    /\ wish[c] = None
    /\ \E w \in Wish \cup {None} : wish' = [wish EXCEPT ![c] = w]
    /\ told' = [told EXCEPT ![c] = None]
    /\ UNCHANGED <<address, withPassword>>

Promise(c) ==
    /\ wish[c] # None /\ told[c] = None
    /\ wish[c].password => ~Owned(wish[c].address) /\ ~Reserved(c, wish[c].address)
    /\ told' = [told EXCEPT ![c] = "201"]
    /\ UNCHANGED <<address, withPassword, wish>>

Refuse(c) ==
    /\ wish[c] # None /\ told[c] = None
    /\ Owned(wish[c].address)
    /\ told' = [told EXCEPT ![c] = "409"]
    /\ wish' = [wish EXCEPT ![c] = None]
    /\ UNCHANGED <<address, withPassword>>

Open(c, i) ==
    /\ Promised(c)
    /\ address[i] = None
    /\ ~Owned(wish[c].address) /\ ~Reserved(c, wish[c].address)
    /\ address' = [address EXCEPT ![i] = wish[c].address]
    /\ withPassword' = IF wish[c].password THEN withPassword \cup {i} ELSE withPassword
    /\ wish' = [wish EXCEPT ![c] = None]
    /\ UNCHANGED told

\* A promise is not kept.
Lose(c) ==
    /\ Promised(c)
    /\ MayFail \/ (~wish[c].password /\ Owned(wish[c].address))
    /\ wish' = [wish EXCEPT ![c] = None]
    /\ UNCHANGED <<address, withPassword, told>>

\* Nothing has been promised, and nothing will be.
Fail(c) ==
    /\ told[c] = None
    /\ told' = [told EXCEPT ![c] = "500"]
    /\ wish' = [wish EXCEPT ![c] = None]
    /\ UNCHANGED <<address, withPassword>>

Next ==
    \E c \in Client :
        \/ Ask(c) \/ Promise(c) \/ Refuse(c) \/ Lose(c) \/ Fail(c)
        \/ \E i \in Id : Open(c, i)

Spec == Init /\ [][Next]_vars

=============================================================================
