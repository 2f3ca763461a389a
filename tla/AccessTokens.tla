----------------------------- MODULE AccessTokens -----------------------------
(***************************************************************************)
(* The access tokens of the Vectro backend, from their issue by a login or *)
(* a refresh to GET /auth/me.                                              *)
(*                                                                         *)
(* A token is stateless: nothing revokes it, only its expiry and the       *)
(* status of its user, loaded anew by every request, end its use.  PyJWT   *)
(* writes iat and exp as whole seconds, rounding down, and compares them   *)
(* with a clock that is finer; the module counts ticks, Second of which    *)
(* make a second.                                                          *)
(***************************************************************************)
EXTENDS Integers

CONSTANTS
    Request,          \* the requests to GET /auth/me that may run at once
    User,
    Null,
    Second,           \* ticks per second
    TTL,              \* ACCESS_TOKEN_TTL_SECONDS
    MaxClock,         \* bound on the clock
    ClockStepsBack    \* may the clock be set back, or differ between servers?

ASSUME TimeAssumption == Second \in Nat \ {0} /\ TTL \in Nat \ {0} /\ MaxClock \in Nat
ASSUME ClockAssumption == ClockStepsBack \in BOOLEAN

VARIABLES
    clock,
    status,       \* the committed status of a user; "deleted" without a row
    tokens,       \* the access tokens that have been issued
    pc,
    presented,    \* the token of a request, or Null: absent, or not one of ours
    now,          \* when it was validated
    answer        \* the status sent to the client, or Null

vars == <<clock, status, tokens, pc, presented, now, answer>>

\* The claims that the validation reads, and the true time of issue.
Token == [sub : User, iat : Int, exp : Int, issued_at : Nat]

ASSUME NullAssumption == Null \notin Token \cup {"200", "401"}

\* Variant: a NumericDate is rounded up.
NumericDate_Up(t) == ((t + Second - 1) \div Second) * Second

\* A NumericDate: the whole seconds of a moment.
NumericDate(t) == (t \div Second) * Second

issue(u, at) ==
    [sub |-> u, iat |-> NumericDate(at), exp |-> NumericDate(at + TTL * Second),
     issued_at |-> at]

\* Variant: a token whose expiry is missed by a second is still accepted.
TimeValid_Leeway(t, at) == t.iat <= at /\ at <= t.exp + Second

\* jwt.decode raises ImmatureSignatureError or ExpiredSignatureError otherwise.
TimeValid(t, at) == t.iat <= at /\ at < t.exp

-----------------------------------------------------------------------------
Init ==
    /\ clock = 0
    /\ status = [u \in User |-> "active"]
    /\ tokens = {}
    /\ pc = [p \in Request |-> "idle"]
    /\ presented = [p \in Request |-> Null]
    /\ now = [p \in Request |-> Null]
    /\ answer = [p \in Request |-> Null]

\* A login or a refresh loaded its user while it was active, maybe long ago.
Issue(u) ==
    /\ tokens' = tokens \cup {issue(u, clock)}
    /\ UNCHANGED <<clock, status, pc, presented, now, answer>>

Step(p, from, to) == pc[p] = from /\ pc' = [pc EXCEPT ![p] = to]

Begin(p, t) ==
    /\ Step(p, "idle", "validate")
    /\ presented' = [presented EXCEPT ![p] = t]
    /\ now' = [now EXCEPT ![p] = Null]
    /\ answer' = [answer EXCEPT ![p] = Null]
    /\ UNCHANGED <<clock, status, tokens>>

Answer(p, code) ==
    /\ answer' = [answer EXCEPT ![p] = code]
    /\ UNCHANGED <<clock, status, tokens, presented>>

\* No Bearer token, a bad signature, or claims that are missing or malformed.
RejectForeign(p) ==
    /\ Step(p, "validate", "idle")
    /\ presented[p] = Null
    /\ Answer(p, "401")
    /\ UNCHANGED now

RejectTime(p) ==
    /\ Step(p, "validate", "idle")
    /\ presented[p] # Null
    /\ ~TimeValid(presented[p], clock)
    /\ now' = [now EXCEPT ![p] = clock]
    /\ Answer(p, "401")

AcceptToken(p) ==
    /\ Step(p, "validate", "load_user")
    /\ presented[p] # Null
    /\ TimeValid(presented[p], clock)
    /\ now' = [now EXCEPT ![p] = clock]
    /\ UNCHANGED <<clock, status, tokens, presented, answer>>

\* The user is looked up only now: time may have passed, and the status changed.
RejectUser(p) ==
    /\ Step(p, "load_user", "idle")
    /\ status[presented[p].sub] # "active"
    /\ Answer(p, "401")
    /\ UNCHANGED now

ReturnUser(p) ==
    /\ Step(p, "load_user", "idle")
    /\ status[presented[p].sub] = "active"
    /\ Answer(p, "200")
    /\ UNCHANGED now

-----------------------------------------------------------------------------
SetStatus(u, s) ==
    /\ status[u] # "deleted"
    /\ status' = [status EXCEPT ![u] = s]
    /\ UNCHANGED <<clock, tokens, pc, presented, now, answer>>

Tick ==
    /\ clock < MaxClock
    /\ clock' = clock + 1
    /\ UNCHANGED <<status, tokens, pc, presented, now, answer>>

StepBack ==
    /\ ClockStepsBack
    /\ clock > 0
    /\ clock' = clock - 1
    /\ UNCHANGED <<status, tokens, pc, presented, now, answer>>

Next ==
    \/ \E u \in User : Issue(u)
    \/ \E p \in Request :
         \/ \E t \in tokens \cup {Null} : Begin(p, t)
         \/ RejectForeign(p) \/ RejectTime(p) \/ AcceptToken(p)
         \/ RejectUser(p) \/ ReturnUser(p)
    \/ \E u \in User, s \in {"active", "deactivated", "deleted"} : SetStatus(u, s)
    \/ Tick \/ StepBack

Spec == Init /\ [][Next]_vars

-----------------------------------------------------------------------------
TypeOK ==
    /\ clock \in 0..MaxClock
    /\ status \in [User -> {"active", "deactivated", "deleted"}]
    /\ tokens \subseteq Token
    /\ pc \in [Request -> {"idle", "validate", "load_user"}]
    /\ presented \in [Request -> Token \cup {Null}]
    /\ now \in [Request -> Nat \cup {Null}]
    /\ answer \in [Request -> {"200", "401", Null}]

\* Rounding never prolongs a token: what is accepted was issued less than its
\* lifetime ago, and less than a second from now should the clock have moved.
AcceptedWithinLifetime ==
    \A p \in Request : presented[p] # Null /\ (pc[p] = "load_user" \/ answer[p] = "200") =>
        /\ now[p] < presented[p].issued_at + TTL * Second
        /\ presented[p].issued_at - Second < now[p]

\* Rounding costs a token less than its last second: one that its user holds
\* is refused for its age only within the last second of its lifetime, and
\* never because it seems to be issued in the future.
RefusedOnlyAtTheEnd ==
    \A p \in Request :
        (presented[p] # Null /\ pc[p] = "idle" /\ answer[p] = "401"
           /\ presented[p].issued_at <= now[p])
        => \/ TimeValid(presented[p], now[p])
           \/ presented[p].issued_at + (TTL - 1) * Second < now[p]

-----------------------------------------------------------------------------
(* The inductive invariant.                                                *)

\* Every token was made by issue.
TokensAreIssued ==
    \A t \in tokens :
        /\ t \in Token
        /\ t.iat = NumericDate(t.issued_at)
        /\ t.exp = NumericDate(t.issued_at + TTL * Second)

\* A request holds one of them, and remembers when it looked at it.
RequestsAreConsistent ==
    \A p \in Request :
        /\ presented[p] # Null => presented[p] \in tokens
        /\ pc[p] = "validate" => answer[p] = Null
        /\ pc[p] = "load_user" => presented[p] # Null /\ answer[p] = Null
        /\ (presented[p] # Null /\ (pc[p] = "load_user" \/ answer[p] = "200")) =>
             now[p] \in Nat /\ TimeValid(presented[p], now[p])
        /\ (presented[p] # Null /\ answer[p] = "401") => now[p] \in Nat

IInv == TypeOK /\ TokensAreIssued /\ RequestsAreConsistent

=============================================================================
