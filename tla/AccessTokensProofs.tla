-------------------------- MODULE AccessTokensProofs --------------------------
(***************************************************************************)
(* Proofs about AccessTokens, for any lifetime, any clock resolution and   *)
(* any number of requests: what rounding down to seconds does to a token.  *)
(***************************************************************************)
EXTENDS AccessTokens, TLAPS

\* Rounding down to whole seconds loses less than a second.
LEMMA RoundsDown ==
    ASSUME NEW t \in Nat
    PROVE  /\ NumericDate(t) \in Int
           /\ NumericDate(t) <= t
           /\ t < NumericDate(t) + Second
<1> DEFINE q == t \div Second
<1>1. q \in Int /\ t % Second \in 0..(Second - 1) /\ t = Second * q + (t % Second)
  BY TimeAssumption, SMT
<1> HIDE DEF q
<1>2. Second * q = q * Second
  BY <1>1, TimeAssumption
<1>3. q * Second \in Int
  BY <1>1, TimeAssumption
<1>4. q * Second <= t /\ t < q * Second + Second
  BY <1>1, <1>2, <1>3, TimeAssumption
<1>5. NumericDate(t) = q * Second
  BY DEF NumericDate, q
<1>6. QED
  BY <1>3, <1>4, <1>5

\* What signing puts into a token, and how far its dates are from the moments
\* they stand for.
LEMMA IssueFacts ==
    ASSUME NEW u \in User, NEW at \in Nat
    PROVE  /\ issue(u, at) \in Token
           /\ issue(u, at) # Null
           /\ issue(u, at).issued_at = at
           /\ issue(u, at).iat = NumericDate(at)
           /\ issue(u, at).exp = NumericDate(at + TTL * Second)
<1>1. at + TTL * Second \in Nat
  BY TimeAssumption
<1>2. NumericDate(at) \in Int /\ NumericDate(at + TTL * Second) \in Int
  BY <1>1, RoundsDown
<1>3. issue(u, at) \in Token
  BY <1>2 DEF issue, Token
<1>4. QED
  BY <1>3, NullAssumption DEF issue

-----------------------------------------------------------------------------
\* No token and no request at the start.
LEMMA Initial == Init => IInv
BY TimeAssumption DEF Init, IInv, TypeOK, TokensAreIssued, RequestsAreConsistent

\* Signing another token leaves those that are in use alone.
LEMMA IssueStep ==
    ASSUME IInv, NEW u \in User, Issue(u)
    PROVE  IInv'
<1>1. clock \in Nat
  BY TimeAssumption DEF IInv, TypeOK
<1>2. /\ issue(u, clock) \in Token
      /\ issue(u, clock).iat = NumericDate(issue(u, clock).issued_at)
      /\ issue(u, clock).exp = NumericDate(issue(u, clock).issued_at + TTL * Second)
  BY <1>1, IssueFacts
<1>3. TypeOK'
  BY <1>2 DEF IInv, TypeOK, Issue
<1>4. TokensAreIssued'
  BY <1>2 DEF IInv, TokensAreIssued, Issue
<1>5. RequestsAreConsistent'
  BY DEF IInv, RequestsAreConsistent, Issue, TimeValid
<1>6. QED
  BY <1>3, <1>4, <1>5 DEF IInv

\* A request starts with a token that was issued, or with none of ours.
LEMMA BeginStep ==
    ASSUME IInv, NEW p \in Request, NEW t \in tokens \cup {Null}, Begin(p, t)
    PROVE  IInv'
<1>1. TypeOK'
  BY DEF IInv, TypeOK, TokensAreIssued, Begin, Step
<1>2. TokensAreIssued'
  BY DEF IInv, TokensAreIssued, Begin
<1>3. RequestsAreConsistent'
  <2> SUFFICES ASSUME NEW q \in Request
               PROVE  RequestsAreConsistent!(q)'
    BY DEF RequestsAreConsistent
  <2>1. /\ pc' = [pc EXCEPT ![p] = "validate"]
        /\ presented' = [presented EXCEPT ![p] = t]
        /\ now' = [now EXCEPT ![p] = Null]
        /\ answer' = [answer EXCEPT ![p] = Null]
        /\ tokens' = tokens
    BY DEF Begin, Step
  <2>2. CASE q = p
    BY <2>1, <2>2, NullAssumption DEF IInv, TypeOK
  <2>3. CASE q # p
    BY <2>1, <2>3 DEF IInv, TypeOK, RequestsAreConsistent, TimeValid
  <2>4. QED
    BY <2>2, <2>3
<1>4. QED
  BY <1>1, <1>2, <1>3 DEF IInv

\* The validation keeps the reading of the clock that it decided on.
LEMMA ValidateStep ==
    ASSUME IInv, NEW p \in Request, RejectForeign(p) \/ RejectTime(p) \/ AcceptToken(p)
    PROVE  IInv'
<1>1. clock \in Nat
  BY TimeAssumption DEF IInv, TypeOK
<1>2. TypeOK'
  BY <1>1 DEF IInv, TypeOK, RejectForeign, RejectTime, AcceptToken, Step, Answer
<1>3. TokensAreIssued'
  BY DEF IInv, TokensAreIssued, RejectForeign, RejectTime, AcceptToken, Answer
<1>4. CASE RejectForeign(p)
  BY <1>4, <1>2, <1>3 DEF IInv, TypeOK, RequestsAreConsistent, RejectForeign, Step, Answer,
                          TimeValid
<1>5. CASE RejectTime(p)
  BY <1>1, <1>5, <1>2, <1>3 DEF IInv, TypeOK, RequestsAreConsistent, RejectTime, Step, Answer,
                                TimeValid
<1>6. CASE AcceptToken(p)
  BY <1>1, <1>6, <1>2, <1>3 DEF IInv, TypeOK, RequestsAreConsistent, AcceptToken, Step,
                                TimeValid
<1>7. QED
  BY <1>4, <1>5, <1>6

\* The lookup of the user answers for a token that has been validated.
LEMMA LookupStep ==
    ASSUME IInv, NEW p \in Request, RejectUser(p) \/ ReturnUser(p)
    PROVE  IInv'
<1>1. TypeOK'
  BY DEF IInv, TypeOK, RejectUser, ReturnUser, Step, Answer
<1>2. TokensAreIssued'
  BY DEF IInv, TokensAreIssued, RejectUser, ReturnUser, Answer
<1>3. CASE RejectUser(p)
  BY <1>1, <1>2, <1>3 DEF IInv, TypeOK, RequestsAreConsistent, RejectUser, Step, Answer,
                          TimeValid
<1>4. CASE ReturnUser(p)
  BY <1>1, <1>2, <1>4 DEF IInv, TypeOK, RequestsAreConsistent, ReturnUser, Step, Answer,
                          TimeValid
<1>5. QED
  BY <1>3, <1>4

\* The clock and the status of users touch no token and no request.
LEMMA EnvironmentStep ==
    ASSUME IInv,
           \/ \E u \in User, s \in {"active", "deactivated", "deleted"} : SetStatus(u, s)
           \/ Tick \/ StepBack \/ UNCHANGED vars
    PROVE  IInv'
<1>1. UNCHANGED <<tokens, pc, presented, now, answer>>
  BY DEF SetStatus, Tick, StepBack, vars
<1>2. TypeOK'
  BY TimeAssumption DEF IInv, TypeOK, SetStatus, Tick, StepBack, vars
<1>3. TokensAreIssued' /\ RequestsAreConsistent'
  BY <1>1 DEF IInv, TokensAreIssued, RequestsAreConsistent, TimeValid
<1>4. QED
  BY <1>2, <1>3 DEF IInv

\* The invariant is inductive.
LEMMA Inductive == IInv /\ [Next]_vars => IInv'
BY IssueStep, BeginStep, ValidateStep, LookupStep, EnvironmentStep DEF Next

\* IInv holds in every reachable state, wherever the clock is set.
THEOREM Invariance == Spec => []IInv
BY Initial, Inductive, PTL DEF Spec

\* Every variable keeps its type.
THEOREM TypeCorrect == Spec => []TypeOK
<1>1. IInv => TypeOK
  BY DEF IInv
<1>2. QED
  BY <1>1, Invariance, PTL

\* Where the two dates of a token lie, whatever the clock showed at its issue.
LEMMA DatesOfToken ==
    ASSUME IInv, NEW t \in tokens
    PROVE  /\ t.issued_at \in Nat /\ t.iat \in Int /\ t.exp \in Int
           /\ t.iat <= t.issued_at /\ t.issued_at < t.iat + Second
           /\ t.exp <= t.issued_at + TTL * Second
           /\ t.issued_at + TTL * Second < t.exp + Second
<1>1. t \in Token /\ t.issued_at \in Nat
  BY DEF IInv, TokensAreIssued, Token
<1>2. t.issued_at + TTL * Second \in Nat
  BY <1>1, TimeAssumption
<1>3. /\ t.iat = NumericDate(t.issued_at)
      /\ t.exp = NumericDate(t.issued_at + TTL * Second)
  BY DEF IInv, TokensAreIssued
<1>4. QED
  BY <1>1, <1>2, <1>3, RoundsDown

\* An accepted token was issued less than its lifetime ago, and less than a
\* second in the future.
THEOREM LifetimeIsKept == Spec => []AcceptedWithinLifetime
<1>1. IInv => AcceptedWithinLifetime
  <2> SUFFICES ASSUME IInv, NEW p \in Request, presented[p] # Null,
                      pc[p] = "load_user" \/ answer[p] = "200"
               PROVE  /\ now[p] < presented[p].issued_at + TTL * Second
                      /\ presented[p].issued_at - Second < now[p]
    BY DEF AcceptedWithinLifetime
  <2>1. presented[p] \in tokens /\ now[p] \in Nat /\ TimeValid(presented[p], now[p])
    BY DEF IInv, RequestsAreConsistent
  <2>2. TTL * Second \in Int /\ Second \in Int
    BY TimeAssumption
  <2>3. QED
    BY <2>1, <2>2, DatesOfToken DEF TimeValid
<1>2. QED
  BY <1>1, Invariance, PTL

\* A token is refused for its age only within the last second of its lifetime.
THEOREM RefusalIsLate == Spec => []RefusedOnlyAtTheEnd
<1>1. IInv => RefusedOnlyAtTheEnd
  <2> SUFFICES ASSUME IInv, NEW p \in Request, presented[p] # Null, answer[p] = "401",
                      presented[p].issued_at <= now[p], ~TimeValid(presented[p], now[p])
               PROVE  presented[p].issued_at + (TTL - 1) * Second < now[p]
    BY DEF RefusedOnlyAtTheEnd
  <2>1. presented[p] \in tokens /\ now[p] \in Nat
    BY DEF IInv, RequestsAreConsistent
  <2>2. /\ TTL * Second \in Int /\ Second \in Int
        /\ (TTL - 1) * Second = TTL * Second - Second
    BY TimeAssumption
  <2>3. ~(now[p] < presented[p].exp)
    BY <2>1, <2>2, DatesOfToken DEF TimeValid
  <2>4. QED
    BY <2>1, <2>2, <2>3, DatesOfToken
<1>2. QED
  BY <1>1, Invariance, PTL

=============================================================================
