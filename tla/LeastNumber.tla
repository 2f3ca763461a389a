----------------------------- MODULE LeastNumber -----------------------------
(***************************************************************************)
(* The least-number principle for sets: the form of induction that the     *)
(* proofs of this project use.  A set takes the place of the predicate of  *)
(* NaturalsInduction, so that the provers can apply it.                    *)
(***************************************************************************)
EXTENDS WellFoundedInduction, TLAPS

\* Every nonempty set of numbers has a least element.
LEMMA LeastElement ==
    ASSUME NEW T, T \subseteq Nat, T # {}
    PROVE  \E m \in T : \A n \in T : m <= n
<1> DEFINE R == OpToRel(<, Nat)
<1>1. \A m, n \in Nat : m < n => <<m, n>> \in R
  BY DEF OpToRel
<1>2. IsWellFoundedOn(R, Nat)
  BY NatLessThanWellFounded, Zenon
<1> HIDE DEF R
<1>3. PICK m \in T : \A n \in T : ~ (<<n, m>> \in R)
  BY <1>2, WFMin, Zenon
<1>4. \A n \in T : ~ (n < m)
  BY <1>1, <1>3, Zenon
<1>5. \A n \in T : n \in Nat /\ m \in Nat
  OBVIOUS
<1>6. \A n \in T : m <= n
  BY <1>4, <1>5
<1>7. QED
  BY <1>6

\* A set that contains 0, and the successor of each of its numbers up to n,
\* contains n.
LEMMA InductionUpTo ==
    ASSUME NEW n \in Nat, NEW T, 0 \in T,
           \A i \in 0..(n - 1) : i \in T => i + 1 \in T
    PROVE  \A i \in 0..n : i \in T
<1> DEFINE Missing == {i \in 0..n : i \notin T}
<1> SUFFICES ASSUME Missing # {} PROVE FALSE
  OBVIOUS
<1>1. Missing \subseteq Nat
  OBVIOUS
<1> HIDE DEF Missing
<1>2. PICK m \in Missing : \A i \in Missing : m <= i
  BY <1>1, LeastElement
<1>3. m \in 0..n /\ m \notin T /\ m # 0
  BY <1>2 DEF Missing
<1>4. m - 1 \in 0..(n - 1) /\ m - 1 \in 0..n
  BY <1>3
<1>5. m - 1 \notin Missing
  BY <1>1, <1>2, <1>4
<1>6. m - 1 \in T /\ (m - 1) + 1 = m
  BY <1>3, <1>4, <1>5 DEF Missing
<1>7. QED
  BY <1>3, <1>4, <1>6

=============================================================================
