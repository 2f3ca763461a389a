----------------------- MODULE RegistrationInputsProofs -----------------------
(***************************************************************************)
(* Normalizing is final, for texts, limits and bodies of any size: strip   *)
(* and casefold leave alone what they have returned, so a value that was   *)
(* accepted is accepted again, unchanged, whenever its row is loaded.      *)
(***************************************************************************)
EXTENDS RegistrationInputs, RegistrationProofs, LeastNumber, FiniteSetTheorems, SequenceTheorems

\* The characters of a text that has been folded.
Small == Char \ {"A", "ss"}

LEMMA SmallFacts == "a" \in Small /\ \A c \in Char \ {"A", "ss"} : c \in Small
<1>1. "a" \in Char
  BY Zenon DEF Char
<1>2. "a" \notin {"A", "ss"}
  OBVIOUS
<1>3. QED
  BY <1>1, <1>2 DEF Small

LEMMA MinFacts ==
    ASSUME NEW T, T \subseteq Nat, T # {}
    PROVE  Min(T) \in T /\ \A i \in T : Min(T) <= i
BY LeastElement DEF Min

LEMMA MaxFacts ==
    ASSUME NEW n \in Nat, NEW T, T \subseteq 0..n, T # {}
    PROVE  Max(T) \in T /\ \A i \in T : i <= Max(T)
<1> DEFINE Above == {n - i : i \in T}
<1>1. Above \subseteq Nat /\ Above # {}
  <2>1. \A i \in T : i \in 0..n
    OBVIOUS
  <2>2. ASSUME NEW d \in Above PROVE d \in Nat
    <3>1. PICK i \in T : d = n - i
      OBVIOUS
    <3>2. i \in 0..n
      BY <2>1
    <3>3. QED
      BY <3>1, <3>2
  <2>3. QED
    BY <2>2
<1>2. PICK m \in Above : \A d \in Above : m <= d
  <2> HIDE DEF Above
  <2>1. QED
    BY <1>1, LeastElement
<1>3. PICK j \in T : m = n - j
  BY <1>2
<1>4. ASSUME NEW i \in T PROVE i <= j
  <2>1. i \in 0..n /\ j \in 0..n
    OBVIOUS
  <2>2. n - j <= n - i
    BY <1>2, <1>3
  <2>3. QED
    BY <2>1, <2>2
<1>5. \E x \in T : \A i \in T : x >= i
  <2>1. \A i \in T : i \in Nat
    OBVIOUS
  <2>2. QED
    BY <1>4, <2>1
<1>6. Max(T) \in T /\ \A i \in T : Max(T) >= i
  BY <1>5 DEF Max
<1>7. \A i \in T : i \in Nat
  OBVIOUS
<1>8. QED
  BY <1>6, <1>7

-----------------------------------------------------------------------------
(* strip                                                                   *)

\* strip returns a part of its text that white space neither begins nor ends.
LEMMA StripFacts ==
    ASSUME NEW text \in Seq(Char), strip(text) # <<>>
    PROVE  /\ strip(text) \in Seq(Char)
           /\ Len(strip(text)) \in Nat \ {0}
           /\ strip(text)[1] \notin White
           /\ strip(text)[Len(strip(text))] \notin White
<1> DEFINE ink == {i \in DOMAIN text : text[i] \notin White}
           first == Min(ink)
           last == Max(ink)
<1>1. ink # {} /\ strip(text) = SubSeq(text, first, last)
  BY DEF strip
<1>2. ink \subseteq 1..Len(text) /\ Len(text) \in Nat
  OBVIOUS
<1>3. \A i \in ink : text[i] \notin White
  OBVIOUS
<1> HIDE DEF ink
<1>4. first \in ink /\ last \in ink /\ first <= last
  <2>1. ink \subseteq Nat /\ ink \subseteq 0..Len(text)
    BY <1>2
  <2>2. QED
    BY <1>1, <1>2, <2>1, MinFacts, MaxFacts
<1>5. first \in 1..Len(text) /\ last \in 1..Len(text)
  BY <1>2, <1>4
<1> HIDE DEF first, last
<1>6. /\ SubSeq(text, first, last) \in Seq(Char)
      /\ Len(SubSeq(text, first, last)) = last - first + 1
      /\ \A i \in 1..(last - first + 1) : SubSeq(text, first, last)[i] = text[first + i - 1]
  BY <1>4, <1>5, SubSeqProperties
<1>7. 1 \in 1..(last - first + 1) /\ last - first + 1 \in 1..(last - first + 1)
  BY <1>4, <1>5
<1>8. first + 1 - 1 = first /\ first + (last - first + 1) - 1 = last
  BY <1>5
<1>9. text[first] \notin White /\ text[last] \notin White
  BY <1>3, <1>4
<1>10. /\ SubSeq(text, first, last)[1] = text[first]
       /\ SubSeq(text, first, last)[last - first + 1] = text[last]
  BY <1>6, <1>7, <1>8
<1>11. last - first + 1 \in Nat \ {0}
  BY <1>4, <1>5
<1>12. strip(text) = SubSeq(text, first, last)
  BY <1>1 DEF first, last
<1>13. QED
  BY <1>6, <1>9, <1>10, <1>11, <1>12

LEMMA StripType ==
    ASSUME NEW text \in Seq(Char)
    PROVE  strip(text) \in Seq(Char)
BY StripFacts, EmptySeq

\* strip leaves alone what it would return.
LEMMA StripIsFinal ==
    ASSUME NEW text \in Seq(Char), text # <<>>,
           text[1] \notin White, text[Len(text)] \notin White
    PROVE  strip(text) = text
<1> DEFINE ink == {i \in DOMAIN text : text[i] \notin White}
<1>1. Len(text) \in Nat \ {0}
  BY EmptySeq
<1>2. 1 \in ink /\ Len(text) \in ink /\ ink \subseteq 0..Len(text) /\ ink \subseteq 1..Len(text)
  BY <1>1
<1>3. strip(text) = SubSeq(text, Min(ink), Max(ink))
  BY <1>2 DEF strip
<1> HIDE DEF ink
<1>4. Min(ink) \in ink /\ Min(ink) <= 1 /\ Max(ink) \in ink /\ Len(text) <= Max(ink)
  <2>1. ink \subseteq Nat
    BY <1>2
  <2>2. QED
    BY <1>1, <1>2, <2>1, MinFacts, MaxFacts
<1>5. Min(ink) = 1 /\ Max(ink) = Len(text)
  <2>1. Min(ink) \in 1..Len(text) /\ Max(ink) \in 1..Len(text)
    BY <1>2, <1>4
  <2>2. QED
    BY <1>1, <1>4, <2>1
<1>6. SubSeq(text, 1, Len(text)) = text
  BY <1>1, SubSeqFull
<1>7. QED
  BY <1>3, <1>5, <1>6

-----------------------------------------------------------------------------
(* casefold                                                                *)

LEMMA WidthFacts ==
    ASSUME NEW text, NEW n \in Nat
    PROVE  /\ Width(text, n) \in Nat
           /\ (\A i \in 1..n : text[i] # "ss") => Width(text, n) = n
<1> DEFINE sharp == {i \in 1..n : text[i] = "ss"}
<1>1. IsFiniteSet(1..n) /\ sharp \subseteq 1..n
  BY FS_Interval
<1>2. Cardinality(sharp) \in Nat
  BY <1>1, FS_Subset, FS_CardinalityType
<1>3. ASSUME \A i \in 1..n : text[i] # "ss"
      PROVE  Cardinality(sharp) = 0
  <2>1. sharp = {}
    BY <1>3
  <2>2. QED
    BY <2>1, FS_EmptySet
<1>4. QED
  BY <1>2, <1>3 DEF Width

\* Every character of a folded text comes from one of the text.
LEMMA FoldedFrom ==
    ASSUME NEW text \in Seq(Char), NEW k \in 1..Width(text, Len(text))
    PROVE  \E i \in DOMAIN text : k \in (Width(text, i - 1) + 1)..Width(text, i)
<1> DEFINE Reached == {n \in 0..Len(text) : k <= Width(text, n)}
<1>1. Len(text) \in Nat /\ \A n \in 0..Len(text) : Width(text, n) \in Nat
  BY WidthFacts
<1>2. Len(text) \in Reached /\ Reached \subseteq Nat
  BY <1>1
<1>3. \A n \in Reached : n \in 0..Len(text) /\ k <= Width(text, n)
  OBVIOUS
<1>4. \A n \in 0..Len(text) : n \notin Reached => ~ (k <= Width(text, n))
  OBVIOUS
<1> HIDE DEF Reached
<1>5. PICK m \in Reached : \A n \in Reached : m <= n
  BY <1>2, LeastElement
<1>6. m # 0
  <2>1. Width(text, 0) = 0
    BY WidthFacts
  <2>2. QED
    BY <1>3, <1>5, <2>1
<1>7. m \in 1..Len(text) /\ m - 1 \in 0..Len(text) /\ ~ (m <= m - 1)
  BY <1>1, <1>3, <1>5, <1>6
<1>8. ~ (k <= Width(text, m - 1))
  BY <1>4, <1>5, <1>7
<1>9. k \in (Width(text, m - 1) + 1)..Width(text, m)
  <2>1. Width(text, m - 1) \in Nat /\ Width(text, m) \in Nat /\ k <= Width(text, m) /\ k \in Nat
    BY <1>1, <1>3, <1>5, <1>7
  <2>2. QED
    BY <1>8, <2>1
<1>10. QED
  BY <1>7, <1>9

LEMMA FoldedType ==
    ASSUME NEW text \in Seq(Char)
    PROVE  casefold(text) \in Seq(Small)
<1> DEFINE from(k) == text[CHOOSE i \in DOMAIN text :
                               k \in (Width(text, i - 1) + 1)..Width(text, i)]
           w == Width(text, Len(text))
<1>1. w \in Nat
  BY WidthFacts
<1>2. casefold(text) = [k \in 1..w |-> IF from(k) \in {"A", "ss"} THEN "a" ELSE from(k)]
  BY DEF casefold
<1>3. ASSUME NEW k \in 1..w PROVE from(k) \in Char
  <2>1. (CHOOSE i \in DOMAIN text : k \in (Width(text, i - 1) + 1)..Width(text, i)) \in DOMAIN text
    BY FoldedFrom
  <2>2. QED
    BY <2>1
<1> HIDE DEF from, w
<1>4. \A k \in 1..w : (IF from(k) \in {"A", "ss"} THEN "a" ELSE from(k)) \in Small
  <2>1. \A c \in Char : (IF c \in {"A", "ss"} THEN "a" ELSE c) \in Small
    BY SmallFacts
  <2>2. QED
    BY <1>3, <2>1, Zenon
<1>5. casefold(text) \in [1..w -> Small]
  BY <1>2, <1>4
<1>6. QED
  BY <1>1, <1>5

\* casefold leaves alone what it has folded.
LEMMA FoldIsFinal ==
    ASSUME NEW text \in Seq(Small)
    PROVE  casefold(text) = text
<1>1. Len(text) \in Nat /\ \A i \in 1..Len(text) : text[i] \in Small /\ text[i] \notin {"A", "ss"}
  BY DEF Small
<1>2. \A n \in 0..Len(text) : Width(text, n) = n
  BY <1>1, WidthFacts
<1>3. ASSUME NEW k \in 1..Len(text)
      PROVE  (CHOOSE i \in DOMAIN text : k \in (Width(text, i - 1) + 1)..Width(text, i)) = k
  <2>1. \A i \in DOMAIN text : k \in (Width(text, i - 1) + 1)..Width(text, i) <=> i = k
    <3> SUFFICES ASSUME NEW i \in 1..Len(text)
                 PROVE  k \in (Width(text, i - 1) + 1)..Width(text, i) <=> i = k
      OBVIOUS
    <3>1. Width(text, i - 1) = i - 1 /\ Width(text, i) = i
      <4>1. i - 1 \in 0..Len(text) /\ i \in 0..Len(text)
        BY <1>1
      <4>2. QED
        BY <1>2, <4>1
    <3>2. QED
      BY <3>1, <1>1
  <2>2. k \in DOMAIN text
    BY <1>1
  <2>3. QED
    BY <2>1, <2>2
<1>4. Width(text, Len(text)) = Len(text)
  BY <1>1, <1>2
<1> DEFINE from(k) == text[CHOOSE i \in DOMAIN text :
                               k \in (Width(text, i - 1) + 1)..Width(text, i)]
<1>5. casefold(text) = [k \in 1..Len(text) |-> IF from(k) \in {"A", "ss"} THEN "a" ELSE from(k)]
  BY <1>4 DEF casefold
<1>6. \A k \in 1..Len(text) : from(k) = text[k]
  BY <1>3
<1> HIDE DEF from
<1>7. \A k \in 1..Len(text) : (IF from(k) \in {"A", "ss"} THEN "a" ELSE from(k)) = text[k]
  BY <1>1, <1>6
<1>8. casefold(text) = [k \in 1..Len(text) |-> text[k]]
  BY <1>5, <1>7
<1>9. QED
  BY <1>8

-----------------------------------------------------------------------------
(* The value objects                                                       *)

\* An accepted address is accepted again, as it is.
LEMMA EmailIsFinal ==
    ASSUME NEW text \in Seq(Char), IsEmailAddress(text)
    PROVE  /\ Len(EmailAddress(text)) <= MAX_EMAIL_LENGTH
           /\ IsEmailAddress(EmailAddress(text))
           /\ EmailAddress(EmailAddress(text)) = EmailAddress(text)
<1> DEFINE email == EmailAddress(text)
<1>1. email \in Seq(Small) /\ email \in Seq(Char)
  <2>1. email \in Seq(Small)
    BY StripType, FoldedType DEF EmailAddress
  <2>2. Small \subseteq Char
    BY DEF Small
  <2>3. QED
    BY <2>1, <2>2
<1>2. Len(email) <= MAX_EMAIL_LENGTH /\ Matches(email)
  BY DEF IsEmailAddress
<1> HIDE DEF email
<1>3. /\ \A i \in DOMAIN email : email[i] \notin White
      /\ \E i \in DOMAIN email : i > 1
  BY <1>2 DEF Matches, Has
<1>4. Len(email) \in Nat /\ 1 \in DOMAIN email /\ Len(email) \in DOMAIN email /\ email # <<>>
  BY <1>1, <1>3
<1>5. strip(email) = email
  BY <1>1, <1>3, <1>4, StripIsFinal
<1>6. casefold(email) = email
  BY <1>1, FoldIsFinal
<1>7. EmailAddress(email) = email
  BY <1>5, <1>6 DEF EmailAddress
<1>8. IsEmailAddress(email)
  BY <1>2, <1>7 DEF IsEmailAddress
<1>9. QED
  BY <1>2, <1>7, <1>8 DEF email

\* An accepted name is accepted again, as it is.
LEMMA NameIsFinal ==
    ASSUME NEW text \in Seq(Char), IsDisplayName(text)
    PROVE  /\ Len(DisplayName(text)) <= MAX_DISPLAY_NAME_LENGTH
           /\ IsDisplayName(DisplayName(text))
           /\ DisplayName(DisplayName(text)) = DisplayName(text)
<1> DEFINE name == DisplayName(text)
<1>1. name # <<>> /\ Len(name) <= MAX_DISPLAY_NAME_LENGTH /\ ~Has(name, {"tab"})
  BY DEF IsDisplayName
<1>2. name \in Seq(Char) /\ name[1] \notin White /\ name[Len(name)] \notin White
  BY <1>1, StripFacts DEF DisplayName
<1> HIDE DEF name
<1>3. DisplayName(name) = name
  BY <1>1, <1>2, StripIsFinal DEF DisplayName
<1>4. IsDisplayName(name)
  BY <1>1, <1>3 DEF IsDisplayName
<1>5. QED
  BY <1>1, <1>3, <1>4 DEF name

\* What a value object has accepted, it accepts again and leaves as it is,
\* for texts of any length and for any limits.
THEOREM ValuesLoad == ValuesLoadAgain
<1>1. \A text \in Text : text \in Seq(Char)
  BY LengthsAssumption DEF Text
<1>2. QED
  BY <1>1, EmailIsFinal, NameIsFinal DEF ValuesLoadAgain, EmailsLoadAgain, NamesLoadAgain

\* Every address that is stored is one that a body was accepted for.
LEMMA AddressesAreFinal ==
    ASSUME NEW e \in Email
    PROVE  IsEmailAddress(e) /\ EmailAddress(e) = e
<1>1. PICK b \in RawInput : e = EmailAddress(b.email) /\ IsEmailAddress(b.email)
  BY InputsAssumption DEF AddressesOf, Accepts
<1>2. b.email \in Seq(Char)
  BY InputsAssumption
<1>3. QED
  BY <1>1, <1>2, EmailIsFinal

\* No user is ever stored that could not be loaded: whatever was typed, and
\* whichever creations race, a stored address is accepted and kept as it is.
THEOREM UsersLoad == Spec => []StoredUsersLoad
<1>1. TypeOK => StoredUsersLoad
  BY ValuesLoad, AddressesAreFinal DEF TypeOK, StoredUsersLoad
<1>2. QED
  BY <1>1, TypeCorrect, PTL

=============================================================================
