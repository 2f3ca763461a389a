----------------------------- MODULE ValueObjects -----------------------------
(***************************************************************************)
(* The value objects that every request body goes through before a user is *)
(* created, and every stored row again when it is loaded: EmailAddress and *)
(* DisplayName normalize, then validate; PasswordPolicy only validates.    *)
(*                                                                         *)
(* A text is a sequence of characters, of which the rules tell apart these:*)
(* "a" a small letter, "A" its capital, "ss" one letter that casefold      *)
(* turns into two small ones (the sharp s), "@", ".", the blank, and "tab",*)
(* white space that a name may not contain inside; "lone" is a surrogate   *)
(* without its pair, which cannot be encoded.                              *)
(***************************************************************************)
EXTENDS Naturals, Sequences, FiniteSets, FiniteSetsExt

CONSTANTS
    MAX_EMAIL_LENGTH,          \* 254
    MAX_DISPLAY_NAME_LENGTH,   \* 100
    MINIMUM_LENGTH,            \* of a password, in characters: 12
    MAXIMUM_UTF8_BYTES,        \* of a password: 1024
    MaxText                    \* bound: the longest text that is tried

ASSUME LengthsAssumption ==
    {MAX_EMAIL_LENGTH, MAX_DISPLAY_NAME_LENGTH, MINIMUM_LENGTH, MAXIMUM_UTF8_BYTES,
     MaxText} \subseteq Nat

Char == {"a", "A", "ss", "@", ".", " ", "tab"}
White == {" ", "tab"}

Has(text, chars) == \E i \in DOMAIN text : text[i] \in chars

\* str.strip(): what is between the first and the last character that prints.
strip(text) ==
    LET ink == {i \in DOMAIN text : text[i] \notin White}
    IN IF ink = {} THEN <<>> ELSE SubSeq(text, Min(ink), Max(ink))

\* How many characters the first n characters fold to.
Width(text, n) == n + Cardinality({i \in 1..n : text[i] = "ss"})

\* str.casefold(): every character of the result comes from one of the text.
casefold(text) ==
    LET from(k) == text[CHOOSE i \in DOMAIN text : k \in (Width(text, i - 1) + 1)..Width(text, i)]
    IN [k \in 1..Width(text, Len(text)) |-> IF from(k) \in {"A", "ss"} THEN "a" ELSE from(k)]

-----------------------------------------------------------------------------
EmailAddress(text) == casefold(strip(text))

\* _EMAIL_PATTERN: one "@", something before it, and after it a "." inside.
Matches(email) ==
    /\ ~Has(email, White)
    /\ \E i \in DOMAIN email :
         /\ i > 1
         /\ \A k \in DOMAIN email : email[k] = "@" <=> k = i
         /\ \E j \in (i + 2)..(Len(email) - 1) : email[j] = "."

\* Variant: the length is measured before the letters are folded.
IsEmailAddress_AsTyped(text) ==
    Len(strip(text)) <= MAX_EMAIL_LENGTH /\ Matches(EmailAddress(text))

IsEmailAddress(text) ==
    Len(EmailAddress(text)) <= MAX_EMAIL_LENGTH /\ Matches(EmailAddress(text))

DisplayName(text) == strip(text)

IsDisplayName(text) ==
    /\ DisplayName(text) # <<>>
    /\ Len(DisplayName(text)) <= MAX_DISPLAY_NAME_LENGTH
    /\ ~Has(DisplayName(text), {"tab"})

\* PasswordPolicy.validate: what is stored is a hash, so nothing is stripped.
IsPassword(text) ==
    /\ Has(text, (Char \cup {"lone"}) \ White)
    /\ Len(text) >= MINIMUM_LENGTH
    /\ ~Has(text, {"lone"})
    /\ Len(text) + Cardinality({i \in DOMAIN text : text[i] = "ss"}) <= MAXIMUM_UTF8_BYTES

-----------------------------------------------------------------------------
Text == UNION {[1..n -> Char] : n \in 0..MaxText}

\* A value that was accepted fits into its column, and is accepted and left
\* as it is when it is loaded.
EmailsLoadAgain ==
    \A text \in Text : IsEmailAddress(text) =>
        LET email == EmailAddress(text)
        IN /\ Len(email) <= MAX_EMAIL_LENGTH
           /\ IsEmailAddress(email)
           /\ EmailAddress(email) = email

NamesLoadAgain ==
    \A text \in Text : IsDisplayName(text) =>
        LET name == DisplayName(text)
        IN /\ Len(name) <= MAX_DISPLAY_NAME_LENGTH
           /\ IsDisplayName(name)
           /\ DisplayName(name) = name

ValuesLoadAgain == EmailsLoadAgain /\ NamesLoadAgain

=============================================================================
