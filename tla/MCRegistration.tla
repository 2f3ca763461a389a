---------------------------- MODULE MCRegistration ----------------------------
(* Instances of RegistrationInputs for TLC.                                 *)
EXTENDS RegistrationInputs, TLC

ada == <<"a", "@", "a", ".", "a">>
name == <<"a">>
good == <<"a", " ", "ss">>

\* Two spellings of one address, for the two routes, and one address that is
\* too long when it has been folded.
Few == {Account(ada, name, good),
        Profile(<<" ", "A", "@", "A", ".", "a", "tab">>, <<" ", "a">>),
        Profile(<<"ss", "@", "a", ".", "a">>, name)}

\* The same, an address with two "@", a blank name, a name with a tab inside,
\* and passwords that are too short, white space, too long, and broken.
Many == Few \cup
    {Profile(<<"A", "@", "A", ".", "A">>, name),
     Profile(<<"a", "@", "@", ".", "a">>, name),
     Profile(ada, <<" ">>),
     Profile(ada, <<"a", "tab", "a">>),
     Account(ada, name, name),
     Account(ada, name, <<"tab", " ", " ">>),
     Account(ada, name, good \o good),
     Account(ada, name, good \o <<"lone">>)}

\* TLC keeps the value of a definition it evaluates by its name.
FewNormal == NormalOf(Few) @@ <<>>
ManyNormal == NormalOf(Many) @@ <<>>
FewAddresses == AddressesOf(Few)
ManyAddresses == AddressesOf(Many)
NormalFew == FewNormal
NormalMany == ManyNormal
EmailFew == FewAddresses
EmailMany == ManyAddresses
=============================================================================
