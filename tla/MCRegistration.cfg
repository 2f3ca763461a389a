\* Three requests racing for one address, with crashes: safety, and that all end.
SPECIFICATION FairSpec
CONSTANTS
    Request = {p1, p2, p3}
    UserId = {u1, u2}
    RawInput <- Few
    Email <- EmailFew
    Normal <- NormalFew
    Null = Null
    MayFail = TRUE
    MAX_EMAIL_LENGTH = 5
    MAX_DISPLAY_NAME_LENGTH = 2
    MINIMUM_LENGTH = 3
    MAXIMUM_UTF8_BYTES = 5
    MaxText = 5
INVARIANTS
    TypeOK
    EmailsUnique
    StoredUsersLoad
PROPERTIES
    RegistrationIsAtomic
    ImplementsAccounts
    CreationsFinish
