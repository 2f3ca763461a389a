\* Two requests without faults, and every body: a created profile may never be stored.
SPECIFICATION Spec
CONSTANTS
    Request = {p1, p2}
    UserId = {u1, u2, u3}
    RawInput <- Many
    Email <- EmailMany
    Normal <- NormalMany
    Null = Null
    MayFail = FALSE
    MAX_EMAIL_LENGTH = 5
    MAX_DISPLAY_NAME_LENGTH = 2
    MINIMUM_LENGTH = 3
    MAXIMUM_UTF8_BYTES = 5
    MaxText = 5
PROPERTIES
    CreatedIsPersisted
