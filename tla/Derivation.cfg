\* Every text of up to five pieces of the language, and every class and generator of
\* up to four; usernames with what the fields escape.
CONSTANTS
    Tab = "tab"
    None = none
    Order <- MCOrder
    Digits <- MCDigits
    LowerLetters = {"a", "d", "t", "w", "x"}
    UpperLetters = {"U"}
    DefaultHash = "h0"
    OtherHashes = {"h1"}
    OtherTokens = {"url"}
    MaxDepth = 50
    Sites <- MCSites
SPECIFICATION Spec
\* A site that is derived or refused stops.
CHECK_DEADLOCK FALSE
INVARIANTS TypeOK CanonicalReadsBack FieldsReadBack
