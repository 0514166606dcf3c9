\* The claim that a change to the schema changes the salt.
CONSTANTS
    Tab = "tab"
    None = none
    Order <- MCOrder
    Digits <- MCDigits
    LowerLetters = {"a", "d", "t", "w", "x"}
    UpperLetters = {"U"}
    DefaultHash = "h0"
    OtherHashes = {"h1"}
    OtherTokens = {"url"}
    MaxDepth = 50
    Sites <- StringSites
SPECIFICATION Spec
\* A site that is derived or refused stops.
CHECK_DEADLOCK FALSE
INVARIANTS NoSchemaSharesTheText
