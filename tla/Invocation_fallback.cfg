\* The claim that a keyring error falls back to the prompt.
CONSTANTS
    none = none
    noEntry = noEntry
    r1 = r1
    r2 = r2
    Runs = {r1}
    Seeds = {"seed", "typo"}
    NoEntry = noEntry
    None = none
    Builds = {TRUE}
    Sites = {"a", "b", "bad"}
    BadSites = {"bad"}
    CommandLines <- EveryCommandLine
    Starts <- MCStarts
SPECIFICATION Spec
\* Runs that have ended stop.
CHECK_DEADLOCK FALSE
INVARIANTS KeyringErrorFallsBack
