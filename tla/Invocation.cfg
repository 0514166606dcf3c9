\* A run with every command line, and two runs at once that reset, load, confirm
\* and save the same keyring entry; every setting and both builds.
CONSTANTS
    none = none
    noEntry = noEntry
    r1 = r1
    r2 = r2
    Runs = {r1, r2}
    Seeds = {"seed", "typo"}
    NoEntry = noEntry
    None = none
    Builds = {TRUE, FALSE}
    Sites = {"a", "b", "bad"}
    BadSites = {"bad"}
    CommandLines <- EveryCommandLine
    Starts <- MCStarts
SPECIFICATION Spec
\* Runs that have ended stop.
CHECK_DEADLOCK FALSE
INVARIANTS TypeOK OnlyVettedSeedsCached ResetAsksAgain ConfirmBeforeOutput SuccessIsComplete
PROPERTIES KeyringUntouched MissStopsTheRun
