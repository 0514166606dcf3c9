\* Include graphs of three and four files, three graphs with every combination of
\* settings, and the same three with sites that several files give.
CONSTANTS
    config = config
    local = local
    more = more
    extra = extra
    missing = missing
    malformed = malformed
    none = none
    s1 = s1
    s2 = s2
    apple = apple
    Files <- MCFiles
    Dirs <- MCDirs
    Cwd = "cwd"
    DirOf <- MCDirOf
    Names <- MCNames
    HomeNames <- MCHomeNames
    Locate <- MCLocate
    Missing <- missing
    Malformed <- malformed
    None <- none
    Bases <- MCBases
    Disks <- MCDisks
    RawUrls = {"google.com", "https://google.com/", "https://"}
    NormalOf <- MCNormalOf
    Usernames = {1}
    Texts = {s1, s2, apple}
    Words = s1
    RawSites <- MCRawSites
    MaxSites = 6
SPECIFICATION ConfigSpec
\* A load that has ended stops.
CHECK_DEADLOCK FALSE
INVARIANTS TypeOK MergesWhatIsReachedOnce NotFoundMeansMissing IncludedBreadthFirst LastFileWins
INVARIANTS LastFileGivesSchema
PROPERTIES KeepsPromise
