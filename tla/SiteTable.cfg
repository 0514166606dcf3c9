\* Every list of up to three raw sites: two URLs, one of them written in two
\* ways, an invalid one, three usernames, and all that a merge combines.
CONSTANTS
    none = none
    s1 = s1
    s2 = s2
    None <- MCNone
    Texts <- MCTexts
    Words <- MCWords
    RawUrls = {"google.com", "https://google.com/", "apple.com", "https://"}
    NormalOf <- MCNormalOf
    Usernames = {1, 2}
    Globals <- MCGlobals
    RawSites <- MCRawSites
    MaxSites = 3
SPECIFICATION Spec
\* from_global_site returns: the table is built or an error is.
CHECK_DEADLOCK FALSE
INVARIANTS TypeOK MergeInv LookupsAreDocumented PrintedSitesAreFound DataNeverMixed OrderOnlyMovesSchemas
