\* Every list of up to four ranges over code points 0 to 6, of which 2 and 3 are surrogates.
CONSTANTS
    SurLo = 2
    SurHi = 3
    MaxChar = 6
    MaxRanges = 4
    Inputs <- MCInputs
SPECIFICATION Spec
\* from_ranges returns.
CHECK_DEADLOCK FALSE
INVARIANTS TypeOK SameCharacters Apart NthCountsTheClass LoopInv
