\* The claim that a schema that names a word list re-derives its password.
CONSTANTS
    MaxU = 63
    MaxCount = 5
    BufferSize = 5
    NoHash = none
    None = none
    EffLines <- MCEffLines
    Height <- MCHeight
    MaxHeight = 3
    Starts <- MCStarts
SPECIFICATION Spec
\* A password is written or the run panicked.
CHECK_DEADLOCK FALSE
INVARIANTS WordsOfTheNamedList
