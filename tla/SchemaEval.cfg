\* Schemas of characters, words, lists and counts two deep, over 6-bit integers.
CONSTANTS
    MaxU = 63
    MaxCount = 5
    BufferSize = 5
    NoHash = none
    None = none
    EffLines <- MCEffLines
    Height <- MCHeight
    MaxHeight = 3
    Starts <- MCStarts
SPECIFICATION Spec
\* A password is written or the run panicked.
CHECK_DEADLOCK FALSE
INVARIANTS TypeOK SizeCountsPasswords EveryPasswordOnce MeasuredIsWritten
INVARIANTS PanicsAreDeserved WholeOrNothing HashNamesTheWords
