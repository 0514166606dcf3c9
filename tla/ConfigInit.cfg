\* Two runs in any two environments, two places, and a user who steps in twice.
CONSTANTS
    Runs = {r1, r2}
    a = a
    b = b
    Places = {a, b}
    Unset = unset
    Starts <- MCStarts
    MaxEdits = 2
SPECIFICATION Spec
SYMMETRY RunSymmetry
\* Runs that have ended stop.
CHECK_DEADLOCK FALSE
INVARIANTS TypeOK EmptyOnlyWhileWriting DanglingIsNotMissing RunsAgree
PROPERTIES OnlyWritesWhatWasAbsent
