\* Two processes, the five tables of the bank, and the targets of the tests and
\* of the command (0 and 999) with one in between.
SPECIFICATION Spec
CONSTANTS
    Process = {p1, p2}
    LastVersion = 5
    References <- MCReferences
    Target = {0, 3, 999}
SYMMETRY ProcessSymmetry
INVARIANTS
    TypeOK
    AppliedMatchesTables
    GapNeedsOverlap
PROPERTY
    NilMeansDone
