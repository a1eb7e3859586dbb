SPECIFICATION Spec
CONSTANTS
    Commands = {p1, p2}
    MaxStarts = 2
SYMMETRY CommandSymmetry
INVARIANTS LiveShareKeepsRecord ReportsAreTrue
