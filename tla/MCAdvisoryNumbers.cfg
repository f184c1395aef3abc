SPECIFICATION Spec
CONSTANTS
    Facilities = {f1, f2}
    Ids = {i1, i2, i3}
    Procs = {p1, p2}
    DayBound = 1
    NumberBound = 4
SYMMETRY Symmetry
INVARIANTS
    NumbersUnique
    NeverReissued
CHECK_DEADLOCK FALSE
