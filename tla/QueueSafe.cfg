SPECIFICATION Spec
CONSTANTS
    Coros = {c1, c2, c3, c4}
    maxsize = 1
    Shutdowns = {TRUE, FALSE}
    MaxItems = 3
INVARIANTS ReservationsHeld NeverStarved NoLostElement UnfinishedExact NobodyLeftBehind
SYMMETRY Symmetry
CHECK_DEADLOCK FALSE
