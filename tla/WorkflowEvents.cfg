SPECIFICATION Spec
CONSTANTS
    Turns = {t1, t2}
    Dispatches = {d1, d2}
    EventLimit = 2
    HighVolumeLimit = 1
    MaxEvents = 4
    Route = route
SYMMETRY Symmetry
CHECK_DEADLOCK FALSE
INVARIANTS TypeOK FinishedTurnsAreLogged OnlyLateEventsAreLost
PROPERTIES NoiseKeepsItsShare
