SPECIFICATION Spec
CONSTANTS
    Workspaces = {w1}
    Sources = {s1, s2}
    ViteSources = {s1}
    Requests = {r1, r2}
    MaxSlots = 1
    MayClean = TRUE
    NoBuild = nobuild
    Nothing = nothing
INVARIANTS TypeOK RunningIsUnderWay NoWorkspaceLockedOut
SYMMETRY Symmetry
