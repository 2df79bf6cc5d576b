SPECIFICATION Spec
CONSTANTS
    Workspaces = {w1}
    Sources = {s1, s2}
    ViteSources = {s1, s2}
    Requests = {r1, r2}
    MaxSlots = 2
    MayClean = TRUE
    NoBuild = nobuild
    Nothing = nothing
PROPERTIES
    CleanupSparesBuilds
