SPECIFICATION FairSpec
CONSTANTS
    Workspaces = {w1}
    Sources = {s1}
    ViteSources = {s1}
    Requests = {r1, r2, r3}
    MaxSlots = 1
    MayClean = FALSE
    NoBuild = nobuild
    Nothing = nothing
INVARIANTS SlotsAccounted NoLostWakeup
PROPERTIES SlotSpec BuildsEnd
