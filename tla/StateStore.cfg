SPECIFICATION FairSpec
CONSTANTS
    Workspaces = {w1}
    SeedWorkspaces = {w1}
    Runs = {a1, a2, a3}
    SeedRun = seedrun
    NoRun = norun
    FirstRun = a1
    StartedAt <- MCStartedAt
    RunLimit = 2
    Calls = {c1, c2}
    NoCall = nocall
    Nothing = nothing
INVARIANTS TypeOK LiveRunsStayOpen
PROPERTIES RegisterSpec OnlyOldRunsAreDropped CallsAreAnswered
