SPECIFICATION FairSpec
CONSTANTS
    eng = eng
    rev = rev
    pm = pm
    Agents <- MCAgents
    FileWriters <- MCFileWriters
    ShellAgents <- MCShellAgents
    Members = {eng, rev}
    Engineer = eng
    Reviewer = rev
    ProductManager = pm
    Orchestrator = main
    NoAgent = none
    MaxDispatches = 2
    Turns = {t1}
    TurnKinds = {"main", "direct"}
    Outcomes = {"success", "failed"}
    MaxCrashes = 1
    MaxFailures = 0
    MayDelete = TRUE
PROPERTIES
    TurnsEnd
    DispatchesEnd
CHECK_DEADLOCK FALSE
