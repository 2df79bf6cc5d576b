SPECIFICATION Spec
CONSTANTS
    eng = eng
    rev = rev
    pm = pm
    Agents <- MCAgents
    FileWriters <- MCFileWriters
    ShellAgents <- MCShellAgents
    Members = {eng, rev, pm}
    Engineer = eng
    Reviewer = rev
    ProductManager = pm
    Orchestrator = main
    NoAgent = none
    MaxDispatches = 1
    Turns = {t1}
    TurnKinds = {"main"}
    Outcomes = {"success", "failed"}
    MaxCrashes = 0
    MaxFailures = 0
    MayDelete = FALSE
INVARIANT
    OneVisibleSpeaker
CHECK_DEADLOCK FALSE
