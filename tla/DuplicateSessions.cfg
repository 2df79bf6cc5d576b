SPECIFICATION Spec
CONSTANTS
    eng = eng
    rev = rev
    pm = pm
    Agents <- MCAgents
    FileWriters <- MCFileWriters
    ShellAgents <- MCShellAgents
    Members = {eng}
    Engineer = eng
    Reviewer = rev
    ProductManager = pm
    Orchestrator = main
    NoAgent = none
    MaxDispatches = 1
    Turns = {t1, t2}
    TurnKinds = {"direct"}
    Outcomes = {"success"}
    MaxCrashes = 0
    MaxFailures = 0
    MayDelete = FALSE
INVARIANT
    OneSessionPerAgent
CHECK_DEADLOCK FALSE
