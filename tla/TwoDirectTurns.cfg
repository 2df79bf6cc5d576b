SPECIFICATION Spec
CONSTANTS
    eng = eng
    rev = rev
    pm = pm
    Agents <- MCAgents
    FileWriters <- MCFileWriters
    ShellAgents <- MCShellAgents
    Members = {eng, rev}
    Engineer = eng
    Reviewer = rev
    ProductManager = pm
    Orchestrator = main
    NoAgent = none
    MaxDispatches = 1
    Turns = {t1, t2}
    TurnKinds = {"direct"}
    Outcomes = {"success", "partial"}
    MaxCrashes = 2
    MaxFailures = 1
    MayDelete = TRUE
INVARIANTS
    HandoffAgreesWithRun
    FinishedTurnIsSettled
    ReferencesResolve
PROPERTY
    LifecycleSpec
CHECK_DEADLOCK FALSE
