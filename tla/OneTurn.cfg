SPECIFICATION Spec
CONSTANTS
    eng = eng
    rev = rev
    pm = pm
    Agents <- MCAgents
    FileWriters <- MCFileWriters
    ShellAgents <- MCShellAgents
    Members = {eng, rev, pm}
    Engineer = eng
    Reviewer = rev
    ProductManager = pm
    Orchestrator = main
    NoAgent = none
    MaxDispatches = 2
    Turns = {t1}
    TurnKinds = {"main", "direct"}
    Outcomes = {"success", "failed"}
    MaxCrashes = 1
    MaxFailures = 1
    MayDelete = TRUE
INVARIANTS
    TypeOK
    HandoffAgreesWithRun
    FinishedTurnIsSettled
    OwnWritesWithinTurn
    OneSpeakerUnlessRepaired
PROPERTY
    LifecycleSpec
CHECK_DEADLOCK FALSE
