SPECIFICATION FairSpec
CONSTANTS
    Agents = {eng, rev, pm}
    Members = {eng, rev}
    FileWriters = {eng}
    ShellAgents = {eng, rev}
    Engineer = eng
    Reviewer = rev
    ProductManager = pm
    Orchestrator = main
    NoAgent = none
    MaxDispatches = 2
    Judges = {rev}
    Statuses = {"success", "failed"}
    Findings = {"pass", "partial", "unknown"}
    MaxTurns = 2
    MaxLost = 1
    MaxThrows = 1
INVARIANTS TypeOK AdmittedWorkSucceeded DeliveryOpensGate
PROPERTIES StreamsAreRecorded
CHECK_DEADLOCK FALSE
