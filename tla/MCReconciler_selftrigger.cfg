\* A dry-run policy nobody edits.
SPECIFICATION SystemSpec
CONSTANTS
    app = app
    Low = Low
    Mid = Mid
    High = High
    A = A
    B = B
    p1 = p1
    p2 = p2
    shop = shop
    pay = pay
    NoFile = NoFile
    NoCommit = NoCommit
    NoCall = NoCall
    NoData = NoData
    Person = Person
    Containers = {app}
    Calls <- MCCalls
    Branches <- MCBranches
    Files <- OneWorkload
    Managers = {A}
    Policies = {p1}
    Namespace <- OneNamespace
    Workloads <- OneWorkload
    Specs <- DryRun
    Material <- AllDifferent
    InitialTrees <- LowTree
    InitialLive <- LiveLow
    InitialUsage = {High}
    Drifts = {}
    Values = {Low, High}
    Faults = {}
    QueryFaults = {}
    Edits = {}
    MaxVersion = 0
    MaxDecisions = 0
    MayDelete = FALSE
    MaxGenerations = 1
PROPERTIES ReevaluatedByTimer
CHECK_DEADLOCK FALSE
