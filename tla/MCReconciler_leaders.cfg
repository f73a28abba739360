\* A deposed leader and its successor on one policy, one workload; a person merges.
SPECIFICATION SystemSpec
CONSTANTS
    app = app
    Low = Low
    Mid = Mid
    High = High
    A = A
    B = B
    p1 = p1
    p2 = p2
    shop = shop
    pay = pay
    NoFile = NoFile
    NoCommit = NoCommit
    NoCall = NoCall
    NoData = NoData
    Person = Person
    Containers = {app}
    Calls <- MCCalls
    Branches <- MCBranches
    Files <- OneWorkload
    Managers = {A, B}
    Policies = {p1}
    Namespace <- OneNamespace
    Workloads <- OneWorkload
    Specs <- RivalSpecs
    Material <- AllDifferent
    InitialTrees <- LowTree
    InitialLive <- LiveLow
    InitialUsage = {High}
    Drifts = {}
    Values = {Low, High}
    Faults = {"lost reply"}
    QueryFaults = {}
    Edits = {}
    MaxVersion = 1
    MaxDecisions = 1
    MayDelete = FALSE
    MaxGenerations = 2
PROPERTIES StatusIsSerial MergesSkipExclusions
CHECK_DEADLOCK FALSE
