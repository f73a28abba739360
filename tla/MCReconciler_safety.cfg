\* One process, two policies in two namespaces with a Deployment of the same name each.
SPECIFICATION SystemSpec
CONSTANTS
    app = app
    Low = Low
    Mid = Mid
    High = High
    A = A
    B = B
    p1 = p1
    p2 = p2
    shop = shop
    pay = pay
    NoFile = NoFile
    NoCommit = NoCommit
    NoCall = NoCall
    NoData = NoData
    Person = Person
    Containers = {app}
    Calls <- MCCalls
    Branches <- MCBranches
    Files <- ThreeWorkloads
    Managers = {A}
    Policies = {p1, p2}
    Namespace <- TwoNamespaces
    Workloads <- ThreeWorkloads
    Specs <- ExcludingSpecs
    Material <- AllDifferent
    InitialTrees <- TornTree
    InitialLive <- LiveLow
    InitialUsage = {High}
    Drifts = {}
    Values = {Low, High}
    Faults = {"create", "crash"}
    QueryFaults = {"metrics"}
    Edits = {}
    MaxVersion = 0
    MaxDecisions = 0
    MayDelete = FALSE
    MaxGenerations = 2
INVARIANTS SystemTypeOK ProposalsJustified StatusIsOneView NeverForgotten
CHECK_DEADLOCK FALSE
