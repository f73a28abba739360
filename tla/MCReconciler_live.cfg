\* One workload: clones and queries may fail, and the policy is edited between dry-run and publishing.
SPECIFICATION FairSystemSpec
CONSTANTS
    app = app
    Low = Low
    Mid = Mid
    High = High
    A = A
    B = B
    p1 = p1
    p2 = p2
    shop = shop
    pay = pay
    NoFile = NoFile
    NoCommit = NoCommit
    NoCall = NoCall
    NoData = NoData
    Person = Person
    Containers = {app}
    Calls <- MCCalls
    Branches <- MCBranches
    Files <- OneWorkload
    Managers = {A}
    Policies = {p1}
    Namespace <- OneNamespace
    Workloads <- OneWorkload
    Specs <- AdoptingSpecs
    Material <- AllDifferent
    InitialTrees <- LowTree
    InitialLive <- LiveLow
    InitialUsage = {High}
    Drifts = {NoData}
    Values = {Low, High}
    Faults = {"clone"}
    QueryFaults = {"metrics"}
    Edits <- Reformatted
    MaxVersion = 1
    MaxDecisions = 1
    MayDelete = FALSE
    MaxGenerations = 2
PROPERTIES MaterialChangeProposed SpecObserved
CHECK_DEADLOCK FALSE
