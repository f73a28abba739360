\* One process, every fault, people editing, merging, closing and deleting.
SPECIFICATION Spec
CONSTANTS
    app = app
    sidecar = sidecar
    web1 = web1
    web2 = web2
    webYaml = webYaml
    Low = Low
    High = High
    A = A
    B = B
    NoFile = NoFile
    NoCommit = NoCommit
    NoCall = NoCall
    Person = Person
    Managers = {A}
    Branches = {web1, web2}
    Files = {webYaml}
    Containers = {app, sidecar}
    Values = {Low, High}
    InitialTrees <- MCTrees
    Calls <- MCCalls
    Edits <- MCEdits
    Faults <- AllFaults
    MaxVersion = 2
    MaxDecisions = 1
    MayDelete = TRUE
INVARIANTS TypeOK WorktreeReclaimed OkMeansProposed
PROPERTIES MergeAppliesBody
