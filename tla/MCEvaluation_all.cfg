\* Two specs, histories of three steps, one of them out of the second's window.
SPECIFICATION Spec
CONSTANTS
    cpu = cpu
    memory = memory
    web1 = web1
    web2 = web2
    admin = admin
    api = api
    batch = batch
    NaN = NaN
    Unset = Unset
    Dimensions = {cpu, memory}
    Unit = 10
    Specs <- AllSpecs
    Pods = {web1, web2, admin, api, batch}
    Matrix = {web1, web2, admin}
    Points <- MCPoints
    InitialRequests = {0, 1}
    StepsPerDay = 2
    IntLimit = 512
    Retention = 3
INVARIANTS TypeOK RequestCovers PatchIsAdmissible ReportMatchesDecision StableIsQuietAboveFive
