\* The host may lose power between any two steps.
CONSTANTS
    r1 = r1
    r2 = r2
    r3 = r3
    k1 = k1
    prod = prod
    NoReq = NoReq
    NoBody = NoBody
    Req <- Requests
    Keys = {k1}
    Workloads <- OneWorkload
    WorkloadOf <- OneKey
    ProdWorkloads <- OneWorkload
    Kinds = {"ingest", "approve", "reject"}
    Bodies <- OneIncident
    LLMAnswers <- Answers
    HistoryLimit = 5
    CommitFirst = TRUE
    Faults = {"crash", "lookup", "commit"}
SYMMETRY Symmetry
SPECIFICATION PowerSpec
INVARIANTS
    NoOrphans
    PInv
PROPERTIES
    ImplementsForgetful
    SyncedStays
