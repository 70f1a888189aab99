\* Four incidents of one workload against the history limit.
CONSTANTS
    r1 = r1
    r2 = r2
    r3 = r3
    r4 = r4
    k1 = k1
    k2 = k2
    k3 = k3
    k4 = k4
    prod = prod
    NoReq = NoReq
    NoBody = NoBody
    Req <- Requests4
    Keys = {k1, k2, k3, k4}
    Workloads <- OneWorkload
    WorkloadOf <- FourKeysOneWorkload
    ProdWorkloads <- OneWorkload
    Kinds = {"ingest"}
    Bodies <- FourIncidents
    LLMAnswers <- BudgetAnswers
    HistoryLimit = 3
    CommitFirst = FALSE
    Faults = {"lookup", "commit", "pool"}
SYMMETRY Permutations4
SPECIFICATION Spec
INVARIANTS
    AutoBounded
PROPERTY
    ImplementsSerial
