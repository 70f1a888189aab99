\* No transaction is lost and no request gives up; the answer is sent before the commit.
CONSTANTS
    r1 = r1
    r2 = r2
    r3 = r3
    r4 = r4
    k1 = k1
    k2 = k2
    k3 = k3
    k4 = k4
    prod = prod
    NoReq = NoReq
    NoBody = NoBody
    Req <- Requests3
    Keys = {k1, k2}
    Workloads <- OneWorkload
    WorkloadOf <- TwoKeysOneWorkload
    ProdWorkloads <- OneWorkload
    Kinds = {"ingest", "approve", "reject", "read"}
    Bodies <- OneIncident
    LLMAnswers <- ConfidentAnswers
    HistoryLimit = 5
    CommitFirst = FALSE
    Faults = {"raise"}
SPECIFICATION FairSpec
INVARIANTS
    PerformedOnce
PROPERTY
    EveryRequestEnds
