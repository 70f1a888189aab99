\* Every fault that a request under way can meet, commit before answer.
CONSTANTS
    r1 = r1
    r2 = r2
    r3 = r3
    r4 = r4
    k1 = k1
    k2 = k2
    k3 = k3
    k4 = k4
    prod = prod
    NoReq = NoReq
    NoBody = NoBody
    Req <- Requests3
    Keys = {k1, k2}
    Workloads <- OneWorkload
    WorkloadOf <- TwoKeysOneWorkload
    ProdWorkloads <- OneWorkload
    Kinds = {"ingest", "approve", "reject"}
    Bodies <- MixedBodies
    LLMAnswers <- ConfidentAnswers
    HistoryLimit = 5
    CommitFirst = TRUE
    Faults = {"crash", "store", "commit", "raise"}
SYMMETRY Permutations3
SPECIFICATION Spec
INVARIANTS
    TypeOK
    RecordsAgree
    SaveNeverCollides
    DuplicateNamesDurableEvent
    RepeatsFollowLosses
    ExecutedMeansPerformed
    NoUnsafeAutonomy
    IncidentCountIsFresh
    AckedIsDurable
    OneResolution
    IInv
    EInv
    SInv
PROPERTY
    ImplementsLedger
    ImplementsSerial
