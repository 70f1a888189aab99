CONSTANTS
    s1 = s1
    s2 = s2
    k1 = k1
    NoStream = NoStream
    Streams <- Redelivered
    KeyOf <- RedeliveredKeys
    CommitFirst = FALSE
    Faults = {"disconnect", "raise", "pool", "store"}
SPECIFICATION FairSpec
INVARIANTS
    TypeOK
    StreamTellsTheTruth
    ActsOncePerKey
    IInv
PROPERTIES
    EveryStreamEnds
    ConnectionComesBack
