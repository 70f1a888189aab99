CONSTANTS
    Events <- AllEvents
    Replies <- SampleReplies
    MaxRows = 6
    HistoryLimit = 5
SPECIFICATION Spec
INVARIANTS
    TypeOK
    DecisionFollowsTable
    AutonomyNeedsEvidence
    Established
PROPERTY
    DecidesAtOnce
