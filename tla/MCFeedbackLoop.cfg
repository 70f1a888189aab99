CONSTANTS
    NoText = NoText
    Payloads <- TwoWorkloads
    Comments <- Said
    HistoryLimit = 1
SPECIFICATION Spec
CONSTRAINT TwoResolutions
INVARIANTS
    TypeOK
    ConflictsAreDuplicates
    TablesTellTheSame
    FeedbackReachesPrompts
    IInv
PROPERTY
    FeedbackIsFinal
