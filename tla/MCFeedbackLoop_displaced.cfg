CONSTANTS
    NoText = NoText
    Payloads <- TwoWorkloads
    Comments <- Said
    HistoryLimit = 1
SPECIFICATION Spec
INVARIANT FeedbackReachesNextEvent
