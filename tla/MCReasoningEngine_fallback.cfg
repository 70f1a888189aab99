\* Does every error of the LLM end in a decision?
CONSTANTS
    Events <- AllEvents
    Replies <- SampleReplies
    MaxRows = 6
    HistoryLimit = 5
SPECIFICATION Spec
INVARIANT
    AlwaysDecides
