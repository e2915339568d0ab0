SPECIFICATION LiveSpec
CONSTANTS
    Requests = {q1}
    MaxTexts = 3
    MaxSegs = 4
    Statuses = {502, 503}
INVARIANTS
    OwnSentences
    VllmStopped
PROPERTY AllAnswered
