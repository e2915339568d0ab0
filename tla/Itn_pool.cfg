SPECIFICATION LiveSpec
CONSTANTS
    Calls = {a, b, c}
    Workers = {w1, w2}
    Threads = 2
    NoCall = NoCall
INVARIANTS
    TypeOK
    OneAnswerEach
    NothingLeftPending
PROPERTIES
    CallsAsPromised
    CallsEnd
