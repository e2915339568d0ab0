SPECIFICATION ServingLive
CONSTANTS
    MaxFailures = 2
    MaxRetries = 2
    Calls = {c1, c2}
    Sessions = {{c1, c2}}
    Readers = {r1}
INVARIANTS
    ServingTypeOK
    DownForCause
    NoLeaderLeft
    RetriesForCause
    CallsHaveServer
PROPERTIES
    DeathBringsDown
    CallsEnd
