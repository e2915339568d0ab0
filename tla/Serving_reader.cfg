SPECIFICATION ServingFair
CONSTANTS
    MaxFailures = 2
    MaxRetries = 2
    Calls = {c1}
    Sessions = {{c1}}
    Readers = {r1}
PROPERTY DeathExits
