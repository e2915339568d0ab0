SPECIFICATION LiveSpec
CONSTANTS
    MaxSegs = 3
    MaxFrames = 2
INVARIANTS
    TypeOK
    SpokenOrder
    NoOvertaking
    EndIsComplete
    SendLockSound
    NothingStuck
PROPERTIES
    SilentAfterCleanup
    DeliversInOrder
    EndsForGood
    RecognisedIsSent
