SPECIFICATION Spec
CONSTANTS
    Hop = 2
    Pad = 2
    MinSpeech = 2
    MaxSpeech = 4
    PauseMax = 3
    PauseMin = 1
    DynamicRange = 3
    MaxSamples = 12
INVARIANT SpeechWithinLimit
