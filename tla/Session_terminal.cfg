SPECIFICATION Spec
CONSTANTS
    MaxSegs = 2
    MaxFrames = 1
INVARIANT TerminalIsLast
