SPECIFICATION MCSpec
CONSTANTS
    FFT_SIZE = 16384
    MaxVersion = 2
    MaxText = 1
    Texts <- MCTexts
    Broken <- MCBroken
    Trimmed <- MCTrimmed
    Bare <- MCBare
    HandWritten <- MCHandWritten
    Puts <- MCPuts
    Pushes <- MCPushes
INVARIANTS
    AcceptedCanMeasure
