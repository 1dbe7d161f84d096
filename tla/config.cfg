SPECIFICATION MCSpec
CONSTANTS
    FFT_SIZE = 16384
    MaxVersion = 2
    MaxText = 5
    Texts <- MCTexts
    Broken <- MCBroken
    Trimmed <- MCTrimmed
    Bare <- MCBare
    HandWritten <- MCHandWritten
    Puts <- MCPuts
    Pushes <- MCPushes
INVARIANTS
    TypeOK
    FileIsRunning
    ComesBack
    BandFits
    QuotedComesBack
PROPERTY PushTakesHold
