SPECIFICATION Spec
CONSTANTS
    FFT_SIZE = 6
    Bands <- MCBands
    Chunks = {2, 3, 6}
    MTU = 6
    WATERFALL_FFT_N = 4
    RowEvery = 3
    Floor = 1
    Strength = 1
    Leak = 1
    MaxSamples = 21
    MaxWindows = 2
INVARIANTS
    TypeOK
    FramesAreTheWindow
    MeasuresItsWindow
    RowIsLatest
CHECK_DEADLOCK FALSE
