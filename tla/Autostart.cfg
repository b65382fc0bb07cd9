SPECIFICATION Spec
CONSTANTS
    QueueSize = 5
    BufferSize = 2
    KernalInit = 2
    MinCycles = 3
    Delays <- MCDelays
    Late = 6
    Media <- MCMedia
    MaxStarts = 2
    MaxActs = 1
INVARIANTS TypeOK WarpComesBack DriveComesBack
PROPERTIES RunsAProgram AutostartEnds
CHECK_DEADLOCK FALSE
