\* A skipping drive when the main clock is moved back.
SPECIFICATION Spec
CONSTANTS
    Modulus = 64
    SubMin = 5
    FrameLen = 2
    NumDrives = 1
    Sync = 3
    One = 2
    WakeLag = 7
    WakeTicks = 3
    ResetClk = 2
    MaxStep = 2
    IdleMethods = {"SKIP_CYCLES"}
    Commands = {}
    LagCap = 20
    AheadCap = 4
    MainHorizon = 64
    DriveHorizon = 20
INVARIANTS NeverAheadAsleep
