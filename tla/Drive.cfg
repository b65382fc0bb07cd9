\* One drive, every idle method and command, both guards, sleeps of up to 8 cycles.
SPECIFICATION Spec
CONSTANTS
    Modulus = 22
    SubMin = 4
    FrameLen = 2
    NumDrives = 1
    Sync = 3
    One = 2
    WakeLag = 6
    WakeTicks = 3
    ResetClk = 1
    MaxStep = 1
    IdleMethods = {"SKIP_CYCLES", "NO_IDLE"}
    Commands = {"toggle", "method", "reset"}
    LagCap = 8
    AheadCap = 4
    MainHorizon = 22
    DriveHorizon = 22
INVARIANTS TypeOK LastClkTrue NeverAhead NeverBehind OnlyLongSleepSkips
