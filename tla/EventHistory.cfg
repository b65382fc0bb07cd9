SPECIFICATION Spec
CONSTANTS
    Modulus = 20
    SubMin = 4
    FrameLen = 2
    Second = 3
    ResetClk = 2
    InitialClks = {11}
    Horizon = 7
    Budgets <- MCBudgets
INVARIANTS TypeOK Replays
PROPERTIES EndsWithTheRecording PlaybackEnds
CHECK_DEADLOCK FALSE
