SPECIFICATION Spec
CONSTANTS
    FrameDelta = 2
    Inputs = {"JOY1", "JOY2"}
    Control <- MCControl
    MaxFrames = 3
    Budgets <- MCBudgets
INVARIANTS TypeOK NoFalseAlarm
PROPERTIES ImplementsDelayedInputs OnlyHangUpsHang
CHECK_DEADLOCK FALSE
