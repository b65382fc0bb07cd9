\* Four alarms on a table of three slots, so that it fills up; four clock values.
SPECIFICATION Spec
CONSTANTS
    a1 = a1
    a2 = a2
    a3 = a3
    a4 = a4
    NoAlarm = NoAlarm
    Alarms <- MCAlarms
    MaxPending = 3
    ClockMax = 3
SYMMETRY MCSymmetry
INVARIANTS TypeOK TableConsistent CacheCorrect
PROPERTY ImplementsQueue
