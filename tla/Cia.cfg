\* Both models, two sources that share the line; the clock guard strikes every few cycles.
SPECIFICATION Spec
CONSTANTS
    ClockMax = 23
    Base = 2
    SubMin = 10
    MaxIdle = 5
    Sources = {"TA", "FLG"}
    Controls = {{"CNT", "START"}, {"START"}, {"START", "ONESHOT_CR", "FLOAD"}}
INVARIANTS TypeOK AlarmAgrees IrqOnTime LazyIsExact
