SPECIFICATION Spec
CONSTANTS
    ClockMax = 31
    Base = 2
    SubMin = 9
    MaxLag = 3
    Controls = {{}, {"FREE"}, {"FREE", "PB7"}, {"PULSE"}}
INVARIANTS TypeOK LazyIsExact IrqOnTime
