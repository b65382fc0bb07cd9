\* Two chips that interrupt, over the clock guard.
SPECIFICATION Spec
CONSTANTS
    ClockMax = 37
    Lines = {c, d}
    Traps = {}
    NoTrap = noTrap
    Wires = {"IRQ"}
    Frame = frame
    FrameLen = 2
    SubMin = 13
    Delays = {2}
    Lengths = {2}
SYMMETRY MCSymmetry
INVARIANTS TypeOK AlarmsOnTime IrqLatency
