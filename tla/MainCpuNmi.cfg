SPECIFICATION Spec
CONSTANTS
    ClockMax = 37
    Lines = {chip}
    Traps = {f}
    NoTrap = noTrap
    Wires = {"NMI"}
    Frame = frame
    FrameLen = 2
    SubMin = 13
    Delays = {2}
    Lengths = {2}
INVARIANTS NmiLatency
PROPERTIES NmiEntryServesNmi FramesGoOn
