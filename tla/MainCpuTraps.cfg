SPECIFICATION Spec
CONSTANTS
    ClockMax = 72
    Lines = {chip}
    Traps = {f, g}
    NoTrap = noTrap
    Wires = {"IRQ"}
    Frame = frame
    FrameLen = 10
    SubMin = 24
    Delays = {3}
    Lengths = {4}
INVARIANTS TrapsNotLost
