\* Three sources; a clock of eight values, which leaves four for the CPU.
SPECIFICATION LinesSpec
CONSTANTS
    Lines = {l1, l2, l3}
    Traps = {t}
    NoTrap = NoTrap
    ClockMax = 7
INVARIANTS LinesTypeOK CountsMatch WindowTrue
PROPERTIES IrqTakenInWindow ImplementsWires
