------------------------------- MODULE Clocks -------------------------------
(* The CLOCK type (src/vice/src/arch/libretro/types.h): an unsigned counter *)
(* of CPU cycles.  Its sums and differences wrap.                           *)
EXTENDS Integers

CONSTANT ClockMax      \* CLOCK_MAX, the largest value of the CLOCK type

ASSUME ClockMaxAssumption == ClockMax \in Nat \ {0}

Clock == 0 .. ClockMax

ClockAdd(t, d) == (t + d) % (ClockMax + 1)
ClockSub(t, d) == (t - d) % (ClockMax + 1)
=============================================================================
