--------------------------- MODULE InterruptLines ---------------------------
(***************************************************************************)
(* An interrupt status in use (src/vice/src/interrupt.h, interrupt.c,       *)
(* 6510core.c).  The chips pull and release their lines at any time in any  *)
(* order, more than once too; the CPU serves interrupts, lets released ones *)
(* expire, is reset, and its clock is moved back by the clock guard.  Each  *)
(* action is one call.                                                      *)
(*                                                                         *)
(* Bound: the clock stops IrqWindow short of ClockMax until it is warped,   *)
(* as the clock guard keeps it in the program.                              *)
(***************************************************************************)
EXTENDS InterruptStatus, FiniteSets

ASSUME LinesAssumption == IsFiniteSet(Lines)
ASSUME RoomAssumption == ClockMax > IrqWindow

VARIABLES
    status,      \* the interrupt status
    now,         \* the CPU clock
    released     \* when the IRQ wire was last released; ClockMax if it is low
                 \* or its release has been served or forgotten

linesVars == <<status, now, released>>

LinesTypeOK ==
    /\ status \in Statuses
    /\ now \in Clock
    /\ released \in Clock

LinesInit == status = StatusReset /\ now = 0 /\ released = ClockMax

\* What the call makes of the release time.
Released ==
    IF "IRQ" \in status'.global THEN ClockMax
    ELSE IF "IRQ" \in status.global THEN now
    ELSE released

SetIrq(l, value) ==
    /\ status' = IF value THEN AssertIrq(status, l, now)
                 ELSE ReleaseIrq(status, l, now)
    /\ released' = Released
    /\ UNCHANGED now

SetNmi(l, value) ==
    /\ status' = IF value THEN AssertNmi(status, l, now) ELSE ReleaseNmi(status, l)
    /\ UNCHANGED <<now, released>>

SetBoth(l, kinds) ==
    /\ status' = SetInt(status, l, kinds, now)
    /\ released' = Released
    /\ UNCHANGED now

(* What the CPU does between two opcodes: it lets a released IRQ expire,    *)
(* then serves an NMI, or an IRQ that is there or was released a moment     *)
(* ago, or postpones the IRQ because the opcode has only just enabled it;   *)
(* and if it serves none, it forgets an IRQ that was released.              *)
Expired == ExpireIrq(status, now)
IrqSeen == Expired.global \cap {"IRQ", "IRQPEND"} # {}

Expire ==
    /\ status' = Expired
    /\ released' = IF "IRQPEND" \in status'.global THEN released ELSE ClockMax
    /\ UNCHANGED now

ServeNmi ==
    /\ "NMI" \in status.global
    /\ status' = DropReleasedIrq(AckNmi(Expired))
    /\ released' = ClockMax
    /\ UNCHANGED now

ServeIrq ==
    /\ IrqSeen
    /\ status' = AckIrq(Expired)
    /\ released' = ClockMax
    /\ UNCHANGED now

Postpone ==
    /\ IrqSeen
    /\ status' = DropReleasedIrq([Expired EXCEPT !.global = @ \cup {"IRQPEND"}])
    /\ released' = ClockMax
    /\ UNCHANGED now

Forget ==
    /\ status' = DropReleasedIrq(Expired)
    /\ released' = ClockMax
    /\ UNCHANGED now

Reset ==
    /\ status' = ResetKeepingMonitor(status)
    /\ released' = ClockMax
    /\ UNCHANGED now

Monitor(on) ==
    /\ status' = IF on THEN MonitorTrapOn(status) ELSE MonitorTrapOff(status)
    /\ UNCHANGED <<now, released>>

Tick ==
    /\ now < ClockMax - IrqWindow - 1
    /\ now' = now + 1
    /\ UNCHANGED <<status, released>>

WarpStatus(amount) ==
    /\ now >= amount
    /\ now' = now - amount
    /\ status' = StatusWarp(status, amount)
    /\ released' = IF released = ClockMax THEN ClockMax ELSE Back(released, amount)

LinesNext ==
    \/ \E l \in Lines, value \in BOOLEAN : SetIrq(l, value) \/ SetNmi(l, value)
    \/ \E l \in Lines, kinds \in SUBSET LineKinds : SetBoth(l, kinds)
    \/ Expire
    \/ ServeNmi
    \/ ServeIrq
    \/ Forget
    \/ Postpone
    \/ Reset
    \/ \E on \in BOOLEAN : Monitor(on)
    \/ Tick
    \/ \E amount \in 1 .. ClockMax : WarpStatus(amount)

LinesSpec == LinesInit /\ [][LinesNext]_linesVars

-----------------------------------------------------------------------------
(* The counters and the flags the CPU looks at agree with the lines of the  *)
(* single sources, however often and in whatever order they are set         *)
(* (interrupt.h:133-231).                                                   *)
Counts(s) ==
    /\ s.nirq = Cardinality(IrqLines(s))
    /\ s.nnmi = Cardinality(NmiLines(s))
    /\ "IRQ" \in s.global <=> IrqLines(s) # {}

CountsMatch == Counts(status)

(* While the IRQ wire is low irq_pending_clk is unused; once it is high     *)
(* again it is the end of the window that the release opened.               *)
WindowTrue ==
    /\ "IRQ" \in status.global => status.irqPendingClk = ClockMax
    /\ "IRQPEND" \in status.global /\ "IRQ" \notin status.global
           => /\ released # ClockMax
              /\ status.irqPendingClk <= released + IrqWindow

(* An IRQ that was released before the CPU took it is taken only in the     *)
(* three cycles after its release (interrupt.h:108-110, 6510core.c:1987-1990).   *)
IrqTakenInWindow ==
    [][ServeIrq => \/ "IRQ" \in status.global
                   \/ released # ClockMax /\ now < released + IrqWindow]_linesVars

(* The status implements the two wires and the NMI latch.                   *)
Wires == INSTANCE InterruptWires
    WITH irq <- IrqLines(status), nmi <- NmiLines(status),
         irqLow <- "IRQ" \in status.global, edge <- "NMI" \in status.global
ImplementsWires == Wires!Spec
=============================================================================
