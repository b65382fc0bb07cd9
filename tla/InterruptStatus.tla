--------------------------- MODULE InterruptStatus ---------------------------
(***************************************************************************)
(* The interrupt status of an emulated CPU (src/vice/src/interrupt.h,       *)
(* interrupt.c): the record the chips pull their IRQ and NMI lines in and   *)
(* the CPU looks at before every opcode.  The data structure alone: one     *)
(* operator for each function.  InterruptLines drives it as a state         *)
(* machine, MainCpu embeds it in the main CPU's loop.                       *)
(*                                                                         *)
(* A status s has                                                           *)
(*   s.pending        pending_int[]: for every line its IK_IRQ/IK_NMI bits; *)
(*   s.nirq, s.nnmi   the numbers of lines that assert each;                *)
(*   s.global         global_pending_int, as a set of kinds;                *)
(*   s.irqClk, s.nmiClk         when they were asserted;                    *)
(*   s.irqPendingClk  irq_pending_clk: until when an IRQ that was released  *)
(*                    again may still be taken;                             *)
(*   s.trap           trap_func.                                            *)
(*                                                                         *)
(* Cycles stolen from the CPU (interrupt_fixup_int_clk) are left out: the   *)
(* drives never lose any, and on the main CPU this is the time outside of   *)
(* the video chip's DMA.                                                    *)
(***************************************************************************)
EXTENDS Clocks

CONSTANTS
    Lines,       \* the interrupt lines, one for each source
    Traps,       \* the functions that may be asked for with a trap
    NoTrap       \* trap_func of a status that was reset

ASSUME TrapsAssumption == NoTrap \notin Traps

LineKinds == {"IRQ", "NMI"}
Kinds == LineKinds \cup {"IRQPEND", "RESET", "TRAP", "MONITOR", "DMA"}

\* The window after its release in which an IRQ may still be taken.
IrqWindow == 3

Statuses ==
    [pending : [Lines -> SUBSET LineKinds],
     nirq : Nat, nnmi : Nat, global : SUBSET Kinds,
     irqClk : Clock, nmiClk : Clock, irqPendingClk : Clock,
     trap : Traps \cup {NoTrap}]

(* interrupt_cpu_status_reset: everything but the lines' names.             *)
StatusReset ==
    [pending |-> [l \in Lines |-> {}],
     nirq |-> 0, nnmi |-> 0, global |-> {},
     irqClk |-> 0, nmiClk |-> 0, irqPendingClk |-> ClockMax,
     trap |-> NoTrap]

-----------------------------------------------------------------------------
(* Mutant of AssertIrq: the window of an earlier release stays open.        *)
AssertIrqKeepWindow(s, l, t) ==
    IF "IRQ" \in s.pending[l] THEN s
    ELSE [s EXCEPT !.pending[l] = @ \cup {"IRQ"},
                   !.nirq = @ + 1,
                   !.global = @ \cup {"IRQ", "IRQPEND"},
                   !.irqClk = t]

(* interrupt_set_irq with a true value.                                     *)
AssertIrq(s, l, t) ==
    IF "IRQ" \in s.pending[l] THEN s
    ELSE [s EXCEPT !.pending[l] = @ \cup {"IRQ"},
                   !.nirq = @ + 1,
                   !.global = @ \cup {"IRQ", "IRQPEND"},
                   !.irqClk = t,
                   !.irqPendingClk = ClockMax]

(* Mutant of ReleaseIrq: a line that is released twice is counted twice.    *)
ReleaseIrqTwice(s, l, t) ==
    IF s.nirq = 0 THEN s
    ELSE LET released == [s EXCEPT !.pending[l] = @ \ {"IRQ"}, !.nirq = @ - 1]
         IN  IF released.nirq > 0 THEN released
             ELSE [released EXCEPT !.global = @ \ {"IRQ"},
                                   !.irqPendingClk = ClockAdd(t, IrqWindow)]

(* interrupt_set_irq with a false value.                                    *)
ReleaseIrq(s, l, t) ==
    IF "IRQ" \notin s.pending[l] \/ s.nirq = 0 THEN s
    ELSE LET released == [s EXCEPT !.pending[l] = @ \ {"IRQ"}, !.nirq = @ - 1]
         IN  IF released.nirq > 0 THEN released
             ELSE [released EXCEPT !.global = @ \ {"IRQ"},
                                   !.irqPendingClk = ClockAdd(t, IrqWindow)]

(* Mutant of AssertNmi: every line that is pulled makes an NMI.             *)
AssertNmiAlways(s, l, t) ==
    IF "NMI" \in s.pending[l] THEN s
    ELSE [s EXCEPT !.pending[l] = @ \cup {"NMI"}, !.nnmi = @ + 1,
                   !.global = @ \cup {"NMI"}, !.nmiClk = t]

(* interrupt_set_nmi with a true value.  The NMI is edge triggered: only    *)
(* the first line to pull the wire makes one, and not while one waits.      *)
AssertNmi(s, l, t) ==
    IF "NMI" \in s.pending[l] THEN s
    ELSE LET pulled == [s EXCEPT !.pending[l] = @ \cup {"NMI"}, !.nnmi = @ + 1]
         IN  IF s.nnmi = 0 /\ "NMI" \notin s.global
             THEN [pulled EXCEPT !.global = @ \cup {"NMI"}, !.nmiClk = t]
             ELSE pulled

(* Mutant of ReleaseNmi: a line that is released twice is counted twice.    *)
ReleaseNmiTwice(s, l) == [s EXCEPT !.pending[l] = @ \ {"NMI"}, !.nnmi = @ - 1]

(* interrupt_set_nmi with a false value: an NMI that was made stays.        *)
ReleaseNmi(s, l) ==
    IF "NMI" \notin s.pending[l] \/ s.nnmi = 0 THEN s
    ELSE [s EXCEPT !.pending[l] = @ \ {"NMI"}, !.nnmi = @ - 1]

(* interrupt_set_int: both lines at once, the NMI first.                    *)
SetInt(s, l, kinds, t) ==
    LET n == IF "NMI" \in kinds THEN AssertNmi(s, l, t) ELSE ReleaseNmi(s, l)
    IN  IF "IRQ" \in kinds THEN AssertIrq(n, l, t) ELSE ReleaseIrq(n, l, t)

-----------------------------------------------------------------------------
(* Called by the CPU when it serves an interrupt.                           *)
AckNmi(s) == [s EXCEPT !.global = @ \ {"NMI"}]
AckIrq(s) == [s EXCEPT !.global = @ \ {"IRQPEND"}, !.irqPendingClk = ClockMax]

(* Mutant of ExpireIrq: the end of the window is inside the window.         *)
ExpireIrqLate(s, now) ==
    IF "IRQ" \notin s.global /\ "IRQPEND" \in s.global /\ s.irqPendingClk < now
    THEN AckIrq(s) ELSE s

(* The main loop forgets an IRQ that was released too long ago.             *)
ExpireIrq(s, now) ==
    IF "IRQ" \notin s.global /\ "IRQPEND" \in s.global /\ s.irqPendingClk <= now
    THEN AckIrq(s) ELSE s

(* After the check for interrupts it forgets any IRQ that was released.     *)
DropReleasedIrq(s) ==
    IF "IRQ" \notin s.global THEN [s EXCEPT !.global = @ \ {"IRQPEND"}] ELSE s

TriggerTrap(s, f) == [s EXCEPT !.global = @ \cup {"TRAP"}, !.trap = f]
AckTrap(s) == [s EXCEPT !.global = @ \ {"TRAP"}]
TriggerReset(s) == [s EXCEPT !.global = @ \cup {"RESET"}]
AckReset(s) == [s EXCEPT !.global = @ \ {"RESET"}]
TriggerDma(s) == [s EXCEPT !.global = @ \cup {"DMA"}]
AckDma(s) == [s EXCEPT !.global = @ \ {"DMA"}]
MonitorTrapOn(s) == [s EXCEPT !.global = @ \cup {"MONITOR"}]
MonitorTrapOff(s) == [s EXCEPT !.global = @ \ {"MONITOR"}]

(* What a CPU does to its status when it is reset: the monitor stays on.    *)
ResetKeepingMonitor(s) ==
    IF "MONITOR" \in s.global THEN MonitorTrapOn(StatusReset) ELSE StatusReset

(* interrupt_cpu_status_time_warp backwards: a clock that would become      *)
(* negative stops at 0, and an unused irq_pending_clk stays where it is.    *)
Back(t, amount) == IF t > amount THEN t - amount ELSE 0

(* Mutant of StatusWarp: the clock of the IRQ is forgotten.                 *)
StatusWarpKeepIrq(s, amount) ==
    [s EXCEPT !.nmiClk = Back(@, amount),
              !.irqPendingClk = IF @ < ClockMax THEN Back(@, amount) ELSE @]

StatusWarp(s, amount) ==
    [s EXCEPT !.irqClk = Back(@, amount),
              !.nmiClk = Back(@, amount),
              !.irqPendingClk = IF @ < ClockMax THEN Back(@, amount) ELSE @]

-----------------------------------------------------------------------------
IrqLines(s) == {l \in Lines : "IRQ" \in s.pending[l]}
NmiLines(s) == {l \in Lines : "NMI" \in s.pending[l]}
=============================================================================
