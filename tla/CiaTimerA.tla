------------------------------ MODULE CiaTimerA ------------------------------
(***************************************************************************)
(* Timer A of a CIA chip and the interrupt it makes                         *)
(* (src/vice/src/core/ciacore.c): the registers through which a program     *)
(* works the timer, the alarm by which the chip is called when the timer    *)
(* underflows, and the alarms it leaves out because nobody would notice.    *)
(*                                                                         *)
(* Beside it runs the chip as it would be if it were brought up to date in  *)
(* every cycle (exact): whatever the program does, it must not be able to   *)
(* tell the two apart.                                                      *)
(*                                                                         *)
(* A chip c is a 6526 or, c.new, a 6526A; it has c.timer, c.due (when the *)
(* alarm context calls the timer's alarm), c.cra and c.icr (the bits of     *)
(* CRA and the enabled interrupts), c.irqflags, c.rdi (when ICR was last    *)
(* read) and c.irq, the interrupt line and since when it is pulled.         *)
(*                                                                         *)
(* Left out: timer B, the serial port, the clock of the day, the ports and  *)
(* the toggle output of the timer.  Of the other sources of interrupts      *)
(* there is the FLAG pin.                                                   *)
(*                                                                         *)
(* Bounds: MaxIdle is how long nothing may happen until the idle alarm      *)
(* brings the timers up to date; Controls are the bytes stored to CRA.      *)
(***************************************************************************)
EXTENDS CiaTimer

CONSTANTS
    Sources,        \* of interrupts
    Controls, SubMin, MaxIdle

CraBits == {"START", "PBON", "ONESHOT_CR", "FLOAD", "CNT"}

VARIABLES
    now,       \* the main CPU's clock
    cia,       \* the chip
    exact,     \* the chip that is brought up to date in every cycle
    busy       \* a register has been accessed in this cycle

vars == <<now, cia, exact, busy>>

ASSUME CiaAssumption ==
    /\ Base \in Nat \ {0, 1}
    /\ SubMin \in Nat /\ 2 * SubMin < ClockMax
    /\ MaxIdle \in 1 .. SubMin - 1 /\ Word + 6 <= SubMin
    /\ "TA" \in Sources /\ Sources \subseteq {"TA", "FLG"}
    /\ Controls \subseteq SUBSET CraBits

Chips ==
    [new : BOOLEAN, timer : Timers, due : Clock, cra : SUBSET CraBits,
     icr : SUBSET Sources, irqflags : SUBSET (Sources \cup {"IR"}), rdi : Clock,
     irq : [on : BOOLEAN, clk : Clock]]

TypeOK == now \in Clock /\ cia \in Chips /\ exact \in Chips /\ busy \in BOOLEAN

-----------------------------------------------------------------------------
Released == [on |-> FALSE, clk |-> 0]

\* interrupt_set_irq: pulling a line that is pulled changes nothing.
Pull(irq, t) == IF irq.on THEN irq ELSE [on |-> TRUE, clk |-> t]

(* ciat_set_alarm *)
SetAlarm(c) ==
    LET t == NextUnderflow(c.timer)
    IN  [c EXCEPT !.timer.alarmclk = t, !.due = t]

(* ciat_ack_alarm *)
AckAlarm(c) == [c EXCEPT !.timer.alarmclk = Never, !.due = Never]

(* cia_do_set_int.  A read of ICR in the cycle of the underflow suppresses  *)
(* the interrupt of the old chip and delays that of the new one.            *)
DoSetInt(c, t) ==
    LET at == IF ~c.new \/ c.rdi = t - 1 THEN ClockAdd(t, 1) ELSE t
    IN  IF c.irqflags \cap c.icr = {} \/ (~c.new /\ c.rdi = t) THEN c
        ELSE [c EXCEPT !.irq = Pull(@, at), !.irqflags = @ \cup {"IR"}]

\* What n underflows leave behind
Count(c) ==
    IF c.timer.n = 0 THEN c
    ELSE [c EXCEPT !.irqflags = @ \cup {"TA"}, !.timer.n = 0]

(* cia_do_update_ta *)
DoUpdateTa(c, t) == Count([c EXCEPT !.timer = Update(@, t)])

(* Another alarm is only needed for an interrupt that is enabled and not    *)
(* pending, or for the output of the timer.                                 *)
NeedsAlarm(c) ==
    /\ c.cra \cap {"START", "ONESHOT_CR", "CNT"} = {"START"}
    /\ ("TA" \in c.icr /\ "IR" \notin c.irqflags) \/ "PBON" \in c.cra

(* ciacore_intta, the alarm *)
IntTa(c, t) ==
    LET acked == AckAlarm(DoUpdateTa(c, t))
    IN  DoSetInt(IF NeedsAlarm(acked) THEN SetAlarm(acked) ELSE acked, t)

(* cia_update_ta: alarms that are due are called first.                     *)
CatchUp(c, t) ==
    LET Run[d \in Chips] ==
            IF d.timer.alarmclk > t THEN DoUpdateTa(d, t)
            ELSE Run[IntTa(d, d.timer.alarmclk)]
    IN  Run[c]

-----------------------------------------------------------------------------
(* The registers.  Each operator is given the chip brought up to date.      *)

StoreTal(c, lo) ==
    LET latch == (c.timer.latch \div Base) * Base + lo
        cnt == IF "LOAD" \in c.timer.flags THEN (c.timer.cnt \div Base) * Base + lo
               ELSE c.timer.cnt
    IN  SetAlarm([c EXCEPT !.timer.latch = latch, !.timer.cnt = cnt])

StoreTah(c, hi) ==
    LET latch == (hi * Base) + (c.timer.latch % Base)
        cnt == IF "LOAD" \in c.timer.flags \/ "START" \notin c.timer.flags THEN latch
               ELSE c.timer.cnt
    IN  SetAlarm([c EXCEPT !.timer.latch = latch, !.timer.cnt = cnt])

(* ciat_set_ctrl and the register.  The strobe FLOAD is not kept, and the   *)
(* bit CNT is inverted in the timer.                                        *)
StoreCra(c, byte) ==
    LET bits == (byte \cap CrBits) \cup (IF "CNT" \in byte THEN {} ELSE {"PHI2IN"})
        set == SetAlarm([c EXCEPT !.timer.flags = (@ \ CrBits) \cup bits])
    IN  [set EXCEPT !.cra = byte \ {"FLOAD"}]

StoreIcr(c, mask, on, t) ==
    LET masked == [c EXCEPT !.icr = IF on THEN @ \cup mask ELSE @ \ mask]
        pulled == IF masked.icr \cap masked.irqflags = {} THEN masked
                  ELSE DoSetInt(masked, t + 1)
    IN  IF "TA" \in pulled.icr THEN SetAlarm(pulled) ELSE pulled

\* Mutant: the alarm, no longer left out, is not set anew.
ReadIcrNoAlarm(c) == [c EXCEPT !.irqflags = {}, !.irq = Released]

\* Before the chip is brought up to date a read of ICR notes its time.
Note(c, t) == [c EXCEPT !.rdi = t]

ReadIcr(c) ==
    LET set == SetAlarm(c) IN [set EXCEPT !.irqflags = {}, !.irq = Released]

SetFlag(c, t) ==
    LET flagged == [c EXCEPT !.irqflags = @ \cup {"FLG"}]
    IN  IF "FLG" \in c.icr
        THEN [flagged EXCEPT !.irqflags = @ \cup {"IR"}, !.irq = Pull(@, t)]
        ELSE flagged

-----------------------------------------------------------------------------
(* The exact chip has run up to now; it looks for an interrupt in every     *)
(* cycle in which its timer underflows.                                     *)
Eager(c, t) ==
    LET run == [c EXCEPT !.timer = Exact(@)]
    IN  IF run.timer.n = 0 THEN run ELSE DoSetInt(Count(run), t)

(* Bound: times that nothing depends on any more.  Underflows to come are   *)
(* compared with the last read of ICR and the cycle after it.               *)
ForgetRead(c) == IF c.rdi < c.timer.clk THEN [c EXCEPT !.rdi = 0] ELSE c

ForgetPull(c) ==
    IF cia.irq = exact.irq /\ c.irq.clk <= now THEN [c EXCEPT !.irq.clk = 0] ELSE c

(* ciacore_reset *)
ChipReset(new, t) ==
    [new |-> new, timer |-> TimerReset(t), due |-> Never, cra |-> {}, icr |-> {},
     irqflags |-> {}, rdi |-> 0, irq |-> Released]

Init ==
    /\ now = SubMin
    /\ \E new \in BOOLEAN : cia = ChipReset(new, now)
    /\ exact = cia
    /\ busy = FALSE

GuardMax == ClockMax - SubMin
GuardSub == GuardMax - SubMin

(* A cycle passes.  The alarm is called at the end of the opcode at the     *)
(* latest, the idle alarm before MaxIdle cycles have passed.                *)
Tick ==
    /\ now < cia.timer.clk + MaxIdle
    /\ now < GuardMax + 1
    /\ now' = now + 1
    /\ cia' = ForgetPull(ForgetRead(cia))
    /\ exact' = Eager(ForgetPull(ForgetRead(exact)), now')
    /\ busy' = FALSE

Dispatch ==
    /\ cia.due <= now
    /\ cia' = IntTa(cia, cia.due)
    /\ UNCHANGED <<now, exact, busy>>

\* The bus carries one access in a cycle.  The exact chip needs no alarm.
Access(Op(_)) ==
    /\ ~busy /\ busy' = TRUE
    /\ cia' = Op(CatchUp(cia, now))
    /\ exact' = AckAlarm(Op(exact))
    /\ UNCHANGED now

Tal(lo) == Access(LAMBDA c : StoreTal(c, lo))
Tah(hi) == Access(LAMBDA c : StoreTah(c, hi))
Cra(byte) == Access(LAMBDA c : StoreCra(c, byte))
Icr(mask, on) == Access(LAMBDA c : StoreIcr(c, mask, on, now))

ReadsIcr ==
    /\ ~busy /\ busy' = TRUE
    /\ cia' = ReadIcr(CatchUp(Note(cia, now), now))
    /\ exact' = AckAlarm(ReadIcr(Note(exact, now)))
    /\ UNCHANGED now

(* A read of another register, or the idle alarm *)
Reads == cia # CatchUp(cia, now) /\ Access(LAMBDA c : c)

Reset ==
    /\ cia' = ChipReset(cia.new, now) /\ exact' = cia'
    /\ UNCHANGED <<now, busy>>

(* A pulse comes from the alarm of another device, and alarms are called in *)
(* the order of their times.  Bound: an underflow of the same cycle is      *)
(* called before.                                                           *)
Flag ==
    /\ "FLG" \in Sources
    /\ cia.due > now
    /\ cia' = SetFlag(cia, now) /\ exact' = SetFlag(exact, now)
    /\ UNCHANGED <<now, busy>>

\* Mutant of Back: a time that is long past is moved below zero.
BackBelowZero(t, amount) == t - amount

(* The clock guard.  Its callbacks are called with the clock moved back: the *)
(* chip first makes up for the time before, and the alarm context, whose     *)
(* callback was added first, is moved back last.                             *)
Back(t, amount) == IF t > amount THEN t - amount ELSE 0
BackUnlessNever(t, amount) == IF t < Never THEN t - amount ELSE t

MoveChip(c, amount) ==
    [c EXCEPT !.timer.clk = @ - amount,
              !.timer.alarmclk = BackUnlessNever(@, amount),
              !.rdi = Back(@, amount)]

MoveIrq(irq, amount) == IF irq.on THEN [irq EXCEPT !.clk = Back(@, amount)] ELSE irq

MoveContext(c, amount) ==
    [c EXCEPT !.due = BackUnlessNever(@, amount), !.irq = MoveIrq(@, amount)]

\* Mutant, and what a comment allows (clkguard.c:86-87): the alarm context is
\* moved back first.
GuardedContextFirst(c, t) ==
    MoveChip(CatchUp(MoveContext(c, GuardSub), t), GuardSub)

Guarded(c, t) == MoveContext(MoveChip(CatchUp(c, t), GuardSub), GuardSub)

Guard ==
    /\ now >= GuardMax
    /\ now' = now - GuardSub
    /\ cia' = Guarded(cia, now)
    /\ exact' = MoveContext(MoveChip(exact, GuardSub), GuardSub)
    /\ UNCHANGED busy

Bytes == 0 .. Base - 1

Next ==
    \/ Tick
    \/ Dispatch
    \/ \E b \in Bytes : Tal(b) \/ Tah(b)
    \/ \E byte \in Controls : Cra(byte)
    \/ \E mask \in SUBSET Sources \ {{}}, on \in BOOLEAN : Icr(mask, on)
    \/ ReadsIcr
    \/ Reads
    \/ Flag
    \/ Reset
    \/ Guard

Spec == Init /\ [][Next]_vars

-----------------------------------------------------------------------------
\* What a program can find out by reading registers now
Visible(c) ==
    [flags |-> c.timer.flags, cnt |-> c.timer.cnt, latch |-> c.timer.latch,
     cra |-> c.cra, icr |-> c.icr, irqflags |-> c.irqflags]

(* Whenever a program looks, the timer that skipped cycles and left out     *)
(* alarms is where the timer is that ran through every cycle: counter,      *)
(* control bits in the pipeline, and interrupt flags.                       *)
LazyIsExact == Visible(CatchUp(cia, now)) = Visible(exact)

(* No interrupt is lost, late or too many because of an alarm that was left *)
(* out: when no alarm is due the line is as the exact chip pulls it, and    *)
(* since the same cycle.                                                    *)
IrqOnTime == cia.due > now => cia.irq = exact.irq

(* The timer and the alarm context agree when the alarm is due, also after  *)
(* the clock guard has moved both back, one after the other.  The order      *)
(* matters, although clkguard.c:86-87 says of the guard's callbacks: "Order  *)
(* is supposed not to matter at all for this purpose."                      *)
AlarmAgrees == cia.due = cia.timer.alarmclk
=============================================================================
