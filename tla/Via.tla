--------------------------------- MODULE Via ---------------------------------
(***************************************************************************)
(* The timers of a VIA chip and the interrupts they make                    *)
(* (src/vice/src/core/viacore.c).  The code does not count: it keeps when   *)
(* timer 1 comes to -1 (tau) and when timer 2 would (tbu), and computes the *)
(* counters from these when they are read; alarms (tai, tbi) set the flags. *)
(*                                                                         *)
(* Beside it runs a chip that counts in every cycle (exact), as the diagram *)
(* in viacore.c:103-132 shows it: N, N-1, ..., 0, -1, and then N again in     *)
(* timer 1 but -2, -3, ... in timer 2.                                      *)
(*                                                                         *)
(* A chip c has the registers c.latch1, c.latch2, c.acr, c.ifr, c.ier, the  *)
(* interrupt line c.irq and since when it is pulled, and the timers t1, t2. *)
(* Clocks are those of the bus cycle: a read is made with the clock of its  *)
(* cycle, a store with that of the next (write_offset).                     *)
(*                                                                         *)
(* Left out: the output PB7, the shift register and the 8-bit mode of timer *)
(* 2 that drives it, pulses on PB6 (nobody counts them), the ports and the  *)
(* control lines, the two stores of a read-modify-write opcode, and         *)
(* viacore_disable.                                                         *)
(*                                                                         *)
(* Bounds: Base, the number of values of a byte; MaxLag, the cycles that    *)
(* may pass in an opcode before a due alarm is called; Controls, the bytes  *)
(* stored to ACR.  The timers share only flags, and a program uses one of   *)
(* them: the other stands still.                                            *)
(***************************************************************************)
EXTENDS Clocks

CONSTANTS Base, SubMin, MaxLag, Controls

ASSUME ViaAssumption ==
    /\ Base \in Nat \ {0, 1}
    /\ (ClockMax + 1) % (Base * Base) = 0
    /\ MaxLag \in Nat /\ SubMin \in Nat /\ 2 * SubMin < ClockMax
    /\ MaxLag + 1 < SubMin /\ Base * Base + 3 <= SubMin
    /\ Controls \subseteq SUBSET {"FREE", "PB7", "PULSE"}

Word == Base * Base
Bytes == 0 .. Base - 1
Sources == {"T1", "T2"}

VARIABLES
    now,       \* the clock of this bus cycle
    via,       \* the chip
    exact,     \* the chip that counts
    used,      \* the timer that the program uses
    bus,       \* what this bus cycle has been used for
    upset      \* history: what the timer has met

vars == <<now, via, exact, used, bus, upset>>

Chips(T1, T2) ==
    [latch1 : 0 .. Word - 1, latch2 : Bytes, acr : SUBSET {"FREE", "PB7", "PULSE"},
     ifr : SUBSET Sources, ier : SUBSET Sources, irq : [on : BOOLEAN, clk : Clock],
     t1 : T1, t2 : T2]

ViaChips == Chips([tal : 0 .. Word - 1, tau : Clock, tai : Clock],
                  [cl : Bytes, ch : Bytes, tbu : Clock, tbi : Clock])
ExactChips == Chips([tal : 0 .. Word - 1, cnt : 0 .. Word - 1, out : BOOLEAN,
                     load : BOOLEAN, armed : BOOLEAN],
                    [cnt : 0 .. Word - 1, load : BOOLEAN, armed : BOOLEAN, pulse : BOOLEAN])

TypeOK ==
    /\ now \in Clock
    /\ via \in ViaChips /\ exact \in ExactChips
    /\ used \in {"T1", "T2"} /\ bus \in {"free", "fetch", "data"}
    /\ upset \subseteq {"late", "stale"}

-----------------------------------------------------------------------------
(* The interrupt flags and the line.                                        *)

Released == [on |-> FALSE, clk |-> 0]

(* update_myviairq, and interrupt_set_irq: pulling a line that is pulled    *)
(* changes nothing.                                                         *)
UpdateIrq(c, t) ==
    [c EXCEPT !.irq = IF c.ifr \cap c.ier = {} THEN Released
                      ELSE IF @.on THEN @ ELSE [on |-> TRUE, clk |-> t]]

Raise(c, source, t) == UpdateIrq([c EXCEPT !.ifr = @ \cup {source}], t)
Clear(c, sources, t) == UpdateIrq([c EXCEPT !.ifr = @ \ sources], t)

-----------------------------------------------------------------------------
(* The timers as the code keeps them.                                       *)

(* myviata *)
Counter1(c, clk) ==
    (IF clk < ClockAdd(c.t1.tau, 1) THEN c.t1.tau - 1 - clk
     ELSE c.t1.tal - (ClockSub(clk, ClockAdd(c.t1.tau, 1)) % (c.t1.tal + 2))) % Word

(* myviatb *)
Counter2(c, clk) ==
    LET t == ClockSub(c.t2.tbu, clk + 2)
        hi == IF clk = c.t2.tbi + 1 THEN (c.t2.ch - 1) % Base ELSE c.t2.ch
    IN  IF "PULSE" \in c.acr THEN c.t2.ch * Base + c.t2.cl
        ELSE IF c.t2.tbi # 0 THEN hi * Base + (t % Base)
        ELSE t % Word

(* update_myviatal without moving tau on *)
TalWithoutTau(c, clk) == [c EXCEPT !.t1.tal = c.latch1]

(* update_myviatal *)
UpdateTal(c, clk) ==
    LET period == c.t1.tal + 2
        tau == ClockAdd(clk - ((clk - c.t1.tau - 1) % period), period - 1)
    IN  [c EXCEPT !.t1.tau = IF clk > @ THEN tau ELSE @, !.t1.tal = c.latch1]

(* viacore_intt1 that pulls the line when the next interrupt is due *)
IntT1PullsLate(c) ==
    LET period == c.t1.tal + 2
        next == IF "FREE" \in c.acr
                THEN [c EXCEPT !.t1.tai = ClockAdd(@, period), !.t1.tau = ClockAdd(@, period)]
                ELSE [c EXCEPT !.t1.tai = 0]
    IN  Raise(next, "T1", next.t1.tai)

(* viacore_intt1 *)
IntT1(c) ==
    LET period == c.t1.tal + 2
        next == IF "FREE" \in c.acr
                THEN [c EXCEPT !.t1.tai = ClockAdd(@, period), !.t1.tau = ClockAdd(@, period)]
                ELSE [c EXCEPT !.t1.tai = 0]
    IN  Raise(next, "T1", c.t1.tai)

(* viacore_intt2: the low byte of the counter has come to its end.          *)
IntT2(c) ==
    LET hi == (c.t2.ch - 1) % Base
        low == [c EXCEPT !.t2.cl = Base - 1, !.t2.ch = hi]
        next == IF c.t2.ch # 0
                THEN [low EXCEPT !.t2.tbi = ClockAdd(@, Base), !.t2.tbu = ClockAdd(@, Base)]
                ELSE [low EXCEPT !.t2.tbi = 0]
    IN  IF hi = Base - 1 THEN Raise(next, "T2", c.t2.tbi) ELSE next

Overdue(alarm, clk) == alarm # 0 /\ alarm < clk
AnyOverdue(c, clk) == Overdue(c.t1.tai, clk) \/ Overdue(c.t2.tbi, clk)

(* The beginning of viacore_read                                            *)
CatchUp(c, clk) ==
    LET first == IF Overdue(c.t1.tai, clk) THEN IntT1(c) ELSE c
    IN  IF Overdue(first.t2.tbi, clk) THEN IntT2(first) ELSE first

(* T2 is started, by T2CH or when pulses are no longer counted.             *)
StartT2(c, clk) ==
    [c EXCEPT !.t2.tbu = ClockAdd(clk, c.t2.cl + 3), !.t2.tbi = ClockAdd(clk, c.t2.cl + 1)]

-----------------------------------------------------------------------------
(* The chip that counts.                                                    *)

Count1(x, t) ==
    LET timer == x.t1
        counted == [x EXCEPT
            !.t1.cnt = IF timer.load \/ timer.out THEN timer.tal ELSE (@ - 1) % Word,
            !.t1.out = ~(timer.load \/ timer.out) /\ timer.cnt = 0,
            !.t1.load = FALSE,
            !.t1.armed = @ /\ (timer.out /\ ~timer.load => "FREE" \in x.acr)]
    IN  IF timer.out /\ timer.armed /\ ~timer.load THEN Raise(counted, "T1", t) ELSE counted

Count2(x, t) ==
    LET timer == x.t2
        ends == timer.cnt = 0 /\ timer.armed /\ ~timer.load /\ ~timer.pulse
        counted == [x EXCEPT
            !.t2.cnt = IF timer.load \/ timer.pulse THEN @ ELSE (@ - 1) % Word,
            !.t2.load = FALSE, !.t2.armed = @ /\ ~ends, !.t2.pulse = "PULSE" \in x.acr]
    IN  IF ends THEN Raise(counted, "T2", t) ELSE counted

-----------------------------------------------------------------------------
(* The registers.                                                           *)

(* viacore_reset leaves the registers of the latches alone.                 *)
ChipReset(latch1, latch2, t1, t2) ==
    [latch1 |-> latch1, latch2 |-> latch2, acr |-> {}, ifr |-> {}, ier |-> {},
     irq |-> Released, t1 |-> t1, t2 |-> t2]
ViaReset(latch1, latch2, t) ==
    ChipReset(latch1, latch2, [tal |-> Word - 1, tau |-> t, tai |-> 0],
              [cl |-> Base - 1, ch |-> Base - 1, tbu |-> t, tbi |-> 0])
ExactReset(latch1, latch2) ==
    ChipReset(latch1, latch2,
              [tal |-> Word - 1, cnt |-> Word - 1, out |-> TRUE, load |-> FALSE, armed |-> FALSE],
              [cnt |-> Word - 2, load |-> FALSE, armed |-> FALSE, pulse |-> FALSE])

\* viacore_setup_context, but for a bit of the high latch of timer 1 that is 0
Init ==
    /\ now = SubMin
    /\ used \in {"T1", "T2"}
    /\ via = ViaReset(Word - 1, Base - 1, now) /\ exact = ExactReset(Word - 1, Base - 1)
    /\ bus = "free" /\ upset = {}

GuardMax == ClockMax - SubMin
GuardSub == GuardMax - SubMin

(* Bound: a time that nothing depends on any more                           *)
ForgetPull(c) == IF via.irq = exact.irq THEN [c EXCEPT !.irq.clk = 0] ELSE c

(* A cycle passes.  Alarms are called between opcodes.                      *)
Tick ==
    /\ ~AnyOverdue(via, now - MaxLag)
    /\ now <= GuardMax
    /\ now' = now + 1
    /\ bus' = "free"
    /\ via' = ForgetPull(via)
    /\ exact' = LET x == ForgetPull(exact) IN IF used = "T1" THEN Count1(x, now) ELSE Count2(x, now)
    /\ UNCHANGED <<used, upset>>

(* The cycle after an alarm is the first of an opcode.                      *)
Dispatch ==
    /\ bus # "data" /\ bus' = "fetch"
    /\ \/ via.t1.tai \in 1 .. now /\ via' = IntT1(via)
       \/ via.t2.tbi \in 1 .. now /\ via' = IntT2(via)
    /\ UNCHANGED <<now, exact, used, upset>>

\* Bound: what a program does with a timer that has met something is to start it.
UsesBus == bus = "free" /\ bus' = "data" /\ UNCHANGED <<now, used>>
Accesses == UsesBus /\ upset = {}

\* An access that does not look for an overdue alarm meets one.
Meets(c) == IF AnyOverdue(c, now) THEN upset \cup {"late"} ELSE upset

StoreT1L(lo) ==
    LET latch == ((via.latch1 \div Base) * Base) + lo
    IN  /\ used = "T1" /\ Accesses
        /\ via' = UpdateTal([via EXCEPT !.latch1 = latch], now)
        /\ exact' = [exact EXCEPT !.latch1 = latch, !.t1.tal = latch]
        /\ upset' = Meets(via)

\* The high byte is added to a latch that keeps its old one.
LatchHighAdded(hi) ==
    LET latch == (hi * Base) + via.latch1
    IN  /\ used = "T1" /\ Accesses
        /\ via' = Clear(UpdateTal([via EXCEPT !.latch1 = latch], now), {"T1"}, now + 1)
        /\ exact' = Clear([exact EXCEPT !.latch1 = latch, !.t1.tal = latch], {"T1"}, now + 1)
        /\ upset' = Meets(via)

StoreT1LH(hi) ==
    LET latch == (hi * Base) + (via.latch1 % Base)
    IN  /\ used = "T1" /\ Accesses
        /\ via' = Clear(UpdateTal([via EXCEPT !.latch1 = latch], now), {"T1"}, now + 1)
        /\ exact' = Clear([exact EXCEPT !.latch1 = latch, !.t1.tal = latch], {"T1"}, now + 1)
        /\ upset' = Meets(via)

\* A start overcomes what the timer has met, unless the line still shows it.
Restarted ==
    upset' = IF via'.ifr = exact'.ifr /\ via'.irq = exact'.irq THEN {} ELSE Meets(via)

StoreT1CH(hi) ==
    LET latch == (hi * Base) + (via.latch1 % Base)
        end == ClockAdd(now, latch + 2)
        loaded == [UpdateTal([via EXCEPT !.latch1 = latch], now) EXCEPT
                      !.t1.tau = end, !.t1.tai = end]
    IN  /\ used = "T1" /\ UsesBus
        /\ via' = Clear(loaded, {"T1"}, now + 1)
        /\ exact' = Clear([exact EXCEPT !.latch1 = latch, !.t1.tal = latch,
                               !.t1.load = TRUE, !.t1.armed = TRUE], {"T1"}, now + 1)
        /\ Restarted

StoreT2LL(lo) ==
    /\ used = "T2" /\ Accesses
    /\ via' = [via EXCEPT !.latch2 = lo] /\ exact' = [exact EXCEPT !.latch2 = lo]
    /\ UNCHANGED upset

StoreT2CH(hi) ==
    LET loaded == [via EXCEPT !.t2.cl = via.latch2, !.t2.ch = hi]
        started == IF "PULSE" \in via.acr THEN loaded ELSE StartT2(loaded, now)
    IN  /\ used = "T2" /\ UsesBus
        /\ via' = Clear(started, {"T2"}, now + 1)
        /\ exact' = Clear([exact EXCEPT !.t2.cnt = hi * Base + exact.latch2, !.t2.load = TRUE,
                               !.t2.armed = "PULSE" \notin exact.acr], {"T2"}, now + 1)
        /\ Restarted

StoreAcr(byte) ==
    LET changed == ("PULSE" \in via.acr) # ("PULSE" \in byte)
        updated == UpdateTal(via, now)
        stop == Counter2(via, now + 1)
        switched == CASE ~changed -> updated
                      [] changed /\ "PULSE" \in byte ->
                            [updated EXCEPT !.t2.cl = stop % Base, !.t2.ch = stop \div Base,
                                            !.t2.tbi = 0]
                      [] OTHER -> StartT2(updated, now)
        starts == changed /\ "PULSE" \notin byte
        stops == changed /\ "PULSE" \in byte
    IN  /\ Accesses /\ byte \subseteq (IF used = "T1" THEN {"FREE", "PB7"} ELSE {"PULSE"})
        /\ via' = [switched EXCEPT !.acr = byte]
        /\ exact' = [exact EXCEPT !.acr = byte, !.t1.tal = exact.latch1,
                                  !.t2.armed = (@ \/ starts) /\ ~stops]
        /\ upset' = Meets(via)

StoreIfr(mask) ==
    /\ Accesses
    /\ via' = Clear(via, mask, now + 1) /\ exact' = Clear(exact, mask, now + 1)
    /\ upset' = Meets(via)

StoreIer(mask, on) ==
    LET Enabled(c) == UpdateIrq([c EXCEPT !.ier = IF on THEN @ \cup mask ELSE @ \ mask], now + 1)
    IN  /\ Accesses
        /\ via' = Enabled(via) /\ exact' = Enabled(exact)
        /\ upset' = Meets(via)

(* A read of a counter's low byte, of IFR or of another of these registers  *)
Reads(cleared) ==
    /\ Accesses
    /\ via' = Clear(CatchUp(via, now), cleared, now) /\ exact' = Clear(exact, cleared, now)
    /\ upset' = Meets(CatchUp(via, now))

ReadTimer == Reads({used})
ReadIfr == Reads({})

(* A read of port B with PB7 as output of the timer                         *)
ReadPrb ==
    /\ "PB7" \in via.acr /\ Accesses
    /\ via' = UpdateTal(via, now)
    /\ exact' = [exact EXCEPT !.t1.tal = exact.latch1]
    /\ upset' = Meets(via)

Reset ==
    /\ via' = ViaReset(via.latch1, via.latch2, now)
    /\ exact' = ExactReset(via.latch1, via.latch2)
    /\ upset' = {}
    /\ UNCHANGED <<now, used, bus>>

(* viacore_clk_overflow_callback.  A timer 1 that nobody has looked at for  *)
(* so long has a tau that is before the time moved back by.                 *)
Guard ==
    /\ now >= GuardMax
    /\ now' = now - GuardSub
    /\ LET Back(c) == IF c.irq.clk > GuardSub THEN [c EXCEPT !.irq.clk = @ - GuardSub]
                      ELSE [c EXCEPT !.irq.clk = 0]
           Moved(alarm) == IF alarm = 0 THEN 0 ELSE ClockSub(alarm, GuardSub)
       IN  /\ \/ /\ used = "T1"
                 /\ via' = [Back(via) EXCEPT !.t1.tau = ClockSub(@, GuardSub), !.t1.tai = Moved(@)]
              \/ /\ used = "T2"
                 /\ via' = [Back(via) EXCEPT !.t2.tbu = ClockSub(@, GuardSub), !.t2.tbi = Moved(@)]
           /\ exact' = Back(exact)
    /\ upset' = IF used = "T1" /\ via.t1.tau < GuardSub THEN upset \cup {"stale"} ELSE upset
    /\ UNCHANGED <<used, bus>>

Next ==
    \/ Tick \/ Dispatch
    \/ \E b \in Bytes : StoreT1L(b) \/ StoreT1LH(b) \/ StoreT1CH(b) \/ StoreT2LL(b) \/ StoreT2CH(b)
    \/ \E byte \in Controls : StoreAcr(byte)
    \/ StoreIfr({used}) \/ \E on \in BOOLEAN : StoreIer({used}, on)
    \/ ReadTimer \/ ReadIfr \/ ReadPrb
    \/ Reset \/ Guard

Spec == Init /\ [][Next]_vars

-----------------------------------------------------------------------------
(* What a program can find out: the timer it uses, and the flags.           *)
Seen(c, clk) ==
    <<IF used = "T1" THEN Counter1(c, clk) ELSE Counter2(c, clk), c.ifr>>
Counted == <<IF used = "T1" THEN exact.t1.cnt ELSE exact.t2.cnt, exact.ifr>>

(* Whenever the program reads a counter or the flags, they are those of the *)
(* chip that counts.  (Here an opcode may be longer than a timer's period:  *)
(* a read calls one overdue alarm of each.)                                 *)
LazyIsExact ==
    LET read == CatchUp(via, now)
    IN  bus = "free" /\ upset = {} /\ ~AnyOverdue(read, now) => Seen(read, now) = Counted

(* When no alarm is overdue the line is as that chip pulls it, since the same   *)
(* cycle.                                                                   *)
IrqOnTime ==
    bus = "free" /\ upset = {} /\ ~AnyOverdue(via, now) =>
        via.irq = exact.irq
=============================================================================
