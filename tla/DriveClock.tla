----------------------------- MODULE DriveClock -----------------------------
(***************************************************************************)
(* How the disk drives' CPUs keep step with the main CPU                    *)
(* (src/vice/src/drive/drivecpu.c, drive.c, clkguard.c).  The drives are    *)
(* not run together with the main CPU: a drive is run when the C64 touches  *)
(* the serial line or at the end of a frame, for as many ticks of its own   *)
(* clock as correspond to the main CPU cycles since it last ran.  Both      *)
(* clocks are unsigned counters that a clock guard moves back before they   *)
(* overflow.                                                                *)
(*                                                                         *)
(* Each drive carries, beside the program's fields, what really happened:   *)
(* lag, the main CPU cycles since it last ran; ahead, the ticks it executed *)
(* beyond those that correspond to the main CPU cycles it was run for;      *)
(* robbed, whether its last wake-up gave up a lag that was not a long one;  *)
(* and upset, what has happened since its last start that it is known not   *)
(* to take well: its own clock guard ("guard"), a reset of it alone         *)
(* ("reset"), the main CPU's clock guard while a drive slept ("asleep"),    *)
(* which it had come through before that drive ("crossed"), and a lag of    *)
(* more than half the range of its clock ("overslept").                     *)
(*                                                                         *)
(* Bounds: LagCap, AheadCap, MainHorizon and DriveHorizon stop the main     *)
(* CPU; a run sets those it does not need out of reach.                     *)
(***************************************************************************)
EXTENDS Integers

CONSTANTS
    Modulus,       \* clock values: 2^32 in the program
    SubMin,        \* CLKGUARD_SUB_MIN
    FrameLen,      \* main CPU cycles of a frame, clk_base of the main CPU's guard
    NumDrives,     \* DRIVE_NUM
    Sync, One,     \* drive ticks per main CPU cycle: sync_factor / 65536
    WakeLag,       \* drivecpu_wake_up: 0xffffff cycles
    WakeTicks,     \* drivecpu_wake_up: 934639 ticks
    ResetClk,      \* ticks of the reset sequence
    MaxStep,       \* ticks by which one step of the CPU may overrun
    IdleMethods,   \* the idle methods in use: SKIP_CYCLES, TRAP_IDLE, NO_IDLE
    Commands,      \* what the user does: "toggle" true drive emulation,
                   \* "method" (change the idle method), "reset" (one drive)
    LagCap, AheadCap, MainHorizon, DriveHorizon

ASSUME DriveClockAssumption ==
    /\ {Modulus, FrameLen, NumDrives, Sync, One} \subseteq Nat \ {0}
    /\ {SubMin, WakeLag, WakeTicks, ResetClk, MaxStep} \subseteq Nat
    /\ 3 * SubMin <= Modulus - 1 - SubMin      \* clk_guard_init
    /\ ResetClk <= MaxStep
    /\ (Sync * FrameLen) \div One + MaxStep <= SubMin
    /\ FrameLen <= SubMin
    /\ IdleMethods \subseteq {"SKIP_CYCLES", "TRAP_IDLE", "NO_IDLE"}
    /\ Commands \subseteq {"toggle", "method", "reset"}

VARIABLES
    main,      \* maincpu_clk
    frame,     \* main CPU cycles since the last end of frame
    drive      \* the drives

vars == <<main, frame, drive>>

Clock == 0 .. (Modulus - 1)
Drives == 1 .. NumDrives

DriveStates ==
    [enable : BOOLEAN, idle : IdleMethods, reset : BOOLEAN,
     clk : Clock, stop : Clock, accum : 0 .. (One - 1), last : Clock,
     lag : Nat, ahead : Int, robbed : BOOLEAN,
     upset : SUBSET {"guard", "reset", "asleep", "crossed", "overslept"}]

TypeOK ==
    /\ main \in Clock
    /\ frame \in 0 .. FrameLen
    /\ drive \in [Drives -> DriveStates]

\* Mutant of Plus: a CLOCK that is wider than 32 bits.
PlusWide(t, n) == t + n

Plus(t, n) == (t + n) % Modulus
Minus(t, n) == (t - n) % Modulus

\* (int)(a - b) < 0 in two's complement
Before(a, b) == 2 * Minus(a, b) >= Modulus

-----------------------------------------------------------------------------
(* The clock guard, the same for the main CPU and the drives, but that the  *)
(* main CPU's clock is moved by whole frames.                               *)
GuardMax == Modulus - 1 - SubMin
GuardSub(clk) == IF clk < GuardMax THEN 0 ELSE GuardMax - SubMin
MainSub(clk) == (GuardSub(clk) \div FrameLen) * FrameLen

-----------------------------------------------------------------------------
(* Mutant of Sleepy: a drive gives up after half the time.                  *)
SleepySoon(d, now) == 2 * Minus(now, d.last) > WakeLag /\ d.clk > WakeTicks

(* drivecpu_wake_up: a drive that slept for too long gives the cycles up.   *)
Sleepy(d, now) == Minus(now, d.last) > WakeLag /\ d.clk > WakeTicks

WakeUp(d, now) ==
    IF Sleepy(d, now)
    THEN [d EXCEPT !.last = now, !.lag = 0, !.robbed = d.lag \in 1 .. WakeLag]
    ELSE [d EXCEPT !.robbed = FALSE]

(* The loop of drivecpu_execute runs CPU steps until the stop clock; the    *)
(* last one may overrun it.  A pending reset is served by the first step,   *)
(* which sets the drive's clock to 6.  Result: the clock, whether a reset   *)
(* is still pending, the ticks executed.                                    *)
RunTo(d, stop, overrun) ==
    LET end == Plus(stop, overrun)
    IN  IF ~Before(d.clk, stop) THEN <<d.clk, d.reset, 0>>
        ELSE IF ~d.reset THEN <<end, FALSE, Minus(end, d.clk)>>
        ELSE IF Before(ResetClk, stop) THEN <<end, FALSE, end>>
        ELSE <<ResetClk, FALSE, ResetClk>>

(* drivecpu_execute(drv, value), with maincpu_clk = now.                    *)
Execute(d, now, value, overrun) ==
    LET w == WakeUp(d, now)
        cycles == IF value > w.last THEN value - w.last ELSE 0
        ticks == (w.accum + Sync * cycles) \div One
        due == (w.accum + Sync * w.lag) \div One
        stop == Plus(w.stop, ticks)
        ran == RunTo(w, stop, overrun)
        upset == w.upset \cup (IF 2 * due > Modulus THEN {"overslept"} ELSE {})
    IN  [w EXCEPT !.stop = stop,
                  !.accum = (@ + Sync * cycles) % One,
                  !.clk = ran[1], !.reset = ran[2],
                  !.last = value,
                  !.lag = 0,
                  !.ahead = IF upset \subseteq {"asleep"} THEN @ + ran[3] - due ELSE 0,
                  !.upset = upset]

(* drive_cpu_execute_all.                                                   *)
ExecuteAll(ds, now, value, overrun) ==
    [i \in Drives |-> IF ds[i].enable
                      THEN Execute(ds[i], now, value, overrun[i]) ELSE ds[i]]

(* The way by which a drive that slept is brought up to the clock before it *)
(* was moved back: all drives are run, also those whose last_clk has been   *)
(* moved already, and they look at the clock that has been moved.           *)
CatchUp(ds, i, now, sub, overrun) ==
    LET ran == ExecuteAll(ds, now, Plus(now, sub), overrun)
    IN  [j \in Drives |->
            IF ds[j].enable
            THEN [ran[j] EXCEPT !.upset = @ \cup {"asleep"} \cup
                                          (IF j < i THEN {"crossed"} ELSE {})]
            ELSE ds[j]]

(* drivecpu_prevent_clk_overflow for drive i, after the main clock has been *)
(* moved back by sub to now; then the drive's own clock guard, whose        *)
(* callbacks move everything the drive keeps in its own time, but not its   *)
(* stop clock.                                                              *)
PreventOverflow(ds, i, now, sub, overrun) ==
    LET synced == IF sub = 0 THEN ds
                  ELSE IF ~ds[i].enable THEN [ds EXCEPT ![i].last = now]
                  ELSE [(IF ds[i].last < sub THEN CatchUp(ds, i, now, sub, overrun) ELSE ds)
                           EXCEPT ![i].last = Minus(@, sub)]
        guards == GuardSub(synced[i].clk) # 0
    IN  [synced EXCEPT ![i].clk = Minus(@, GuardSub(@)),
                       ![i].upset = IF guards THEN @ \cup {"guard"} ELSE @]

(* Mutant of PreventOverflowAll: the drives are not told of the main CPU's  *)
(* overflow.                                                                *)
PreventOverflowOwn(ds, now, sub, overrun) ==
    LET after[i \in 0 .. NumDrives] ==
            IF i = 0 THEN ds ELSE PreventOverflow(after[i - 1], i, now, 0, overrun)
    IN  after[NumDrives]

PreventOverflowAll(ds, now, sub, overrun) ==
    LET after[i \in 0 .. NumDrives] ==
            IF i = 0 THEN ds ELSE PreventOverflow(after[i - 1], i, now, sub, overrun)
    IN  after[NumDrives]

(* drive_vsync_hook: all but the skipping drives are run at the end of      *)
(* every frame.                                                             *)
VsyncHook(ds, now, overrun) ==
    [i \in Drives |-> IF ds[i].enable /\ ds[i].idle # "SKIP_CYCLES"
                      THEN Execute(ds[i], now, now, overrun[i]) ELSE ds[i]]

(* Mutant of ResetClocks: the stop clock of the past life survives.         *)
ResetClocksKeepStop(d, now) ==
    [d EXCEPT !.clk = 0, !.last = now, !.reset = TRUE,
              !.lag = 0, !.ahead = 0, !.robbed = FALSE, !.upset = {}]

(* drivecpu_reset: a new start at clock 0 with a reset to serve.            *)
ResetClocks(d, now) ==
    [d EXCEPT !.clk = 0, !.stop = 0, !.last = now, !.reset = TRUE,
              !.lag = 0, !.ahead = 0, !.robbed = FALSE, !.upset = {}]

-----------------------------------------------------------------------------
Overruns == [Drives -> 0 .. MaxStep]

Init ==
    /\ main = ResetClk /\ frame = 0
    /\ \E e \in [Drives -> BOOLEAN], m \in [Drives -> IdleMethods] :
           drive = [i \in Drives |->
               [enable |-> e[i], idle |-> m[i], reset |-> TRUE,
                clk |-> 0, stop |-> 0, accum |-> 0, last |-> ResetClk,
                lag |-> 0, ahead |-> 0, robbed |-> FALSE, upset |-> {}]]

(* The main CPU runs n cycles without touching the serial line.             *)
Run(n) ==
    /\ frame + n <= FrameLen
    /\ main + n <= MainHorizon
    /\ \A i \in Drives : drive[i].enable =>
           /\ drive[i].lag + n <= LagCap
           /\ drive[i].ahead \in -AheadCap .. AheadCap
           /\ drive[i].clk <= DriveHorizon
    /\ main' = Plus(main, n)
    /\ frame' = frame + n
    /\ drive' = [i \in Drives |-> IF drive[i].enable
                                  THEN [drive[i] EXCEPT !.lag = @ + n]
                                  ELSE drive[i]]

(* The main CPU reads or writes the serial port.                            *)
SerialAccess ==
    /\ \E overrun \in Overruns : drive' = ExecuteAll(drive, main, main, overrun)
    /\ UNCHANGED <<main, frame>>

(* machine_vsync_hook: the drives' hook, the main CPU's clock guard, then   *)
(* the drives' share of it.                                                 *)
Vsync ==
    /\ frame = FrameLen
    /\ frame' = 0
    /\ LET sub == MainSub(main)
       IN  /\ main' = main - sub
           /\ \E overrun, again \in Overruns :
                  drive' = PreventOverflowAll(VsyncHook(drive, main, overrun),
                                              main - sub, sub, again)

(* machine_reset, from cpu_reset of the main CPU.                           *)
MachineReset ==
    /\ main' = ResetClk /\ frame' = 0
    /\ drive' = [i \in Drives |-> ResetClocks(drive[i], ResetClk)]

(* set_drive_true_emulation: the drives stop.                               *)
TrueDriveOff ==
    /\ "toggle" \in Commands
    /\ drive' = [i \in Drives |->
                    [drive[i] EXCEPT !.enable = FALSE, !.lag = 0]]
    /\ UNCHANGED <<main, frame>>

\* A reset of the drive that is still to be served upsets the next life, too.
Unserved(d) == IF d.reset THEN d.upset \cap {"reset"} ELSE {}

(* Mutant of TrueDriveOn: drive_enable does not resync the stop clock.      *)
TrueDriveOnNoResync ==
    /\ "toggle" \in Commands
    /\ drive' = [i \in Drives |->
                    [drive[i] EXCEPT !.enable = TRUE, !.last = main,
                                     !.stop = 0, !.lag = 0,
                                     !.ahead = 0, !.robbed = FALSE,
                                     !.upset = Unserved(drive[i])]]
    /\ UNCHANGED <<main, frame>>

(* set_drive_true_emulation: the drives start afresh from where their       *)
(* clocks stand (drivecpu_reset_clk, then drive_enable).                    *)
TrueDriveOn ==
    /\ "toggle" \in Commands
    /\ drive' = [i \in Drives |->
                    [drive[i] EXCEPT !.enable = TRUE, !.last = main,
                                     !.stop = drive[i].clk, !.lag = 0,
                                     !.ahead = 0, !.robbed = FALSE,
                                     !.upset = Unserved(drive[i])]]
    /\ UNCHANGED <<main, frame>>

SetIdleMethod(i, method) ==
    /\ "method" \in Commands
    /\ drive' = [drive EXCEPT ![i].idle = method]
    /\ UNCHANGED <<main, frame>>

(* drivecpu_trigger_reset: the monitor's "reset 8" and the menus of the     *)
(* user interfaces.                                                         *)
ResetDrive(i) ==
    /\ "reset" \in Commands
    /\ drive' = [drive EXCEPT ![i].reset = TRUE, ![i].upset = @ \cup {"reset"}]
    /\ UNCHANGED <<main, frame>>

Next ==
    \/ \E n \in 1 .. FrameLen : Run(n)
    \/ SerialAccess
    \/ Vsync
    \/ MachineReset
    \/ TrueDriveOff
    \/ TrueDriveOn
    \/ \E i \in Drives, method \in IdleMethods : SetIdleMethod(i, method)
    \/ \E i \in Drives : ResetDrive(i)

Spec == Init /\ [][Next]_vars

-----------------------------------------------------------------------------
(* A drive's last_clk is the main CPU clock it was last run up to, also     *)
(* after the main CPU's clock guard moved that clock back                   *)
(* (drivecpu.c:261-275); but for a drive that is run once more when one     *)
(* behind it in the list has slept (drive.c:506).                           *)
LastClkTrue ==
    \A i \in Drives : drive[i].enable /\ "crossed" \notin drive[i].upset =>
        drive[i].last = Minus(main, drive[i].lag)

(* A drive never executes more ticks than correspond to the main CPU cycles *)
(* it is run for, but for the overrun of its last CPU step or the reset     *)
(* sequence (drivecpu.c:367-368: "Execute up to the current main CPU clock value.    *)
(* This automatically calculates the corresponding number of clock ticks in *)
(* the drive").                                                             *)
Steady(d) == d.enable /\ d.upset = {}

NeverAhead == \A i \in Drives : Steady(drive[i]) => drive[i].ahead <= MaxStep

(* Nor fewer: a drive that is run has caught up with the main CPU.          *)
NeverBehind == \A i \in Drives : Steady(drive[i]) => drive[i].ahead >= 0

(* Only a drive that slept longer than WakeLag loses cycles.                *)
OnlyLongSleepSkips == \A i \in Drives : Steady(drive[i]) => ~drive[i].robbed

(* drivecpu.c:264-265, of a drive that has slept when the main CPU's clock  *)
(* is moved back: "First, get in sync with what the main CPU has done."     *)
NeverAheadAsleep ==
    \A i \in Drives : drive[i].enable /\ drive[i].upset \subseteq {"asleep"} =>
        drive[i].ahead <= MaxStep + ResetClk
=============================================================================
