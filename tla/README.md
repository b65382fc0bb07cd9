# A TLA+ model of VICE (libretro port)

The repository is VICE, an emulator of Commodore's 8-bit computers, behind a
libretro front end. An emulator is a concurrent system in disguise: one thread
of C code imitates a dozen chips and up to four disk drives with CPUs of their
own that in the real machine all run at once. Everything that could be wrong
about that imitation is a matter of order and of time: which chip is called
first, up to when it has been run, when an interrupt becomes visible, and what
happens to all those clocks when the counter that carries them is moved back
before it overflows. This project models that core.

Paths below are relative to `src/vice/src/` unless they begin with `src/`.

## 1. How the emulator works

There is one thread. `retro_run` (`src/libretro/libretro-core.c`) calls
`maincpu_mainloop_retro` (`maincpu.c`) until the end of a frame has set a flag.
That loop includes `6510core.c` once per opcode:

    PROCESS_ALARMS      call every alarm whose time has come        alarm.h
    DO_INTERRUPT        look at the interrupt status; enter an NMI
                        or IRQ; PROCESS_ALARMS in the middle of it;
                        call a trap function; serve a reset         interrupt.h
    PROCESS_ALARMS
    the opcode          which may access a chip's registers

Everything that happens by itself (a timer underflow, the end of a frame) is an
*alarm*: a chip asks to be called at a clock. Everything else is *lazy*: a chip
or a drive is brought up to date when the CPU touches it. Clocks are unsigned
32-bit counters of cycles (`CLOCK`, `arch/libretro/types.h`). A *clock guard*
(`clkguard.c`) moves a CPU's clock back when it nears the end of the range, and
every user of that clock has to move what it derived from it.

### Inventory

For each part: its state; its operations; how it interacts; what is hard; what
would make it correct; where it is modelled.

**Alarm contexts** (`alarm.c`, `alarm.h`). A table of pending alarms in no
order, filled from the front, with the index of each alarm in the alarm and the
earliest clock and its index cached. Operations: new, destroy, set, unset,
dispatch, time warp. Used by the main CPU and every drive; callbacks set and
unset alarms while the dispatcher runs. Hard: five cases of updating the cache;
removal moves the last entry into the hole; a full table refuses. Correct if
it behaves as a set of due times. *Modelled completely, refinement proved.*

**Interrupt status** (`interrupt.h`, `interrupt.c`). For every source what it
pulls; counters of sources per wire; the flags the CPU polls; since when each
wire is low; a window in which a released IRQ is still taken; trap and reset
requests. Operations: set or release a line, acknowledge, expire, trap, reset,
monitor, warp. Hard: counters kept in step with bits by hand; repeated sets;
the NMI is an edge; a warp while a release is pending. Correct if it behaves as
two open-collector wires and a latch. *Modelled but for line numbers, snapshot
and the log of stolen cycles; refinement proved.*

**Main CPU loop** (`6510core.c`, `maincpu.c`; C64 hooks in `c64/c64.c`,
`machine.c`). Clock, I flag, last opcode's kind, and the place in the loop.
Hard: alarms are called at five places, also in the middle of an interrupt
entry and of a BRK, where a line may change, the clock may be moved back or a
frame may end; delays of interrupts by branches, CLI, SEI, BRK; a trap or reset
from a hook. Correct if no alarm waits for an opcode, no interrupt waits too
long or is taken by the wrong vector, and frames go on. *Modelled but for what
opcodes compute, stolen cycles, JAM, the monitor and DMA hosts.*

**CIA** (`core/ciacore.c`, `core/ciatimer.h`). Two timers with latches, control
registers, a pipeline of delays, interrupt flags and mask, time of day, serial
register, ports. Registers are accessed by the CPU, an alarm per timer calls
back, the interrupt line goes to the interrupt status. Hard: the timer is lazy,
skips cycles by arithmetic and leaves out alarms that nobody would notice; reads
of ICR race underflows; three copies of a clock to move in the right order.
Correct if a program cannot tell it from a chip that runs every cycle. *Timer A
of both chip models, its registers and interrupt and the FLAG pin are modelled.*

**VIA, TPI** (`core/viacore.c`, `core/tpicore.c`). The VIA's two timers do not
count: the code keeps when they will reach their end and computes the counters
when they are read. Hard: the clocks must be brought up to date before a latch
changes, accesses come after the end of a timer and before its alarm is called,
the guard moves clocks that are long past. Correct if a program cannot tell it
from a chip that counts. *The VIA's timers, flags and interrupt are modelled; the
TPI keeps no time.*

**Drive CPUs** (`drive/drivecpu.c`, `drive/drive.c`, `drivesync.c`,
`drive-overflow.c`). Per drive a clock, the clock it is to be run up to, the
main clock it was last run up to, a fraction. Run on serial accesses and, by
idle method, at the end of frames. Hard: two clocks with a guard each; a drive
may sleep for long; drives run each other; resets. Correct if a drive executes
exactly the ticks that correspond to the main CPU's cycles. *Clocks modelled.*

**Clock guard** (`clkguard.c`). A list of callbacks, newest first. Decision and
amount are in every model that has a clock; the order of the callbacks matters
to the CIA (see 5). *Modelled where it bites.*

**Event history** (`event.c`). A list of events with clocks, a cursor, an alarm
that plays the next event, two modes, milestones. Recorded by whatever the user
does, by the clock guard and by resets; played from the snapshot that was saved
first. Hard: the clocks of the list are in times that the guard and resets begin
anew; an event may be due in the same cycle as the guard; a milestone goes back
in machine and list. Correct if what is played happens to the machine when it
happened in the recording. *Modelled but for images and the network's list.*

**Network play** (`network.c`). Two emulators: a mode, a socket, a ring of event
lists per side, a trap for everything that has to be done between opcodes. Hard:
each waits for the other in a frame's hook; lists are sent in one frame and
played in a later one; the connection breaks anywhere, which is an error to both
sides, or is closed by one of them, which the other does not notice while it
waits; suspension. Correct if both machines play the same inputs in the same
frame, in the same order, and neither waits without end. *Modelled completely
(sockets are an unreliable stream), refinement proved; the last does not hold.*

**Keyboard buffer and autostart** (`kbdbuf.c`, `autostart.c`). A queue of keys
fed into the machine's own buffer once a frame with an alarm that holds back
RETURN, and a state machine over frame hooks and traps that types commands and
restores settings. Hard: giving up or resetting half way, settings that are never
restored, callbacks and keys of an earlier program. Correct if a program is run
and the user's settings come back. *Keyboard buffer modelled; autostart modelled
but for the run mode, the C128's 40/80 key and what injecting writes.*

**Keyboard and joystick latches** (`keyboard.c`, `joyport/joystick.c`). Input
waits in a latch for an alarm at a random clock of the next frame. *Not modelled.*
It meets what is modelled as an alarm, as an event and as what network play
exchanges; the latch itself, one port and one delay, is among the hazards.

**IEC bus** (`iecbus/iecbus.c`, `serial/`). Wired-and lines: functions of what
each side drives at present. *Not modelled*: that the drive has caught up with
the clock of an access is DriveClock's subject.

**Datasette** (`datasette.c`): motor, counter and an alarm that reads the next
pulse from a file. **Flash, EEPROM, ACIA** (`core/flash040core.c`,
`core/ser-eeprom.c`, `core/m93c86.c`, `aciacore.c`): state machines on bus
writes, each testable by itself, with an alarm for the end of an erasure.
**Virtual drive and disk images** (`vdrive/`, `diskimage/`, `fsdevice/`): formats
and host file systems, sequential code on bytes. **Fliplist, attachments**
(`fliplist.c`, `attach.c`): a ring list with a cursor. *Not modelled.*

**Drive mechanics** (`drive/rotation.c`, `gcr.c`). Arithmetic on bit streams.
*Not modelled.* **Snapshots, resources, command line** (`snapshot.c`,
`resources.c`): serialisation and tables; in this port `retro_serialize` is a
stub. *Not modelled.* **Vsync, sound, video, raster**: real time, samples,
pixels. *Not modelled.* **Video and sound chips** (`vicii/`, `sid/`, `vic20/`,
`crtc/`, `vdc/`): cycle tables; they appear in MainCpu as alarms, lines and the
end of the frame. *Not modelled otherwise.* **Monitor**: interactive; its bits
in the interrupt status are modelled. **Cartridges and expansions** (`c64/cart/`):
dozens of memory maps. *Not modelled.* **Other machines** (`c128/`, `vic20/`,
`plus4/`, `pet/`, `cbm2/`): they share what is modelled here. **Libretro front
end** (`src/libretro/`, `arch/libretro/`): calls the main loop, collects input
and output. **Other user interfaces, `lib/`, libretro-common, resid**:
third-party or platform code.

## 2. Modules

| module | models | form |
|---|---|---|
| Clocks | the CLOCK type | operators |
| AlarmContext | `alarm.c`, `alarm.h`, one operator per function | data type |
| AlarmTable | a context in use, one action per call | state machine |
| AlarmQueue | what a context promises: due times | abstract specification |
| MCAlarmTable | symmetry for TLC | model values |
| InterruptStatus | `interrupt.h`, `interrupt.c`, one operator per function | data type |
| InterruptLines | a status in use, one action per call | state machine |
| InterruptWires | what a status promises: two wires and a latch | abstract specification |
| CpuInputsProofs | theorems about AlarmTable and InterruptLines | proofs |
| MainCpu | the CPU loop with InterruptStatus and due times | state machine |
| MCMainCpu | symmetry for TLC | model values |
| MainCpuProofs | theorems about MainCpu: clocks, alarms, how long interrupts wait | proofs |
| CiaTimer | `ciatimer.h`: the timer, exact and lazy | data type |
| CiaTimerA | `ciacore.c` around timer A, exact chip beside lazy chip | state machine |
| CiaProofs | theorems about CiaTimerA, lemmas about CiaTimer | proofs |
| Via | `viacore.c`: both timers, counting chip beside computing chip | state machine |
| ViaProofs | theorems about Via | proofs |
| DriveClock | `drivecpu.c`, `drive.c`: the drives' clocks | state machine |
| DriveClockProofs | theorems about DriveClock | proofs |
| Netplay | `network.c`: two emulators and what is on its way | state machine |
| DelayedInputs | what network play promises | abstract specification |
| MCNetplay | who controls what, the budgets | values for TLC |
| NetplayProofs | theorems about Netplay | proofs |
| EventHistory | `event.c`: recording, milestones, playback | state machine |
| MCEventHistory | the budgets | values for TLC |
| EventHistoryProofs | theorems about EventHistory | proofs |
| Kbdbuf | `kbdbuf.c`, one operator per function | data type |
| Autostart | `autostart.c` with Kbdbuf, a KERNAL and a user | state machine |
| MCAutostart | delays and media | values for TLC |
| AutostartProofs | theorems about Autostart | proofs |

**AlarmContext, AlarmTable, AlarmQueue.** A context is a record of the fields of
`alarm_context_t`: `num`, `slot` (all slots, used or not), `idx` (each alarm's
`pending_idx`), `nextClk`, `nextIdx`. AlarmTable calls the functions in any
order. The guards of `Dispatch` and `Warp` are the callers' rules: the CPU
dispatches only when its clock has reached the next one, a callback moves its
alarm on or unsets it, the guard never moves a clock below zero. AlarmQueue
knows only `due`; the refinement maps `due` to the clock of the slot that the
alarm's index names.

**InterruptStatus, InterruptLines, InterruptWires.** A status is the record
`interrupt_cpu_status_t`: `pending` per line, `nirq`, `nnmi`, `global` (the bits
of `global_pending_int`), `irqClk`, `nmiClk`, `irqPendingClk`, `trap`. The
variable `released` is history: when the IRQ wire was last released. InterruptWires
has the sets of sources that pull a wire, the wire, and the latch.

**MainCpu.** `at` is the place in the loop: `start` (before DO_INTERRUPT),
`entry` (in the middle of an interrupt entry), `traps` (its second part),
`after`, `opcode`, `access` (an opcode has reached a register), `brk` (in the
middle of a BRK). At `start`, `entry`, `after` and `brk` alarms are called
first (`CallChip`, `CallFrame`); at `access` the video chip calls its own.
`CallFrame` is the vsync hook: two hooks may ask for a trap each, as
`network_hook` and `autostart_advance` do, the user may ask for a reset, the
clock guard moves everything. `irqWait`, `nmiWait` and `owed` are history; `irqWait` begins anew when
another chip pulls the wire, as the code's delay does (see 5). Chips
are alarms with a line: whatever a chip does with its alarm and its lines is a
nondeterministic choice. The alarm context appears as its abstraction, which
AlarmTable's refinement justifies.

**CiaTimer, CiaTimerA.** A timer's `flags` are the bits of `state`; `Shifted` is
the table that `ciat_init_table` computes; `Exact` is one cycle; `Update` is
`ciat_update` with its four loops as rounds that skip what they can. CiaTimerA
holds two chips: `cia`, as the code does it, and `exact`, updated by `Exact` in
every cycle and never depending on an alarm. Both get the same register
accesses; whether they are a 6526 or a 6526A is chosen at the beginning. The
properties compare what a program can see of them.

**Via.** Again two chips. `via` has `tau`, `tbu`, `tai`, `tbi`, `tal`, as the
code; `exact` has counters that go down in every cycle. `bus` says what the bus
cycle has been used for: at most one access, and a due alarm is called before the
next opcode, `MaxLag` cycles late at most. The code does not survive two things
(hazards `viacore.c:358` and `viacore.c:1022`): they mark the timer in `upset`, and
nothing is claimed of it until it is started again.

**DriveClock.** A drive has the fields `clk`, `stop`, `accum`, `last`, `idle`,
`enable`, and as history `lag` (main cycles since it ran, as really passed),
`ahead` (ticks executed beyond those due), `robbed` and `upset`. `Vsync` is
`machine_vsync_hook`: the drives' hook, the main CPU's guard, which moves the
clock by whole frames (`MainSub`), the drives' share of it for drive after drive,
then each drive's own guard. `upset` names five situations the code does not take
well: the drive's own guard, a reset of it alone, the main guard striking while it
slept, or while a drive behind it in the list did ("crossed": it is run once more
after its `last_clk` has been moved), and a sleep of more than half the range of
its clock ("overslept": the code compares the clocks with a sign).

**Netplay, DelayedInputs.** Every variable but the connection is a function of
the side. `at` is the place in the program: `run` (it emulates), `receive` (it
waits in `network_hook_connected_receive`), and the waits of the handshake. The
hook is two actions, `Send` and one of the `Receive...`, because the other side
may act between; a trap (`SyncTest`, `OtherTrap`) is a step between hooks and may
be lost. `wire[s]` is what is on its way to s: `Break` stops the connection and
`Lose` loses what is still on its way, all of it, before or after some of it has
been received; who waits then gets an error (`ReceiveFails`, `ReceiveHalf`,
`HandshakeFails`). A connection may also end by a side's closing it
(`Disconnect`: from the menu, out of sync, by an error, or with the program).
`Farewell` says what the other side will notice: where something it sent was
left unread, and where it was never accepted, an error may come or must; else the
connection is `hungUp`. What was sent before still arrives, then recv gives 0,
for which `network_recv_buffer` asks again, so that the actions of a failing
receive are not enabled and the side stays where it is. `Break` after that is a
connection whose error arrives late. `Drift` stands
for what changes one machine and not the other. `made` and `applied` are history
and are the variables of DelayedInputs, which says that the machine at s gets in
its k-th frame what both players did in their k-th, the server's before the
client's on both machines (`InOrder`), Delay frames after the frame
was begun. Its `Restart` covers a new connection.

**EventHistory.** `machine` is what a snapshot saves: the clock, the position in
the frame, and as history the cycles since the beginning and what was done when.
`Tick`, `Guard` and `ServeReset` are the machine's steps; `PlayEvent`, `PlayReset`,
`PlayEnd` and `StampAlarm` are the alarm's; the rest are the user's. Recordings
that the code is known not to play back are marked with one of five reasons in
`upset`: an action while a reset is asked for ("hurry"), an event in the cycle of
the guard ("tie"), an end snapshot that belongs to an earlier recording than the
start snapshot ("stale"), recording begun during playback ("both"), playback stopped in front of a reset ("stopped").

**Kbdbuf, Autostart.** `kbd` is the queue, the KERNAL's buffer and the alarm of
`kbdbuf.c`. `Frame` is the end of a frame, `machine_vsync_hook`: the keyboard
buffer is flushed and `autostart_advance` does what its mode calls for (one
operator `Advance...` per mode); `AlarmFires` types RETURN; `ServeReset` is
`autostart_reset` in the middle of a machine's reset. The KERNAL is external: what
it shows, the line that is typed, whether a program is in memory. The user
autostarts, resets, changes settings, types LOAD himself. `wanted` is what the
user set, as history; `upset` collects the situations the code does not take well
(an autostart during an autostart, a disk without traps, keys, settings or
callbacks left from an earlier one) and a file that was not found; each property
names those it exempts.

How the modules meet: MainCpu is the composition of the interrupt status with the
alarms and the frame hook; AlarmTable's refinement justifies that all others know
an alarm as a due time only; Autostart and Netplay run in the hook that
MainCpu's `CallFrame` calls, and both ask for traps of the one kind there is room
for (main_cpu_traps).

## 3. Runs

| run | asks | bounds |
|---|---|---|
| alarm_table | table and cache consistent, implements AlarmQueue | 4 alarms, 3 slots, 4 clock values, symmetry |
| interrupt_lines | counters, release window, implements InterruptWires | 3 sources, 8 clock values, 1 trap |
| main_cpu_irq | alarms on time, IRQ within two opcodes | clock 0..37, frame of 2 cycles, two chips, symmetry |
| main_cpu_nmi | NMI within two opcodes and by its own entry; frames go on | the same, NMI, one chip, one trap |
| main_cpu_traps | a trap that was asked for is called: **violated** | two traps, long frame |
| cia | the lazy chip is the exact one, interrupts on time, the alarm is where the alarm context has it | bytes of 2 values (counter 0..3), clock 0..23, idle 5, three control bytes, both chip models, FLAG |
| via | the computing chip is the counting one, interrupts on time | bytes of 2 values, clock 0..31, alarms 3 cycles late, four control bytes |
| drive | a drive is in step but for long sleeps, with idle methods, commands and both guards | clock of 22 values, 3 ticks per 2 cycles, one drive |
| drive_skip_warp | a sleeping drive is in step over the guard: **violated** | clock of 64 values |
| netplay | both machines play the same inputs, no false alarm, only a side whose partner has hung up waits for ever | ring of 2, 3 frames, 2 kinds of input, 2 connects, 3 inputs and troubles |
| history | what is played back is what was recorded, playback ends | clock of 20 values, 7 cycles, three budgets |
| autostart | settings come back, a program is run, autostart ends | queue of 5, all media, 2 starts, one other act |

Why the bounds suffice. *alarm_table*: with four alarms and three slots every
case of insertion (earliest, not earliest, full), of removal (last, middle, the
cached one, the one that moves) and of modification (to earlier, of the cached
one to later) happens, and the code compares clocks but never adds to them.
*interrupt_lines*: three sources make the counters 0, 1 and more; eight clock
values exceed the window of three cycles, before and after a warp. *main_cpu*:
the longest sequence without a look at interrupts is an entry and an opcode, 15
cycles or fewer; the clock range holds that beyond the guard's limit, and with a
frame of two cycles frames end, and the guard strikes, at every place where
alarms are called. Two chips are needed for the IRQ, where one may pull a wire
that the other holds; the NMI is an edge that later pulls do not move, so one
does. Opcodes are of 2 to 6 cycles (those that matter to interrupts have lengths
of their own). *cia*, *via*: a latch of 0..3 has the values the code treats
specially (0, 1) and ordinary ones; bytes of two values keep the store of low
and high byte apart; `MaxIdle` exceeds the pipeline and a full count; the clock
range holds several periods and the guard. *drive*: a fraction of 3/2 makes the
remainder matter; the modulus is wide enough that guard, sleep threshold and
half the range are different lags; `LagCap` lies beyond the lag at which a drive
that wakes gives up and beyond half the range of its clock, so that drives
oversleep; the horizons are out of reach, so both guards strike. That two drives
meet each other ("crossed") is left to DriveClockProofs, which holds for any
number of drives. *netplay*: the ring's size is at least 5 in the program
(`network.c:438`), but nothing in its code depends on more than the distance
between the slot recorded and the slot played, and 3 frames take the ring of 2
round once; a budget of 3 for inputs and troubles holds an input on each side
with a break, or one input with two troubles, and the second connect brings what
the first has left behind. NetplayProofs does not depend on any of it. *history*:
the clock starts so that the guard strikes in the first half of a recording of
7 cycles; a second is 3 cycles, so that timestamps come before and after the move; the budgets are those a milestone, a continued recording and a halted
playback need. *autostart*: two starts and one act suffice for each reason in
`upset`; commands are longer than the KERNAL's buffer, so that flushing takes
several frames; delays are longer and shorter than what they wait for.
AutostartProofs does not depend on the numbers.

CHECK_DEADLOCK is disabled in netplay, history and autostart only: there a user
whose budget is spent, with emulators that have ended or come to rest, really
leaves nothing to do. Each `.cfg` gives constants their values and nothing else.
Every property has a mutant (a definition in the module whose comment begins with
"Mutant") that stands for a plausible bug, and that breaks it under the same run.

Fairness. *MainCpu*: weak fairness of Next, one sequential program that keeps
running: the front end calls `retro_run` again and again, and the loop has no
state in which it waits. FramesGoOn then says that the loop never gets stuck
calling alarms without time passing. *Netplay*: weak fairness of the handshake,
of each side's hook and of its sync test: an emulator that runs comes to the end
of its frame and calls its traps. Nobody need connect, play or break anything.
OnlyHangUpsHang says that a side that waits for a list gets it, or finds the
connection broken, unless the other side has hung up and nothing of it is on its
way any more; without that exception TLC refutes it under the same fairness
(see 5). No fairness is assumed of the handshake's failing. *EventHistory*: weak fairness of the machine's
and the alarm's steps. PlaybackEnds says that no event is waited for in vain.
*Autostart*: weak fairness of the frame, the keyboard buffer's alarm, the reset
and the program's start. AutostartEnds needs nothing of the user, and of the
KERNAL only that a program that was typed runs. No fairness of what a user, a
network or a failure does is assumed anywhere.

## 4. Proofs

tlapm proves these for every value of the constants; each states a property that
a run of section 3 checks on an instance.

*CpuInputsProofs*, on AlarmTable (from ClockMax positive, MaxPending positive, NoAlarm not an
alarm; any set of alarms): TypeCorrect, TableAlwaysConsistent,
CacheAlwaysCorrect, TableImplementsQueue. The three invariants only hold
together: removal finds its slot by the alarm's index (consistency) and decides
by the cached index whether to scan anew (cache), and consistency needs indices
in range (type). The inductive invariant is therefore the conjunction
`Consistent(ctx)` of well-formedness, "slots and indices name each other", "used
indices are before the end" and "the cached one is an earliest". Lemmas state
for each function what it does to the due times; the refinement follows from
them, a step of the table being a step of the queue or none.

*CpuInputsProofs*, on InterruptLines (from Lines finite, ClockMax beyond the window):
StatusTypeCorrect, CountsAlwaysMatch, WindowAlwaysTrue, IrqOnlyTakenInWindow,
StatusImplementsWires. The inductive invariant adds to the type that the clock
stays a window short of the range's end and that a release is never in the
future: without the first the window's end could wrap, without the second a warp
could not be shown to keep the distance. The counting argument is about
cardinalities of the sets of lines that pull a wire.

*MainCpuProofs* (from a frame that is short against the guard's margin:
FrameLen + 9 < SubMin and 2 * FrameLen < SubMin): MainCpuTypes, AlarmsAreOnTime,
NmiEntries. The argument is about lateness. Time passes only where no alarm is
due, and by 8 cycles at most, so no alarm is more than 7 cycles late, in
particular not the one that ends the frame and lets the guard strike; hence the
clock stays below the guard's limit plus a frame plus 7, where there is room for
every alarm, and what the guard subtracts is less than every clock that is kept. On top of that
invariant, and with no further assumption, IrqServedSoon and NmiServedSoon, for any
number of chips. A wire that was low when an opcode began is old enough when it has
ended: opcodes take two cycles, a taken branch three, and the guard moves the wire's
clock with the CPU's. What has waited for two opcodes is therefore taken at the next
check, unless the second was a CLI (impossible: I was clear already) or a BRK (which
the NMI takes over, and which sets I against the IRQ).

*NetplayProofs* (from FrameDelta positive, any kinds of events, any control
masks, any budgets): NetplayTypes, AlarmsAreTrue, KeepsPromise; the last is the
refinement of DelayedInputs. The invariant numbers the frames since the
connection was made. Every list on its way carries the inputs and the registers
of the frame of its number; slot i of the ring holds the frame that is due there;
a side is ahead of its machine by as much as its ring is filled; where a list was
lost, nothing is on its way any more and nothing will be played; nothing has been
played while the connection is being made. A part of its own (`Roles`) says that
the server's program is never in a client's mode nor the other way round, from which
InOrder puts the lists of both machines in the same order. No part is inductive alone: that the
right list is played needs ring, wire and the other side's history at once.

*DriveClockProofs* (from a guard's margin that is a quarter of the range at most,
which `clk_guard_init` insists on, and that a frame and the ticks of a frame fit in; any
number of drives, any ratio of the clocks): DriveTypes, LastClkAlwaysTrue,
NeverAheadOfMain, NeverBehindMain, OnlyLongSleepsSkip. The invariant says of each
drive that its `last_clk` and its lag add up to the main clock, that what it has
executed too much is exactly what its clock is ahead of its stop clock, and that a
drive with a reset to serve stands at clock 0; and of the main clock that the guard
strikes before it wraps. The first attempt failed on drives with others behind
them in the list and on long sleeps: these are "crossed" and "overslept". The
drives' overflow is a fold over the drives; that it preserves the invariant goes by
the least drive after which it would not.

*CiaProofs* (from a range of CLOCK with room for the guard's margin twice, a margin
that a count and the interrupt's delay fit in, and a chip that is brought up to date
more often than that margin, as CIA_MAX_IDLE_CYCLES makes it be; any width of the
counter, any control bytes, both chip models): CiaTypes, AlarmsAgree, CiaIsExact,
CiaLineOnTime. The lazy chip is behind the exact one, so neither its registers nor
its flags can be compared with the exact one's as they stand. The invariant
(`Tracked`) compares what they will be. `Lags`: run through as many single cycles as
have passed since `timer.clk`, the lazy timer is like the exact one, the alarm
context's time is the timer's, and where there is no alarm either the timer cannot
underflow in its present mode or nobody would notice (the line is pulled already, or
the interrupt is masked). `Foretells`: when the alarm is due but has not been called,
calling it now would give flags, line and the line's clock as they are in the exact
chip, a read of ICR in that very cycle included. As long as a cycle
has not been used for an access (`~busy`), no underflow of that cycle is left to come
in the exact timer (`Settled`), which a store to the control register relies on. The
lemmas it rests on: `ciat_update` is as many cycles as have passed, over all its
four loops (UpdateIsAfter), though it skips in one step what a steadily counting,
standing or stopped timer does in many; `ciat_set_alarm` finds the first underflow
(NextUnderflowWhen), though it tells by arithmetic; and updating the timer earlier
than the model does, as an access by the program does, changes nothing that is seen.
The loops are recursive functions, and a function defined by recursion has first to
be shown to exist: LEMMA Loop shows it for a loop over any set of states, whether it
ends or not, and LEMMA Induction speaks of a set of numbers, so that no operator is
passed as a parameter.

*ViaProofs* (from a range of CLOCK that is a multiple of a counter's, as 2^32 is of
2^16, a margin of the guard that a count and the longest opcode fit in, and any
sets of control bytes): ViaTypes, CountersAreExact, LineOnTime. For each timer the
invariant distinguishes three ways of being in step: settled (the clock of the end
is congruent to what the counting chip's counter says, the alarm is where it will
reach zero), lagging (the counting chip is through zero, the alarm is due but not
called) and ahead (a store was made with the clock of the next cycle); and for
timer 2 those that PB6 drives or has stopped. Flags and lines of both chips agree
but for what a due alarm will bring. The arithmetic is that of remainders: a
clock's wrap is a multiple of a count, which is why the guard and the reading of a
counter of a timer that underflowed long ago agree.

*AutostartProofs* (from the media being those four, the delays numbers and a
LOAD the user types by hand fitting the KERNAL's buffer): WarpReturns,
DriveReturns, AutostartTypes, RunHasAProgram. What holds while autostart is in
progress is that undoing now would bring the user's setting back, and that the end
of a file is waited for only by an autostart of a disk. The first attempt at
WarpReturns found a case beyond the run's bounds (see 5). That RUN is typed only
when there is a program to run, and that nothing typed overflows, is a matter of
keys: the line on the screen, the KERNAL's buffer and the queue, one behind the
other, are whole commands, and a RUN among them has its LOAD in front of it unless
the program is in memory or on its way; the alarm that holds RETURN back is pending
only with RETURN at the head of the queue and room for it in the buffer.

*EventHistoryProofs* (from a range of CLOCK that holds the guard's margin five
times, a frame shorter than the margin, and a second and a frame that together fit
in it, see below; any second, any frame, any clock at which a session begins, any
horizon, any budgets of the user): TypeCorrect, ReplaysAlways, EndsRight. Like
the properties, the theorems speak of recordings that none of the five reasons in
`upset` has spoilt. The
invariant gives every list a *trail*: machines P[1], P[2], ..., one for each event,
such that the machine runs from P[i-1], without the guard's moving the clock, to a
place where event i takes it to P[i] (`Leads`). Of a recording it says that there
is a trail to the event before the end of the list and that the machine has run on
from its last machine (`RecInv`); of a saved file, that its list has a trail which
ends at, or runs to, the machine that was saved with it (`FileInv`); of playback,
that the list as it was loaded has a trail to the machine of the file, and that the
machine is between two machines of it (`PlayInv`). `Stage` tells where: waiting for the
event with the alarm at the right time (`Awaits`), or in front of a move of the clock
with an alarm for behind it, or behind the move but in front of the event that stands
for it, or about to be reset. None of the three parts is inductive alone: a playback
begins with a file, a file with a recording, and a recording may go on from a
file or from a playback.

What takes the work is what the loader does. `Kept` drops the timestamps, and a
trail survives that (SavedTrail) because a timestamp only marks a place that the
machine runs through. `Load` puts new ones in at other places, and the lemmas about
it (LoadStepTrail, LoadTrails, LoadFinished) show that each of them finds a place on
the way between two machines, that the clock of the next one is never a second or more
ahead of the machine, and that with them every event is *prompt*: at most a second ahead
of the machine that waits for it, and within a second of the guard's limit if it
is a move of the clock. Without that `next_alarm_set` cannot tell an event
behind a move from one in front of it (WaitsForNext, WaitsBehindMove): its comparison
with CLKGUARD_SUB_MIN and its sum are right only for clocks that near, which is where
the assumption on the second is used. Both functions walk over the list; they are
recursive functions, shown to exist (LoadingExists, KeepingExists), and what they
return is shown by induction over a set of positions (Induction). That a trail never goes
back in time or in deeds (TrailAfter) then gives Replays, and that the last
machine of the trail is the one that was saved gives EndsWithTheRecording.

The assumption on the second holds for the C64, the C128, the PET and the NTSC VIC-20;
for the others see 5. The assumptions on the range hold for every machine: the margin is
2^20 - 1, the range 2^32, a frame at most some 40000 cycles (CBM-II).

Only model-checked: liveness (FramesGoOn, OnlyHangUpsHang, PlaybackEnds, AutostartEnds),
which is out of the prover's reach. That playback goes on until its end, rather than
that what it plays is right, is therefore TLC's on the instance of section 3.

## 5. Where code and comments disagree

Two have a run that shows them, quoted in PROJECT.json.

* **main_cpu_traps**: `interrupt_maincpu_trigger_trap` (`interrupt.c`) has room
  for one function; its comment promises a call.
* **drive_skip_warp**: when the main clock is moved back, a sleeping drive is
  run by a function that compares its old clock with the new one.

Others were met while modelling; the models exempt them by name, and those that
bite are listed as hazards.

* The drive's own guard moves the drive's clock but not `stop_clk`
  (`drivecpu.c:278`), and a drive reset on its own restarts its clock but not
  `stop_clk` (`drivecpu.c:165`). With two drives, the catching up of one runs the
  other after its `last_clk` was moved back (`drivecpu.c:269`).
* `clkguard.c` says the order of callbacks is "supposed not to matter at all". The
  CIA's callback catches up in the old time and sets an alarm; it is right only
  because the alarm context's callback was added first and so runs last: AlarmAgrees
  in run cia is the property that depends on it.
* A chip that pulls the IRQ wire while another one holds it low begins the delay
  anew (`interrupt.h:159`; the NMI's is not, `interrupt.h:192`): chips that take
  turns put the IRQ off for as long as they do. IrqLatency counts from the last
  pull; counted from the first, TLC refutes it with two chips.
* A store to a VIA, or a read of port B, while an alarm is overdue moves the clock
  of timer 1 that the handler then moves again (`viacore.c:358`); the guard wraps
  the clock of a timer 1 that nobody has looked at (`viacore.c:1022`).
* `network_recv_buffer` (`network.c:351`) takes the 0 of a connection that the other
  side has closed (`socket.c:994`) for progress and asks for ever. A side whose
  partner leaves, is out of sync or ends while it waits never says "Remote host
  disconnected." (`network.c:829`); its emulator hangs in the hook of the frame.
  The waits of the handshake (`network.c:414`) are the same loop. OnlyHangUpsHang
  exempts this case (`HungUpOn`); without the exemption TLC shows the server leaving
  from its menu and the client waiting for ever.
* `network_disconnect` (`network.c:760`) may close a socket twice, which
  `socket.c:927` asserts does not happen; a failed measurement of the delay leaves
  a side connected without lists (`network.c:417`); a lost trap leaves a client
  waiting for a server that has forgotten it.
* The event history's correction of a clock (`event.c:342`) is right only if a
  second's cycles and a frame are less than the guard's margin. So it is on the
  C64, but not on Plus/4, CBM-II and the PAL VIC-20.
* An autostart during an autostart leaves warp mode on (`autostart.c:510`,
  against `doc/vice.texi:2443`), and a reset during the autostart of a snapshot
  puts back the warp mode that an earlier autostart saved (`autostart.c:1418`).
  What the user sets during an autostart is overwritten at its end
  (`autostart.c:518`); the model's user does not (`UserSets`), and nothing is
  claimed of it.
* `alarm_context_time_warp` moves the clock that stands for "no alarm" as well
  (`alarm.c:99`): an empty context would afterwards dispatch the alarm of index -1.
  AlarmTable's `Warp` asks for a pending alarm, as there always is one in the main
  CPU's context.

## 6. Not modelled, and why

Section 1 says it per component; the notes in PROJECT.json repeat it. What is left
there is pure I/O and formats, tables and arithmetic on bits or pixels, or a state
machine one test of its own covers. The map covers a small share of the
repository's lines for that reason: most of its two million are other ports,
vendored libraries (ffmpeg, nuklear, resid), translations and tables. In the
modelled components:

* MainCpu: what opcodes compute; cycles stolen by the video chip (they shift when
  things happen, the models let them happen at any time); JAM, the monitor and DMA
  hosts (the loop stops or is left).
* Interrupt status: line numbers, snapshots.
* CIA: timer B and cascading, the serial register, the time of day, the ports and
  the toggle output. VIA: PB7, the shift register and the 8-bit mode that drives
  it, ports, handshakes and control lines, the double store of read-modify-write
  opcodes, disabling the chip.
* Drives: memory, mechanics, VIAs, snapshots.
* Netplay: the bytes of the socket layer, the contents of the snapshot, the
  measured delay. A client connects only when the server listens.
* EventHistory: disk and tape images in the history.
* Autostart: the run mode, the 40/80 key, what is written when a program is
  injected; the clock guard, which strikes an hour later; settings changed while an
  autostart is in progress. Injecting has no failure: `autostart.c:954` is for a
  program that is gone, and the only callers of `autostart_prg` that free it set
  the mode to AUTOSTART_ERROR before (`AdvanceInject`'s comment).
* `clk_base`, which rounds the guard's amount down to a whole number of frames, is
  in DriveClock; the other models subtract the most that it can be.

## 7. What the plan has left

Done: alarms, interrupts and the CPU loop, the CIA's timer A, the VIA's timers, the
drives' clocks, network play, the event history, the keyboard buffer and
autostart, with proofs about all of them.

What a next step would add: the CIA's timer B counting timer A's underflows; the
keyboard's and joysticks' latches between the event history and the alarms; and two
drives on the IEC bus upon DriveClock.
