------------------------------- MODULE MainCpu -------------------------------
(***************************************************************************)
(* The main CPU's loop (src/vice/src/6510core.c, maincpu.c) with the        *)
(* devices it drives: between two opcodes it calls the alarms that are due, *)
(* looks at its interrupt status and serves what it finds.  Alarms pull and *)
(* release interrupt lines, one of them ends the frame, runs the hooks of   *)
(* the frame and moves all clocks back before they overflow; and alarms are *)
(* called in the middle of an interrupt entry and of a BRK, too.            *)
(*                                                                         *)
(* The alarm context is its abstraction (AlarmQueue): for every alarm when  *)
(* it is due, Never if it is not set.  A chip has one alarm and one line of *)
(* the same name.  Left out: the cycles a video chip steals, JAM opcodes,   *)
(* the monitor and DMA hosts.                                               *)
(*                                                                         *)
(* Bounds: Delays are the times a chip sets its alarm for, Lengths the      *)
(* lengths of opcodes; with a frame of a few cycles the clock guard strikes *)
(* at every place where alarms are called.                                  *)
(***************************************************************************)
EXTENDS InterruptStatus

CONSTANTS
    Frame,           \* the alarm that ends the frame
    FrameLen,        \* its period
    SubMin,          \* CLKGUARD_SUB_MIN
    Wires,           \* the kinds of interrupts the chips make
    Delays, Lengths

\* How long a waiting interrupt may take, in opcodes.
MaxWait == 2

Alarms == Lines \cup {Frame}
Never == ClockMax
IrqDelay == 2        \* INTERRUPT_DELAY
ResetClk == 6

VARIABLES
    clk,       \* maincpu_clk
    due,       \* when each alarm is due
    status,    \* maincpu_int_status
    iFlag,     \* the I flag of the processor status
    op,        \* last_opcode_info: a "branch" delays interrupts by a cycle,
               \* "disables" and "enables" changed the I flag, "brk" is 0x00
    at,        \* where the loop is
    ik,        \* the interrupts DO_INTERRUPT was called for
    nmiTaken,  \* whether the entry is made for an NMI
    irqWait,   \* opcodes since the IRQ wire is low and I is clear, and no
               \* other chip has pulled it, which begins the delay anew
    nmiWait,   \* opcodes since an NMI waits
    owed       \* trap functions that were asked for and not called

vars == <<clk, due, status, iFlag, op, at, ik, nmiTaken, irqWait, nmiWait, owed>>

ASSUME MainCpuAssumption ==
    /\ Frame \notin Lines /\ Wires \subseteq LineKinds
    /\ FrameLen \in Nat \ {0}
    /\ SubMin \in Nat /\ FrameLen + 9 < SubMin /\ 2 * FrameLen < SubMin
    /\ 2 * SubMin + FrameLen + 9 <= ClockMax
    /\ Delays \subseteq 1 .. (SubMin - FrameLen - 9)
    /\ Lengths \subseteq 2 .. 8

Places == {"start", "entry", "traps", "after", "opcode", "access", "brk"}

TypeOK ==
    /\ clk \in Clock
    /\ due \in [Alarms -> Clock]
    /\ status \in Statuses
    /\ iFlag \in BOOLEAN
    /\ op \in {"plain", "branch", "disables", "enables", "brk"}
    /\ at \in Places
    /\ ik \subseteq Kinds
    /\ nmiTaken \in BOOLEAN
    /\ irqWait \in Nat /\ nmiWait \in Nat
    /\ owed \subseteq Traps

(* After a reset the first frame begins and a chip may set its alarm.       *)
DueAfterReset ==
    {d \in [Alarms -> {Never} \cup {ResetClk + d : d \in Delays \cup {FrameLen}}] :
        d[Frame] = ResetClk + FrameLen}

(* The emulator asks for a reset before the first opcode: this is the state *)
(* it leaves, with the registers as they are initialised.                   *)
Init ==
    /\ clk = ResetClk
    /\ due \in DueAfterReset
    /\ status = StatusReset
    /\ iFlag = FALSE /\ op = "brk"
    /\ at = "after" /\ ik = {} /\ nmiTaken = FALSE
    /\ irqWait = 0 /\ nmiWait = 0 /\ owed = {}

-----------------------------------------------------------------------------
(* PROCESS_ALARMS calls the alarms that are due, the earliest one first;    *)
(* the loop goes on when there is none left.                                *)
IsDue(a) == due[a] # Never /\ due[a] <= clk
Earliest(a) == \A b \in Alarms : due[a] <= due[b]
AlarmsDone == \A a \in Alarms : ~IsDue(a)

Moved(t, amount) == IF t = Never THEN Never ELSE ClockSub(t, amount)

(* Mutant of GuardMax: no room is left beyond the limit.                    *)
GuardMaxLate == ClockMax

\* clk_guard_prevent_overflow of the main CPU's clock
GuardMax == ClockMax - SubMin
GuardSub == IF clk < GuardMax THEN 0 ELSE GuardMax - SubMin

\* An IRQ that is gone does not wait, and one that a chip adds to waits anew:
\* interrupt_set_irq forgets since when the wire has been low.
PullsAnew(l, kinds) == "IRQ" \in kinds /\ "IRQ" \notin status.pending[l]
WaitsOn(l, kinds) ==
    IF "IRQ" \in status'.global /\ ~PullsAnew(l, kinds) THEN irqWait ELSE 0

CallPlaces == {"start", "entry", "after", "brk"}

(* A function of the emulator, outside the machine, may ask for a trap and  *)
(* for a reset.                                                             *)
AskTrap(s, f) == IF f = NoTrap THEN s ELSE TriggerTrap(s, f)
AskReset(s, reset) == IF reset THEN TriggerReset(s) ELSE s

(* Mutant of Again: the alarm is not moved on.                              *)
AgainNow(l) == {due[l]}

(* What the alarm of a chip does with itself: it waits another while, or is *)
(* unset.                                                                   *)
Again(l) == {Never} \cup {due[l] + d : d \in Delays}

(* The alarm of a chip: it may set its line, as of the time the alarm was   *)
(* due, and set its alarm again.                                            *)
CallChip(l) ==
    /\ at \in CallPlaces
    /\ IsDue(l) /\ Earliest(l)
    /\ \E next \in Again(l) : due' = [due EXCEPT ![l] = next]
    /\ \E kinds \in SUBSET Wires :
           status' = SetInt(status, l, kinds, due[l]) /\ irqWait' = WaitsOn(l, kinds)
    /\ UNCHANGED <<clk, iFlag, op, at, ik, nmiTaken, nmiWait, owed>>

(* Before one of its registers is accessed the video chip calls its own     *)
(* alarms, whatever else is due.                                            *)
HandlesPendingAlarms == at = "access"

(* The end of a frame: two hooks may ask for a trap each, and a reset may   *)
(* be asked for; the clock guard moves all clocks back, and the next frame  *)
(* is scheduled.                                                            *)
CallFrame ==
    /\ IsDue(Frame)
    /\ HandlesPendingAlarms \/ (at \in CallPlaces /\ Earliest(Frame))
    /\ LET moved == [due EXCEPT ![Frame] = @ + FrameLen]
       IN  due' = [a \in Alarms |-> Moved(moved[a], GuardSub)]
    /\ \E f, g \in Traps \cup {NoTrap}, reset \in BOOLEAN :
           LET asked == AskReset(AskTrap(AskTrap(status, f), g), reset)
           IN  /\ status' = IF GuardSub = 0 THEN asked ELSE StatusWarp(asked, GuardSub)
               /\ owed' = owed \cup ({f, g} \ {NoTrap})
    /\ clk' = clk - GuardSub
    /\ UNCHANGED <<iFlag, op, at, ik, nmiTaken, irqWait, nmiWait>>

-----------------------------------------------------------------------------
(* Between two opcodes.                                                     *)

\* A branch that was taken delays interrupts by another cycle.
DelayOver(since) ==
    clk >= since + IrqDelay + (IF op = "branch" THEN 1 ELSE 0)

TakesNmi(s) == "NMI" \in s.global /\ op # "brk" /\ DelayOver(s.nmiClk)

IrqAllowed(s) ==
    /\ s.global \cap {"IRQ", "IRQPEND"} # {}
    /\ ~iFlag \/ op = "disables"
    /\ DelayOver(s.irqClk)

(* The first part of DO_INTERRUPT: an interrupt entry begins, unless none   *)
(* is wanted yet.  An opcode that has only just enabled the IRQ postpones   *)
(* it.                                                                      *)
Check ==
    /\ at = "start" /\ AlarmsDone
    /\ LET s == ExpireIrq(status, clk)
           enters == TakesNmi(s) \/ (IrqAllowed(s) /\ op # "enables")
           postponed == ~TakesNmi(s) /\ IrqAllowed(s) /\ op = "enables"
       IN  /\ status' = IF postponed
                        THEN [s EXCEPT !.global = @ \cup {"IRQPEND"}] ELSE s
           /\ ik' = s.global
           /\ nmiTaken' = TakesNmi(s)
           /\ clk' = IF enters THEN clk + 5 ELSE clk
           /\ iFlag' = (iFlag \/ enters)
           /\ at' = IF s.global = {} THEN "opcode"
                    ELSE IF enters THEN "entry" ELSE "traps"
    /\ UNCHANGED <<due, op, irqWait, nmiWait, owed>>

\* Whether an NMI takes an entry or a BRK over.
Hijacks == "NMI" \in status.global /\ clk >= status.nmiClk + IrqDelay

(* The rest of the entry: which vector is used is only decided now.         *)
Vector ==
    /\ at = "entry" /\ AlarmsDone
    /\ status' = IF Hijacks THEN AckNmi(status) ELSE AckIrq(status)
    /\ nmiWait' = IF Hijacks THEN 0 ELSE nmiWait
    /\ irqWait' = 0
    /\ op' = "brk" /\ clk' = clk + 2 /\ at' = "traps"
    /\ nmiTaken' = FALSE
    /\ UNCHANGED <<due, iFlag, ik, owed>>

(* The second part of DO_INTERRUPT: a trap is called, which may ask for a   *)
(* reset or for another trap, then a reset is served.  After that the IRQ   *)
(* is forgotten that nobody asserts any more.                               *)
ServeReset(s) ==
    /\ status' = DropReleasedIrq(ResetKeepingMonitor(AckReset(s)))
    /\ clk' = ResetClk
    /\ due' \in DueAfterReset
    /\ irqWait' = 0 /\ nmiWait' = 0

ServeNoReset(s) ==
    /\ status' = DropReleasedIrq(s)
    /\ UNCHANGED <<clk, due, irqWait, nmiWait>>

RunTrap(f, reset) ==
    LET s == AskReset(AskTrap(AckTrap(status), f), reset)
    IN  /\ owed' = (owed \ {status.trap}) \cup ({f} \ {NoTrap})
        /\ IF "RESET" \in ik \cup s.global THEN ServeReset(s) ELSE ServeNoReset(s)

Serve ==
    /\ at = "traps"
    /\ \/ "TRAP" \in ik /\ \E f \in Traps \cup {NoTrap}, reset \in BOOLEAN : RunTrap(f, reset)
       \/ "TRAP" \notin ik /\ "RESET" \in ik /\ ServeReset(status) /\ owed' = owed
       \/ ik \cap {"TRAP", "RESET"} = {} /\ ServeNoReset(status) /\ owed' = owed
    /\ at' = "after" /\ ik' = {}
    /\ UNCHANGED <<iFlag, op, nmiTaken>>

(* Mutant of Fetch: alarms that came due in the entry wait for the opcode.  *)
FetchEarly ==
    /\ at = "after" /\ at' = "opcode"
    /\ UNCHANGED <<clk, due, status, iFlag, op, ik, nmiTaken, irqWait, nmiWait, owed>>

(* The alarms that came due meanwhile have been called.                     *)
Fetch ==
    /\ at = "after" /\ AlarmsDone
    /\ at' = "opcode"
    /\ UNCHANGED <<clk, due, status, iFlag, op, ik, nmiTaken, irqWait, nmiWait, owed>>

-----------------------------------------------------------------------------
(* An opcode.                                                               *)

\* What every opcode does at its end, whatever it did to its devices.
Ends(n, kind, flag, waited) ==
    /\ clk' = clk + n /\ op' = kind /\ iFlag' = flag
    /\ at' = "start"
    /\ irqWait' = IF "IRQ" \in status'.global /\ ~flag THEN waited + 1 ELSE 0
    /\ nmiWait' = IF "NMI" \in status'.global THEN nmiWait + 1 ELSE 0
    /\ UNCHANGED <<ik, nmiTaken, owed>>

Inside(n, kind, flag) ==
    at = "opcode" /\ UNCHANGED <<due, status>> /\ Ends(n, kind, flag, irqWait)

Opcode(n) == Inside(n, "plain", iFlag)

Branch == Inside(3, "branch", iFlag)

(* CLI, SEI and PLP tell the next check that they changed the I flag, RTI   *)
(* changes it too early for that.                                           *)
SetI(n, flag) ==
    Inside(n, IF flag = iFlag THEN "plain"
              ELSE IF flag THEN "disables" ELSE "enables", flag)

Rti(flag) == Inside(6, "plain", flag)

(* An opcode reaches a chip's register in its last cycle or at its end ...  *)
Reach(n) ==
    /\ at = "opcode"
    /\ clk' = clk + n /\ at' = "access"
    /\ UNCHANGED <<due, status, iFlag, op, ik, nmiTaken, irqWait, nmiWait, owed>>

(* ... and accesses it: the chip sets its line and its alarm.               *)
Access(l, t, kinds) ==
    /\ at = "access"
    /\ status' = SetInt(status, l, kinds, t)
    /\ \E next \in {due[l], Never} \cup {t + d : d \in Delays} :
           due' = [due EXCEPT ![l] = next]
    /\ Ends(0, "plain", iFlag, WaitsOn(l, kinds))

(* BRK, up to the point where alarms are called in the middle of it ...     *)
Brk ==
    /\ at = "opcode"
    /\ clk' = clk + 5 /\ op' = "brk" /\ at' = "brk"
    /\ UNCHANGED <<due, status, iFlag, ik, nmiTaken, irqWait, nmiWait, owed>>

(* Mutant of BrkVector: an NMI does not take a BRK over.                    *)
BrkVectorNoNmi ==
    /\ at = "brk" /\ AlarmsDone
    /\ status' = IF /\ status.global \cap {"IRQ", "IRQPEND"} # {}
                    /\ ~iFlag /\ clk >= status.irqClk + IrqDelay
                 THEN AckIrq(status) ELSE status
    /\ Ends(2, "brk", TRUE, irqWait)
    /\ UNCHANGED due

(* ... and the rest: an NMI or an IRQ may take it over.                     *)
BrkVector ==
    /\ at = "brk" /\ AlarmsDone
    /\ status' = IF Hijacks THEN AckNmi(status)
                 ELSE IF /\ status.global \cap {"IRQ", "IRQPEND"} # {}
                         /\ ~iFlag /\ clk >= status.irqClk + IrqDelay
                 THEN AckIrq(status) ELSE status
    /\ Ends(2, "brk", TRUE, irqWait)
    /\ UNCHANGED due

Next ==
    \/ \E l \in Lines : CallChip(l)
    \/ CallFrame
    \/ Check
    \/ Vector
    \/ Serve
    \/ Fetch
    \/ \E n \in Lengths : Opcode(n)
    \/ Branch
    \/ \E n \in {2, 4}, flag \in BOOLEAN : SetI(n, flag)
    \/ \E flag \in BOOLEAN : Rti(flag)
    \/ \E n \in Lengths : Reach(n)
    \/ \E l \in Lines, t \in {clk - 1, clk}, kinds \in SUBSET Wires : Access(l, t, kinds)
    \/ Brk
    \/ BrkVector

Spec == Init /\ [][Next]_vars /\ WF_vars(Next)

-----------------------------------------------------------------------------
(* When an opcode starts every alarm that was due has been called, and none *)
(* has been moved out of sight by the clock guard (6510core.c:1982-2004).    *)
AlarmsOnTime ==
    at = "opcode" =>
        \A a \in Alarms : due[a] = Never \/ due[a] \in (clk + 1) .. (clk + SubMin)

(* An IRQ wire that stays low with I clear is served after two opcodes at   *)
(* the latest, whatever the opcodes are and whatever the clock guard does   *)
(* (maincpu.c:364-385), counted from the last chip that pulled it           *)
(* (interrupt.h:159).                                                       *)
IrqLatency == irqWait <= MaxWait

(* And so is an NMI, although a BRK keeps it from being served              *)
(* (maincpu.c:337-359).                                                     *)
NmiLatency == nmiWait <= MaxWait

(* An entry that was made for an NMI serves it, whatever alarms were called *)
(* in the middle of it (6510core.c:375-412).                                *)
NmiEntryServesNmi == [][Vector /\ nmiTaken => Hijacks]_vars

(* A trap function that was asked for will be called                        *)
(* (interrupt.c:312-314).                                                   *)
TrapsNotLost ==
    owed \subseteq (IF "TRAP" \in status.global THEN {status.trap} ELSE {})

(* Frames never stop, whatever the devices do with their alarms and lines.  *)
FramesGoOn == []<><<CallFrame>>_vars
=============================================================================
