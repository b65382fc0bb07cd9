---------------------------- MODULE EventHistory ----------------------------
(***************************************************************************)
(* The event history (src/vice/src/event.c): what the user does to the      *)
(* machine is recorded with the clock of the main CPU and played back later *)
(* from the snapshot that was saved at the beginning.  The clock is moved   *)
(* back by the clock guard and begins anew at a reset: both are recorded as *)
(* events with clocks of their own, and playback has to wait for each of    *)
(* them at the right time.                                                  *)
(*                                                                         *)
(* The machine is abstracted to its clock, the position in the frame, and   *)
(* histories that a snapshot saves with it: the cycles since the recording  *)
(* began, and what was done to it when (deeds).  A trap is called at once,  *)
(* an opcode takes one cycle.                                               *)
(*                                                                         *)
(* Bounds: a recording takes at most Horizon cycles, and the user does as   *)
(* many things of each kind as one of the Budgets says.                     *)
(***************************************************************************)
EXTENDS Integers, Sequences, SequencesExt

CONSTANTS
    Modulus,       \* CLOCK_MAX + 1
    SubMin,        \* CLKGUARD_SUB_MIN
    FrameLen,      \* cycles of a frame, at whose end the clock guard looks
    Second,        \* machine_get_cycles_per_second
    ResetClk,      \* the clock after a reset
    InitialClks,   \* clocks at which a session begins
    Horizon, Budgets

Kinds == {"input", "record", "stop", "milestone", "play", "halt"}

ASSUME ConstantsAssumption ==
    /\ {Modulus, SubMin, FrameLen, Second, ResetClk, Horizon} \subseteq Nat \ {0}
    /\ Budgets \subseteq [Kinds -> Nat]
    /\ Modulus >= 5 * SubMin /\ SubMin > FrameLen
    /\ Second + FrameLen <= SubMin + 1
    /\ ResetClk <= SubMin
    /\ InitialClks \subseteq 0 .. Modulus - SubMin - 2

VARIABLES
    machine,         \* what a snapshot saves
    resetting,       \* a reset is asked for
    list,            \* event_list; empty for NULL
    current,         \* event_list->current
    alarm,           \* the time of event_alarm
    record,          \* record_active
    playback,        \* playback_active
    nextStamp,       \* next_timestamp_clk
    milestoneStamp,  \* milestone_timestamp_alarm
    startFile,       \* start.vsf
    endFile,         \* end.vsf
    upset,           \* history: why this recording cannot be played back
    left             \* what the user may still do

files == <<startFile, endFile>>
modes == <<record, playback>>
stamps == <<nextStamp, milestoneStamp>>
vars == <<machine, resetting, list, current, alarm, record, playback,
          nextStamp, milestoneStamp, startFile, endFile, upset, left>>

Clock == 0 .. Modulus - 1
Plus(a, b) == (a + b) % Modulus
\* Mutant of Minus: differences do not wrap.
MinusWide(a, b) == a - b
Minus(a, b) == (a - b) % Modulus
ClkMax == Modulus - 1 - SubMin      \* clk_max_value
Sub == ((ClkMax - SubMin) \div FrameLen) * FrameLen    \* clk_guard_clock_sub
Unset == -1                         \* the alarm is not set
NoFile == [list |-> <<>>]

Deeds == Seq([what : {"key", "reset"}, time : Nat])
Machines == [clk : Clock, beam : 0 .. FrameLen - 1,
             time : Nat, deeds : Deeds]
Begun(clk, beam) == [clk |-> clk, beam |-> beam, time |-> 0, deeds |-> <<>>]
Starts == {"INITIAL_SAVE", "INITIAL_RESET"}
Events == [type : Starts \cup {"key", "RESETCPU", "OVERFLOW", "TIMESTAMP", "LIST_END"},
           clk : Clock]
Reasons == {"hurry", "tie", "stale", "both", "stopped"}
EndFiles == [list : Seq(Events), machine : Machines, over : BOOLEAN, upset : SUBSET Reasons]

Event(type, clk) == [type |-> type, clk |-> clk]
Blank == Event("LIST_END", 0)

TypeOK ==
    /\ machine \in Machines /\ resetting \in BOOLEAN
    /\ list \in Seq(Events)
    /\ IF list = <<>> THEN current = 0 ELSE current \in DOMAIN list
    /\ alarm \in Clock \cup {Unset}
    /\ record \in BOOLEAN /\ playback \in BOOLEAN
    /\ nextStamp \in Clock /\ milestoneStamp \in Clock
    /\ startFile \in Machines \cup {NoFile} /\ endFile \in EndFiles \cup {NoFile}
    /\ upset \in SUBSET Reasons
    /\ left \in [Kinds -> Nat]

Init ==
    /\ \E clk \in InitialClks : machine = Begun(clk, 0)
    /\ resetting = FALSE
    /\ list = <<>> /\ current = 0 /\ alarm = Unset
    /\ record = FALSE /\ playback = FALSE
    /\ nextStamp = 0 /\ milestoneStamp = 0
    /\ startFile = NoFile /\ endFile = NoFile
    /\ upset = {} /\ left \in Budgets

-----------------------------------------------------------------------------
Due == alarm # Unset /\ machine.clk >= alarm
GuardDue == machine.beam = 0 /\ machine.clk >= ClkMax

Spend(kind) == left[kind] > 0 /\ left' = [left EXCEPT ![kind] = @ - 1]

(* next_alarm_set: an event that seems to lie far back lies behind the next *)
(* move of the clock.                                                       *)
NextAlarm(event, clk) ==
    IF clk > SubMin /\ event.clk < clk - SubMin THEN Plus(event.clk, Sub) ELSE event.clk

(* event_record_in_list                                                     *)
Recorded(type, clk) == [list EXCEPT ![current] = Event(type, clk)] \o <<Blank>>
RecordInList(type) ==
    /\ list' = Recorded(type, machine.clk)
    /\ current' = current + 1
    /\ nextStamp' = IF type = "RESETCPU" THEN Minus(nextStamp, machine.clk) ELSE nextStamp

(* Events that cannot be told apart when they are played: one during a      *)
(* pending reset, and those in the cycle in which the clock is about to be  *)
(* moved.                                                                   *)
Upsets == (IF resetting THEN {"hurry"} ELSE {}) \cup (IF GuardDue THEN {"tie"} ELSE {})

Do(what) == [machine EXCEPT !.deeds = Append(@, [what |-> what, time |-> machine.time])]

(* event_snapshot_read_module inserts a timestamp for every second, up to   *)
(* the moved clock in front of a move.                                      *)
Seconds(from, to) ==
    CHOOSE n \in 0 .. Modulus : /\ Plus(from, n * Second) >= to
                               /\ \A k \in 0 .. n - 1 : Plus(from, k * Second) < to
Stamped(acc, event) ==
    LET n == Seconds(acc.stamp, IF event.type = "OVERFLOW" THEN ClkMax ELSE event.clk)
        stamp == Plus(acc.stamp, n * Second)
    IN  [list |-> acc.list
                  \o [i \in 1 .. n |-> Event("TIMESTAMP", Plus(acc.stamp, (i - 1) * Second))]
                  \o <<event>>,
         stamp |-> CASE event.type = "RESETCPU" -> Minus(stamp, event.clk)
                     [] event.type = "OVERFLOW" -> Minus(stamp, Sub)
                     [] OTHER -> stamp]
LoadStep(acc, event) ==
    IF event.type \in Starts
    THEN [list |-> Append(acc.list, event),
          stamp |-> IF event.type = "INITIAL_RESET" THEN 0 ELSE event.clk]
    ELSE Stamped(acc, event)
EndOf(saved) == CHOOSE i \in DOMAIN saved :
                    /\ saved[i].type = "LIST_END"
                    /\ \A j \in 1 .. i - 1 : saved[j].type # "LIST_END"
Load(saved) ==
    LET acc[i \in 0 .. EndOf(saved)] ==
            IF i = 0 THEN [list |-> <<>>, stamp |-> 0] ELSE LoadStep(acc[i - 1], saved[i])
    IN  acc[EndOf(saved)]

(* warp_end_list: recording goes on where the list ends.                    *)
WarpEnd(events) == Front(events) \o <<Blank>>

(* event_snapshot_write_module: timestamps are not saved.                   *)
Kept(events) ==
    LET kept[i \in 0 .. Len(events)] ==
            IF i = 0 THEN <<>>
            ELSE IF events[i].type = "TIMESTAMP" THEN kept[i - 1]
            ELSE Append(kept[i - 1], events[i])
    IN  kept[Len(events)]
Save(events, over, why) ==
    [list |-> Kept(events), machine |-> machine, over |-> over, upset |-> why]

-----------------------------------------------------------------------------
(* The machine.                                                             *)

(* An opcode.  The clock stands still while nothing is recorded or played.  *)
Tick ==
    /\ ~resetting /\ ~Due /\ ~GuardDue
    /\ (playback /\ ~record) \/ ((record \/ alarm # Unset) /\ machine.time < Horizon)
    /\ machine' = [machine EXCEPT !.clk = Plus(@, 1), !.beam = (@ + 1) % FrameLen,
                                  !.time = IF @ > Horizon THEN @ ELSE @ + 1]
    /\ UNCHANGED <<resetting, list, current, alarm, modes, stamps, files, upset, left>>

(* clk_guard_prevent_overflow moves the clock, then the alarm and what      *)
(* event.c keeps itself (clk_overflow_callback).                            *)
Guard ==
    /\ GuardDue
    /\ machine' = [machine EXCEPT !.clk = @ - Sub]
    /\ alarm' = IF alarm = Unset THEN Unset ELSE Minus(alarm, Sub)
    /\ IF record THEN list' = Recorded("OVERFLOW", machine'.clk) /\ current' = current + 1
       ELSE UNCHANGED <<list, current>>
    /\ nextStamp' = IF nextStamp = 0 THEN 0 ELSE Minus(nextStamp, Sub)
    /\ upset' = IF record /\ resetting THEN upset \cup {"hurry"} ELSE upset
    /\ UNCHANGED <<resetting, modes, milestoneStamp, files, left>>

(* The user does something that the machine notices.                        *)
Input ==
    /\ Spend("input") /\ ~playback
    /\ machine' = Do("key")
    /\ IF record THEN RecordInList("key") /\ upset' = upset \cup Upsets
       ELSE UNCHANGED <<list, current, nextStamp, upset>>
    /\ UNCHANGED <<resetting, alarm, modes, milestoneStamp, files>>

(* machine_trigger_reset                                                    *)
TriggerReset ==
    /\ Spend("input") /\ ~playback
    /\ resetting' = TRUE
    /\ IF record THEN RecordInList("RESETCPU") /\ upset' = upset \cup Upsets
       ELSE UNCHANGED <<list, current, nextStamp, upset>>
    /\ UNCHANGED <<machine, alarm, modes, milestoneStamp, files>>

(* event_reset_ack, after the clock has begun anew.  events, cur, ack, rec  *)
(* and stamp are what event.c keeps at that time.                           *)
AckAlarm(events, cur, ack, rec, stamp, old) ==
    IF events = <<>> THEN old
    ELSE IF rec THEN stamp
    ELSE IF events[cur].type = "RESETCPU" THEN NextAlarm(events[cur + 1], ResetClk)
    ELSE IF ack THEN NextAlarm(events[cur], ResetClk)
    ELSE old

\* Mutant of AckCurrent: playback stays at a reset that has been served.
AckCurrentStays(events, cur) == cur

AckCurrent(events, cur) ==
    IF events # <<>> /\ events[cur].type = "RESETCPU" THEN cur + 1 ELSE cur

(* cpu_reset                                                                *)
ServeReset ==
    /\ resetting /\ resetting' = FALSE
    /\ machine' = [Do("reset") EXCEPT !.clk = ResetClk, !.beam = 0]
    /\ current' = AckCurrent(list, current)
    /\ alarm' = AckAlarm(list, current, FALSE, record, nextStamp, alarm)
    /\ upset' = IF alarm' # alarm /\ ~record /\ ~playback THEN upset \cup {"stopped"} ELSE upset
    /\ UNCHANGED <<list, record, playback, stamps, files, left>>

-----------------------------------------------------------------------------
(* event_alarm_handler                                                      *)

StampAlarm ==
    /\ Due /\ record
    /\ nextStamp' = Plus(nextStamp, Second)
    /\ alarm' = nextStamp'
    /\ UNCHANGED <<machine, resetting, list, current, modes, milestoneStamp, files,
                   upset, left>>

PlayEvent ==
    /\ Due /\ ~record /\ list[current].type \notin {"RESETCPU", "LIST_END"}
    /\ machine' = IF list[current].type = "key"
                  THEN Do("key") ELSE machine
    /\ current' = current + 1
    /\ alarm' = NextAlarm(list[current + 1], machine.clk)
    /\ UNCHANGED <<resetting, list, modes, stamps, files, upset, left>>

PlayReset ==
    /\ Due /\ ~record /\ list[current].type = "RESETCPU"
    /\ resetting' = TRUE /\ alarm' = Unset
    /\ UNCHANGED <<machine, list, current, modes, stamps, files, upset, left>>

\* Mutant of PlayEnd: the alarm is set for the end of the list again.
PlayEndRepeats ==
    /\ Due /\ ~record /\ list[current].type = "LIST_END"
    /\ alarm' = NextAlarm(list[current], machine.clk)
    /\ UNCHANGED <<machine, resetting, list, current, modes, stamps, files, upset, left>>

PlayEnd ==
    /\ Due /\ ~record /\ list[current].type = "LIST_END"
    /\ playback' = FALSE /\ alarm' = Unset
    /\ UNCHANGED <<machine, resetting, list, current, record, stamps, files,
                   upset, left>>

-----------------------------------------------------------------------------
(* The user's commands, with the traps by which they are carried out.       *)

Begins(why) == IF resetting THEN why \cup {"hurry"} ELSE why
Both == IF playback THEN {"both"} ELSE {}

(* event_record_start_trap: a new recording                                 *)
RecordStartSave ==
    LET m == Begun(machine.clk, machine.beam)
    IN  /\ Spend("record") /\ ~record
        /\ machine' = m /\ startFile' = m
        /\ list' = <<Event("INITIAL_SAVE", m.clk), Blank>> /\ current' = 2
        /\ record' = TRUE
        /\ nextStamp' = m.clk /\ alarm' = m.clk /\ milestoneStamp' = 0
        /\ upset' = Begins(Both)
        /\ endFile' = IF endFile = NoFile THEN NoFile
                      ELSE [endFile EXCEPT !.upset = @ \cup {"stale"}]
        /\ UNCHANGED <<resetting, playback>>

(* A new recording that begins with a reset, which is served at once, but   *)
(* refused during playback.                                                 *)
RecordStartReset ==
    /\ Spend("record") /\ ~record
    /\ machine' = IF playback THEN Begun(machine.clk, machine.beam) ELSE Begun(ResetClk, 0)
    /\ list' = <<Event("INITIAL_RESET", machine.clk), Blank>> /\ current' = 2
    /\ record' = TRUE /\ resetting' = (resetting /\ playback)
    /\ nextStamp' = 0 /\ milestoneStamp' = 0
    /\ alarm' = 0
    /\ upset' = Both
    /\ UNCHANGED <<playback, files>>

(* The recording of end.vsf is continued.                                   *)
RecordStartLoad ==
    /\ Spend("record") /\ ~record /\ endFile # NoFile
    /\ LET loaded == Load(endFile.list)
       IN  /\ list' = WarpEnd(loaded.list)
           /\ current' = Len(loaded.list)
    /\ machine' = endFile.machine
    /\ record' = TRUE
    /\ nextStamp' = endFile.machine.clk /\ alarm' = nextStamp' /\ milestoneStamp' = 0
    /\ upset' = Begins(endFile.upset \cup Both)
    /\ UNCHANGED <<resetting, playback, files>>

(* Playback is stopped, and the rest of its list recorded anew.             *)
RecordStartPlayback ==
    /\ Spend("record") /\ ~record /\ playback
    /\ list' = SubSeq(list, 1, current - 1) \o <<[list[current] EXCEPT !.type = "LIST_END"]>>
    /\ playback' = FALSE /\ record' = TRUE
    /\ nextStamp' = machine.clk /\ alarm' = nextStamp' /\ milestoneStamp' = 0
    /\ upset' = Begins(upset) \cup
                (IF GuardDue \/ (Due /\ list[current].type = "OVERFLOW") THEN {"tie"} ELSE {})
    /\ UNCHANGED <<machine, resetting, current, files>>

(* Mutant of RecordStop: the end is not recorded.                           *)
RecordStopNoEnd ==
    /\ Spend("stop") /\ record
    /\ endFile' = Save(list, TRUE, upset \cup Upsets)
    /\ record' = FALSE /\ alarm' = Unset
    /\ UNCHANGED <<machine, resetting, list, current, nextStamp, playback, milestoneStamp,
                   startFile, upset>>

(* event_record_stop                                                        *)
RecordStop ==
    /\ Spend("stop") /\ record
    /\ RecordInList("LIST_END")
    /\ endFile' = Save(list', TRUE, upset \cup Upsets)
    /\ record' = FALSE /\ alarm' = Unset
    /\ UNCHANGED <<machine, resetting, playback, milestoneStamp, startFile,
                   upset>>

(* event_record_set_milestone_trap                                          *)
SetMilestone ==
    /\ Spend("milestone") /\ record
    /\ endFile' = Save(list, FALSE, Begins(upset))
    /\ milestoneStamp' = nextStamp
    /\ UNCHANGED <<machine, resetting, list, current, alarm, modes, nextStamp, startFile,
                   upset>>

(* event_record_reset_milestone_trap                                        *)
ResetMilestone ==
    /\ Spend("milestone") /\ record /\ ~playback /\ endFile # NoFile
    /\ LET loaded == Load(endFile.list)
       IN  /\ list' = WarpEnd(loaded.list)
           /\ current' = Len(loaded.list)
           /\ nextStamp' = IF milestoneStamp > 0 THEN milestoneStamp ELSE loaded.stamp
    /\ alarm' = IF milestoneStamp > 0 THEN milestoneStamp ELSE alarm
    /\ machine' = endFile.machine
    /\ upset' = Begins(endFile.upset)
    /\ UNCHANGED <<resetting, modes, milestoneStamp, files>>

(* There is no end.vsf: the recording is over, unnoticed.                   *)
ResetMilestoneFails ==
    /\ Spend("milestone") /\ record /\ ~playback /\ endFile = NoFile
    /\ record' = FALSE
    /\ UNCHANGED <<machine, resetting, list, current, alarm, playback, stamps,
                   files, upset>>

(* event_playback_start_trap, from start.vsf or from a reset, which is      *)
(* served at once.                                                          *)
PlaybackStart ==
    LET loaded == Load(endFile.list)
        resets == loaded.list[1].type = "INITIAL_RESET"
        m == IF resets THEN Begun(ResetClk, 0)
             ELSE startFile
    IN  /\ Spend("play") /\ ~record /\ ~playback /\ ~resetting /\ endFile # NoFile
        /\ list' = loaded.list /\ nextStamp' = loaded.stamp
        /\ machine' = m
        /\ IF resets
           THEN /\ current' = AckCurrent(list', 2)
                /\ alarm' = AckAlarm(list', 2, TRUE, FALSE, nextStamp', alarm)
           ELSE current' = 2 /\ alarm' = NextAlarm(list'[2], m.clk)
        /\ playback' = TRUE
        /\ upset' = endFile.upset
        /\ UNCHANGED <<resetting, record, milestoneStamp, files>>

(* event_playback_stop                                                      *)
PlaybackStop ==
    /\ Spend("halt") /\ playback
    /\ playback' = FALSE /\ alarm' = Unset
    /\ UNCHANGED <<machine, resetting, list, current, record, stamps, files,
                   upset>>

Next ==
    \/ Tick \/ Guard \/ Input \/ TriggerReset \/ ServeReset
    \/ StampAlarm \/ PlayEvent \/ PlayReset \/ PlayEnd
    \/ RecordStartSave \/ RecordStartReset \/ RecordStartLoad \/ RecordStartPlayback
    \/ RecordStop \/ SetMilestone \/ ResetMilestone \/ ResetMilestoneFails
    \/ PlaybackStart \/ PlaybackStop

(* The machine runs.                                                        *)
Runs == Tick \/ Guard \/ ServeReset \/ StampAlarm \/ PlayEvent \/ PlayReset \/ PlayEnd
Spec == Init /\ [][Next]_vars /\ WF_vars(Runs)

-----------------------------------------------------------------------------
Playing == playback /\ ~record /\ upset = {}

(* At any time of playback exactly that has been done to the machine which  *)
(* had been done when it was recorded.                                      *)
InStep ==
    LET script == endFile.machine.deeds
    IN  /\ IsPrefix(machine.deeds, script)
        /\ \A i \in DOMAIN script :
               script[i].time < machine.time => i <= Len(machine.deeds)

(* A recording is played back to the cycle, over moves of the clock, resets, *)
(* milestones and continued recordings (event.c:334-422); vice.texi:16303:  *)
(* "VICE supports recording an arbitrary session on the emulated machine    *)
(* and playing back this session later."  It takes a second and a frame     *)
(* that are no longer than CLKGUARD_SUB_MIN: the alarm for what follows a   *)
(* move is set with a sum that must not leave the range of CLOCK            *)
(* (event.c:342).                                                           *)
Replays == Playing => InStep

(* The playback of a finished recording ends in the cycle in which the      *)
(* recording was ended, and no playback leaves a deed out (event.c:408).    *)
EndsWithTheRecording ==
    [][PlayEnd /\ Playing =>
           /\ machine.deeds = endFile.machine.deeds
           /\ endFile.over => machine.time = endFile.machine.time]_vars

(* Playback comes to its end by itself and gives the machine back to the    *)
(* user (event.c:408).                                                      *)
PlaybackEnds == Playing ~> ~Playing
=============================================================================
