----------------------------- MODULE Autostart ------------------------------
(***************************************************************************)
(* Autostart (src/vice/src/autostart.c): the machine is reset, a program is *)
(* loaded by typing LOAD through the keyboard buffer and run by typing RUN. *)
(* On the way warp mode is turned on and true drive emulation off, which is *)
(* to be undone at the end.  autostart_advance is called at the end of each *)
(* frame and finds out from the screen how far the KERNAL has come; while a *)
(* disk is loaded through traps it waits for callbacks from the bus.        *)
(*                                                                         *)
(* External: the KERNAL with the program it loads, abstracted to what it    *)
(* shows, the line that is typed and whether a program is in memory.  With  *)
(* true drive emulation a message stays for a frame at least.               *)
(*                                                                         *)
(* Bounds: the user autostarts at most MaxStarts times and does at most     *)
(* MaxActs other things (a reset, a new setting, a LOAD typed by hand).      *)
(* The clock counts frames; from Late on clocks are not told apart, and     *)
(* time goes on by bringing the alarm nearer.  The move of the clock by the *)
(* clock guard, more than an hour later, is left out.                       *)
(***************************************************************************)
EXTENDS Kbdbuf

CONSTANTS
    MinCycles,     \* min_cycles
    Delays,        \* what AutostartDelayRandom may add
    Late,          \* a clock at which every delay is over
    Media,         \* what the user autostarts
    MaxStarts, MaxActs

ASSUME AutostartAssumption ==
    /\ {MinCycles, Late, MaxStarts, MaxActs} \subseteq Nat
    /\ Delays \subseteq Nat /\ Delays # {}
    /\ KernalInit <= Late /\ \A d \in Delays : MinCycles + d <= Late
    /\ Media \subseteq {"disk", "tape", "inject", "snapshot"}
    /\ Len(Load) <= BufferSize      \* or a LOAD could not be typed by hand

VARIABLES
    clk,            \* maincpu_clk
    resetting,      \* a reset is asked for
    kbd,            \* kbdbuf.c
    kernal,         \* the emulated machine
    settings,       \* resources: drive emulation, warp mode, traps, handling of the drive
    orig,           \* orig_drive_true_emulation_state, orig_warp_mode
    autostartmode,
    delay,          \* autostart_initial_delay_cycles
    waitForReset,   \* autostart_wait_for_reset
    ignoreReset,    \* autostart_ignore_reset
    enteredRom,     \* entered_rom
    callback,       \* callbacks of the bus that are set
    session,        \* history: how often something was autostarted
    wanted,         \* history: drive emulation and warp mode as the user set them
    upset,          \* history: what has gone wrong
    left            \* how much the user may still do

machine == <<clk, resetting, kbd, kernal>>
own == <<orig, autostartmode, delay, waitForReset, ignoreReset, enteredRom, callback>>
history == <<session, wanted, upset, left>>
vars == <<machine, settings, own, history>>

Clock == 0 .. Late
Modes == {"NONE", "ERROR", "HASTAPE", "PRESSPLAYONTAPE", "LOADINGTAPE", "HASDISK",
          "LOADINGDISK", "HASSNAPSHOT", "WAITLOADREADY", "WAITLOADING",
          "WAITSEARCHINGFOR", "INJECT", "DONE"}
ModeOf == [disk |-> "HASDISK", tape |-> "HASTAPE", inject |-> "INJECT",
           snapshot |-> "HASSNAPSHOT"]
Shows == {"boot", "READY.", "PRESS PLAY ON TAPE", "SEARCHING FOR", "LOADING", "ERROR",
          "RUNNING"}
Kernals == [shows : Shows, line : Seq(Keys), memory : BOOLEAN, drawn : BOOLEAN]
\* What has gone wrong: an autostart during an autostart; a disk without traps to
\* load through; commands left in the queue by a reset; and something of an earlier
\* autostart that was used, the saved drive emulation ("stale"), the saved warp
\* mode or a callback ("old").  And that a file was not found ("failed").
Reasons == {"again", "notraps", "keys", "stale", "old", "failed"}

TypeOK ==
    /\ clk \in Clock /\ resetting \in BOOLEAN
    /\ kbd \in Kbdbufs(0 .. Late + 1)
    /\ Len(kbd.queue) <= QueueSize
    /\ Len(kbd.buffer) <= BufferSize \/ "keys" \in upset
    /\ kernal \in Kernals
    /\ settings \in [tde : BOOLEAN, warp : BOOLEAN, traps : BOOLEAN,
                     handle : BOOLEAN, autowarp : BOOLEAN, random : BOOLEAN]
    /\ orig \in [tde : BOOLEAN, warp : BOOLEAN]
    /\ autostartmode \in Modes
    /\ delay \in Nat
    /\ waitForReset \in BOOLEAN /\ ignoreReset \in BOOLEAN /\ enteredRom \in BOOLEAN
    /\ callback \subseteq {"attention", "eof"}
    /\ session \in 0 .. MaxStarts /\ left \in 0 .. MaxActs
    /\ wanted \in [tde : BOOLEAN, warp : BOOLEAN]
    /\ upset \subseteq Reasons

Booting == [shows |-> "boot", line |-> <<>>, memory |-> FALSE, drawn |-> FALSE]

\* There is a drive to load from.  orig_warp_mode is -1 before the first
\* autostart, which counts as on.
Init ==
    /\ clk = 0 /\ resetting = FALSE /\ kbd = EmptyKbdbuf /\ kernal = Booting
    /\ settings \in [tde : BOOLEAN, warp : BOOLEAN, traps : BOOLEAN,
                     handle : BOOLEAN, autowarp : BOOLEAN, random : BOOLEAN]
    /\ settings.tde \/ settings.traps \/ settings.handle
    /\ orig = [tde |-> settings.tde, warp |-> TRUE]
    /\ autostartmode = "NONE" /\ delay = 0
    /\ waitForReset = FALSE /\ ignoreReset = FALSE /\ enteredRom = FALSE
    /\ callback = {}
    /\ session = 0 /\ left = MaxActs
    /\ wanted = [tde |-> settings.tde, warp |-> settings.warp]
    /\ upset = {}

\* autostart_in_progress counts ERROR as well, for ever after.
InProgress == autostartmode \notin {"NONE", "DONE", "ERROR"}

-----------------------------------------------------------------------------
(* The frame.                                                               *)

AlarmDue == kbd.alarm # Unset /\ clk >= kbd.alarm

(* A frame ends: vsyncarch_presync has flushed the keyboard buffer, the     *)
(* hook has made kb of it.  The KERNAL has come up before it is typed to.   *)
Flushed == Flush(kbd, clk)
FrameEndsWith(kb, k) ==
    LET sub == IF clk = Late THEN 1 ELSE 0
    IN  /\ ~resetting /\ ~AlarmDue
        /\ kernal.shows = "boot" => clk + 1 < KernalInit
        /\ clk' = clk + 1 - sub
        /\ kbd' = IF kb.alarm = Unset THEN kb ELSE [kb EXCEPT !.alarm = @ - sub]
        /\ kernal' = [k EXCEPT !.drawn = TRUE]
        /\ UNCHANGED <<resetting, delay, ignoreReset, session, wanted, left>>

FrameEnds(kb) == FrameEndsWith(kb, kernal)

(* check: the answers that the screen may give.                             *)
Shown(text) ==
    IF Flushed.buffer # <<>> THEN {"NOT_YET"}
    ELSE CASE kernal.shows = "RUNNING" -> {"NOT_YET", "NO"}
           [] text = "READY." /\ kernal.shows = text /\ kernal.line = <<>> -> {"YES"}
           [] text = "READY." -> {"NOT_YET"}
           [] kernal.shows = text -> {"YES"}
           [] kernal.shows = "READY." /\ kernal.line = <<>> -> {"NOT_YET"}
           [] OTHER -> {"NO"}

Polls(mode) == autostartmode = mode /\ clk >= delay /\ ~waitForReset

\* Mutant: warp mode stays on when the program has been loaded.
WarpStays == settings
Warp(on) == IF settings.autowarp /\ ~orig.warp THEN on ELSE settings.warp
WarpOff == [settings EXCEPT !.warp = Warp(FALSE)]

(* autostart_finish                                                         *)
Finish(kb) == Feed(kb, Run, settings.random, clk)

\* Mutant: the reset is waited for with a clock that is already past it.
HookIdlesStill ==
    /\ FrameEnds(Flushed)
    /\ clk < delay \/ waitForReset \/ autostartmode \in {"NONE", "DONE", "ERROR", "LOADINGDISK"}
    /\ UNCHANGED <<settings, orig, autostartmode, waitForReset, enteredRom, callback, upset>>

(* autostart_advance without an effect                                      *)
HookIdles ==
    /\ FrameEnds(Flushed)
    /\ waitForReset' = (waitForReset /\ clk >= delay)
    /\ \/ clk < delay \/ waitForReset
       \/ autostartmode \in {"NONE", "DONE", "ERROR", "LOADINGDISK"}
    /\ UNCHANGED <<settings, orig, autostartmode, enteredRom, callback, upset>>

(* A stage that has to wait for text and goes on without feeding anything.  *)
Waits(mode, text) ==
    /\ Polls(mode) /\ "NOT_YET" \in Shown(text)
    /\ FrameEnds(Flushed)
    /\ UNCHANGED <<settings, own, upset>>

(* autostart_disable, and the end of autostart_advance                      *)
Fails(mode, text, warp) ==
    /\ Polls(mode) /\ "NO" \in Shown(text)
    /\ autostartmode' = "ERROR"
    /\ orig' = IF mode = "HASDISK" THEN [orig EXCEPT !.tde = settings.tde] ELSE orig
    /\ settings' = [settings EXCEPT !.warp = IF warp THEN Warp(FALSE) ELSE @,
                                    !.tde = IF settings.handle THEN orig'.tde ELSE @]
    /\ FrameEnds(Flushed)
    /\ UNCHANGED <<waitForReset, enteredRom, callback, upset>>

Goes(mode, text, next) ==
    /\ Polls(mode) /\ "YES" \in Shown(text)
    /\ autostartmode' = next
    /\ enteredRom' = (enteredRom /\ next \notin {"PRESSPLAYONTAPE", "WAITLOADREADY"})
    /\ UNCHANGED waitForReset

AdvanceHasTape ==
    \/ /\ Goes("HASTAPE", "READY.", "PRESSPLAYONTAPE")
       /\ FrameEnds(Feed(Flushed, LoadTape, FALSE, clk))
       /\ UNCHANGED <<settings, orig, callback, upset>>
    \/ Waits("HASTAPE", "READY.") \/ Fails("HASTAPE", "READY.", TRUE)

AdvancePressPlayOnTape ==
    \/ /\ Goes("PRESSPLAYONTAPE", "PRESS PLAY ON TAPE", "LOADINGTAPE")
       /\ FrameEnds(Flushed)
       /\ UNCHANGED <<settings, orig, callback, upset>>
    \/ Waits("PRESSPLAYONTAPE", "PRESS PLAY ON TAPE")
    \/ Fails("PRESSPLAYONTAPE", "PRESS PLAY ON TAPE", TRUE)

(* check_rom_area: the program may leave the ROM by itself, which is        *)
(* noticed if the ROM has been seen before.                                 *)
LeavesRom(mode) ==
    LET inRam == kernal.shows = "RUNNING"
    IN  /\ Polls(mode) /\ "NOT_YET" \in Shown("READY.")
        /\ enteredRom' = (enteredRom \/ ~inRam)
        /\ IF enteredRom /\ inRam
           THEN autostartmode' = "DONE" /\ settings' = WarpOff
           ELSE UNCHANGED <<autostartmode, settings>>
        /\ FrameEnds(Flushed)
        /\ UNCHANGED <<orig, waitForReset, callback, upset>>

(* The READY. after loading: advance_loadingtape, advance_waitloadready     *)
Loaded(mode) ==
    /\ Goes(mode, "READY.", "DONE")
    /\ settings' = WarpOff
    /\ FrameEnds(Finish(Flushed))
    /\ UNCHANGED <<orig, callback, upset>>

AdvanceLoadingTape ==
    Loaded("LOADINGTAPE") \/ LeavesRom("LOADINGTAPE") \/ Fails("LOADINGTAPE", "READY.", TRUE)
AdvanceWaitLoadReady ==
    Loaded("WAITLOADREADY") \/ LeavesRom("WAITLOADREADY")
    \/ Fails("WAITLOADREADY", "READY.", TRUE)

(* advance_hasdisk: LOAD is typed.  Through traps the bus is waited for,    *)
(* otherwise the screen, and without warp mode nothing.                     *)
AdvanceHasDisk ==
    \/ LET byTrap == IF settings.handle THEN settings.traps ELSE ~settings.tde
           typed == Feed(Flushed, Load, FALSE, clk)
       IN  /\ Polls("HASDISK") /\ "YES" \in Shown("READY.")
           /\ orig' = [orig EXCEPT !.tde = settings.tde]
           /\ settings' = IF settings.handle THEN [settings EXCEPT !.tde = ~settings.traps]
                          ELSE settings
           /\ upset' = (upset \ (IF settings.tde = wanted.tde THEN {"stale"} ELSE {})) \cup
                       (IF settings.handle /\ ~settings.traps /\ ~settings.tde
                        THEN {"notraps"} ELSE {})
           /\ callback' = IF byTrap THEN callback \cup {"attention"} ELSE callback
           /\ autostartmode' = CASE byTrap -> "LOADINGDISK"
                                 [] ~byTrap /\ settings.autowarp -> "WAITSEARCHINGFOR"
                                 [] OTHER -> "DONE"
           /\ FrameEnds(IF autostartmode' = "DONE" THEN Finish(typed) ELSE typed)
           /\ UNCHANGED <<waitForReset, enteredRom>>
    \/ Waits("HASDISK", "READY.") \/ Fails("HASDISK", "READY.", TRUE)

AdvanceWaitSearchingFor ==
    \/ /\ Goes("WAITSEARCHINGFOR", "SEARCHING FOR", "WAITLOADING")
       /\ FrameEnds(Flushed)
       /\ UNCHANGED <<settings, orig, callback, upset>>
    \/ Waits("WAITSEARCHINGFOR", "SEARCHING FOR")
    \/ Fails("WAITSEARCHINGFOR", "SEARCHING FOR", TRUE)

AdvanceWaitLoading ==
    \/ /\ Goes("WAITLOADING", "LOADING", "WAITLOADREADY")
       /\ FrameEnds(Flushed)
       /\ UNCHANGED <<settings, orig, callback, upset>>
    \/ /\ Polls("WAITLOADING")
       /\ "NOT_YET" \in Shown("LOADING") \/ "YES" \in Shown("SEARCHING FOR")
       /\ FrameEnds(Flushed)
       /\ UNCHANGED <<settings, own, upset>>
    \/ "YES" \notin Shown("SEARCHING FOR") /\ Fails("WAITLOADING", "LOADING", TRUE)

(* The snapshot is read by a trap, which brings a running program.          *)
AdvanceHasSnapshot ==
    \/ /\ Goes("HASSNAPSHOT", "READY.", "DONE")
       /\ FrameEndsWith(Flushed, [kernal EXCEPT !.shows = "RUNNING", !.memory = TRUE])
       /\ UNCHANGED <<settings, orig, callback, upset>>
    \/ Waits("HASSNAPSHOT", "READY.") \/ Fails("HASSNAPSHOT", "READY.", FALSE)

(* There is a program to inject: autostart_prg is called only after          *)
(* autostart_disk or autostart_snapshot has failed, so the mode is ERROR    *)
(* when it loses the program of an earlier autostart and cannot load        *)
(* another (StartFails), and the branch of autostart.c:954 is not taken.    *)
AdvanceInject ==
    /\ Polls("INJECT")
    /\ autostartmode' = "WAITLOADREADY"
    /\ FrameEndsWith(Flushed, [kernal EXCEPT !.memory = TRUE])
    /\ UNCHANGED <<settings, orig, waitForReset, enteredRom, callback, upset>>

Frame ==
    \/ HookIdles \/ AdvanceHasTape \/ AdvancePressPlayOnTape \/ AdvanceLoadingTape
    \/ AdvanceHasDisk \/ AdvanceHasSnapshot \/ AdvanceWaitSearchingFor
    \/ AdvanceWaitLoading \/ AdvanceWaitLoadReady \/ AdvanceInject

AlarmFires ==
    /\ AlarmDue /\ ~resetting
    /\ kbd' = PressReturn(kbd)
    /\ UNCHANGED <<clk, resetting, kernal, settings, own, history>>

-----------------------------------------------------------------------------
(* Resets.                                                                  *)

\* Mutant: only warp mode is undone.
UndoneWarp == [settings EXCEPT !.warp = Warp(FALSE)]

(* disk_eof_callback: what it does to the settings; it is called at the end *)
(* of a file, and by a reset.                                               *)
Undone == [settings EXCEPT !.tde = IF settings.handle THEN orig.tde ELSE @,
                           !.warp = Warp(FALSE)]

\* Mutant: autostart is turned off after the callback, which types RUN.
ServeResetRuns ==
    /\ resetting /\ resetting' = FALSE
    /\ clk' = 0 /\ kernal' = Booting /\ ignoreReset' = FALSE
    /\ IF ~ignoreReset /\ autostartmode \notin {"NONE", "ERROR"}
       THEN /\ autostartmode' = "NONE"
            /\ IF autostartmode # "DONE"
               THEN settings' = Undone /\ callback' = callback \ {"eof"} /\ kbd' = Finish(kbd)
               ELSE UNCHANGED <<kbd, settings, callback>>
       ELSE UNCHANGED <<kbd, autostartmode, settings, callback>>
    /\ upset' = IF kbd.queue # <<>> THEN upset \cup {"keys"} ELSE upset
    /\ UNCHANGED <<orig, delay, waitForReset, enteredRom, session, wanted, left>>

(* machine_reset with autostart_reset                                       *)
ServeReset ==
    /\ resetting /\ resetting' = FALSE
    /\ clk' = 0 /\ kernal' = Booting
    /\ ignoreReset' = FALSE
    /\ IF ~ignoreReset /\ autostartmode \notin {"NONE", "ERROR"}
       THEN /\ autostartmode' = "NONE"
            /\ IF autostartmode # "DONE"
               THEN settings' = Undone /\ callback' = callback \ {"eof"}
               ELSE UNCHANGED <<settings, callback>>
       ELSE UNCHANGED <<autostartmode, settings, callback>>
    /\ upset' = IF kbd.queue # <<>> THEN upset \cup {"keys"} ELSE upset
    /\ UNCHANGED <<kbd, orig, delay, waitForReset, enteredRom, session, wanted, left>>

Acts == left > 0 /\ left' = left - 1

UserResets ==
    /\ Acts
    /\ resetting' = TRUE
    /\ UNCHANGED <<clk, kbd, kernal, settings, own, session, wanted, upset>>

(* The user changes a setting while nothing is autostarted, typed or loaded. *)
UserSets ==
    /\ Acts /\ ~InProgress
    /\ kernal.shows \in {"READY.", "RUNNING"} /\ kbd.queue = <<>> /\ kbd.buffer = <<>>
    /\ \E on \in BOOLEAN :
           \/ /\ on \/ settings.traps \/ settings.handle
              /\ settings' = [settings EXCEPT !.tde = on] /\ wanted' = [wanted EXCEPT !.tde = on]
           \/ settings' = [settings EXCEPT !.warp = on] /\ wanted' = [wanted EXCEPT !.warp = on]
    /\ UNCHANGED <<machine, own, session, upset>>

(* The user loads a program by hand.                                        *)
UserLoads ==
    /\ Acts /\ ~InProgress /\ ~resetting
    /\ kernal.shows = "READY." /\ kernal.line = <<>> /\ kbd.buffer = <<>>
    /\ kbd' = [kbd EXCEPT !.buffer = Load]
    /\ UNCHANGED <<clk, resetting, kernal, settings, own, session, wanted, upset>>

(* reboot_for_autostart, after the file has been attached.                  *)
Starts(media) ==
    /\ session < MaxStarts /\ session' = session + 1
    /\ autostartmode' = ModeOf[media]
    /\ ignoreReset' = TRUE /\ waitForReset' = TRUE /\ resetting' = TRUE
    /\ \E d \in IF settings.random THEN Delays ELSE {0} : delay' = MinCycles + d
    /\ LET enables == settings.autowarp /\ media # "snapshot"
       IN  /\ orig' = IF enables THEN [orig EXCEPT !.warp = settings.warp] ELSE orig
           /\ settings' = [settings EXCEPT !.warp = @ \/ enables,
                                           !.traps = @ \/ media = "tape"]
    /\ upset' = (upset \ {"failed"}) \cup (IF InProgress THEN {"again"} ELSE {})
                     \cup (IF settings.handle /\ orig.tde # settings.tde THEN {"stale"} ELSE {})
                     \cup (IF media = "snapshot" /\ settings.warp # Warp(FALSE)
                           THEN {"old"} ELSE {})
    /\ UNCHANGED <<clk, kbd, kernal, enteredRom, callback, wanted, left>>

(* The file cannot be attached.                                             *)
StartFails ==
    /\ session < MaxStarts /\ session' = session + 1
    /\ autostartmode' = "ERROR"
    /\ upset' = IF InProgress THEN upset \cup {"again"} ELSE upset
    /\ UNCHANGED <<machine, settings, orig, delay, waitForReset, ignoreReset, enteredRom,
                   callback, wanted, left>>

-----------------------------------------------------------------------------
(* External: the KERNAL.                                                    *)

Kernal(from, to) ==
    /\ ~resetting /\ kernal.shows = from
    /\ kernal' = [to EXCEPT !.drawn = FALSE]
    /\ UNCHANGED <<clk, resetting, orig, delay, waitForReset, ignoreReset, enteredRom,
                   session, wanted, left>>

KernalBoots ==
    /\ Kernal("boot", [kernal EXCEPT !.shows = "READY."])
    /\ kbd' = [kbd EXCEPT !.buffer = <<>>]
    /\ UNCHANGED <<settings, autostartmode, callback, upset>>

KernalReads ==
    /\ kbd.buffer # <<>>
    /\ kbd' = [kbd EXCEPT !.buffer = Tail(@)]
    /\ LET line == kernal.line \o <<Head(kbd.buffer)>>
           answer == CASE line = Load -> "SEARCHING FOR"
                       [] line = LoadTape -> "PRESS PLAY ON TAPE"
                       [] line = Run /\ kernal.memory -> "RUNNING"
                       [] OTHER -> "READY."
       IN  Kernal("READY.", [kernal EXCEPT
                   !.line = IF Head(kbd.buffer) = "return" THEN <<>> ELSE line,
                   !.shows = IF Head(kbd.buffer) = "return" THEN answer ELSE @])
    /\ UNCHANGED <<settings, autostartmode, callback, upset>>

ByTrap == settings.traps /\ ~settings.tde

(* The file is found, or there is no drive.  serial_trap_attention calls    *)
(* disk_attention_callback.                                                 *)
KernalSearches ==
    /\ settings.tde => kernal.drawn
    /\ \E shows \in {"ERROR"} \cup (IF ByTrap \/ settings.tde THEN {"LOADING"} ELSE {}) :
           /\ Kernal("SEARCHING FOR", [kernal EXCEPT !.shows = shows])
           /\ upset' = upset \cup (IF shows = "ERROR" THEN {"failed"} ELSE {}) \cup
                       (IF ByTrap /\ "attention" \in callback /\ autostartmode # "LOADINGDISK"
                        THEN {"old"} ELSE {})
    /\ callback' = IF ByTrap /\ "attention" \in callback THEN {"eof"} ELSE callback
    /\ UNCHANGED <<kbd, settings, autostartmode>>

\* The file or the drive is not there.
KernalComplains ==
    /\ Kernal("ERROR", [kernal EXCEPT !.shows = "READY."])
    /\ UNCHANGED <<kbd, settings, autostartmode, callback, upset>>

(* PLAY is pressed on the datasette.                                        *)
KernalFindsTape ==
    /\ autostartmode # "PRESSPLAYONTAPE"
    /\ Kernal("PRESS PLAY ON TAPE", [kernal EXCEPT !.shows = "LOADING"])
    /\ UNCHANGED <<kbd, settings, autostartmode, callback, upset>>

(* The last byte is loaded, and the program may start by itself.            *)
(* serial_trap_receive calls disk_eof_callback.                             *)
KernalLoads ==
    /\ settings.tde => kernal.drawn
    /\ \E shows \in {"READY.", "RUNNING"} :
           Kernal("LOADING", [kernal EXCEPT !.shows = shows, !.memory = TRUE])
    /\ IF ByTrap /\ "eof" \in callback
       THEN /\ settings' = Undone
            /\ kbd' = IF autostartmode = "NONE" THEN kbd ELSE Finish(kbd)
            /\ autostartmode' = "DONE"
            /\ callback' = callback \ {"eof"}
       ELSE UNCHANGED <<settings, kbd, autostartmode, callback>>
    /\ UNCHANGED upset

KernalRuns ==
    \/ KernalBoots \/ KernalReads \/ KernalSearches \/ KernalComplains
    \/ KernalFindsTape \/ KernalLoads

Next ==
    \/ Frame \/ AlarmFires \/ ServeReset \/ KernalRuns
    \/ UserResets \/ UserSets \/ UserLoads \/ StartFails \/ \E media \in Media : Starts(media)

Spec ==
    /\ Init /\ [][Next]_vars
    /\ WF_vars(Frame) /\ WF_vars(AlarmFires) /\ WF_vars(ServeReset) /\ WF_vars(KernalRuns)

-----------------------------------------------------------------------------
(* When autostart is over, warp mode is what it was before, unless something *)
(* was autostarted in the meantime (enable_warp_if_requested takes the warp *)
(* mode that the first has turned on for the user's), or undone is what an  *)
(* earlier autostart has done (disable_warp_if_was_requested).              *)
WarpComesBack ==
    ~InProgress /\ upset \cap {"again", "old"} = {} => settings.warp = wanted.warp

(* So is drive emulation, provided that there were traps to load through,   *)
(* and that its saved state was not an old one (disk_eof_callback).         *)
DriveComesBack ==
    ~InProgress /\ upset \subseteq {"keys", "failed"} => settings.tde = wanted.tde

(* Despite all that may happen on the way, RUN is typed only when there is a *)
(* program to run, unless a reset found commands in the queue or the file    *)
(* was not found.                                                           *)
RunsAProgram ==
    [][KernalReads /\ kernal.line \o <<Head(kbd.buffer)>> = Run
           /\ upset \cap {"keys", "failed"} = {} => kernal.memory]_vars

(* Autostart comes to its end, with success or not, unless a file is not     *)
(* found: then it waits until the next reset for a text that is gone or for  *)
(* the end of the file (check of autostart.c takes an empty line for one    *)
(* that is not complete yet).                                               *)
AutostartEnds == InProgress ~> ~InProgress \/ "failed" \in upset
=============================================================================
