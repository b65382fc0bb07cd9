-------------------------- MODULE AutostartProofs ---------------------------
(***************************************************************************)
(* Warp mode and true drive emulation come back after an autostart, however *)
(* often the user autostarts and whatever else he does; what is typed fits, *)
(* and RUN is typed only when there is a program to run: for all values of  *)
(* the constants of module Autostart.                                       *)
(*                                                                         *)
(* None of this is inductive.  What holds while autostart is in progress is *)
(* that undoing now would bring the user's setting back (WarpInv, DriveInv) *)
(* and that the end of a file is waited for only by an autostart of a disk; *)
(* of the keys, that the line on the screen, the KERNAL's buffer and the    *)
(* queue together are whole commands, a RUN behind a LOAD (KeyInv).         *)
(***************************************************************************)
EXTENDS Autostart, SequenceTheorems, WellFoundedInduction, TLAPS

Settings == [tde : BOOLEAN, warp : BOOLEAN, traps : BOOLEAN,
             handle : BOOLEAN, autowarp : BOOLEAN, random : BOOLEAN]
Saved == [tde : BOOLEAN, warp : BOOLEAN]

TypeInv ==
    /\ settings \in Settings /\ orig \in Saved /\ wanted \in Saved
    /\ autostartmode \in Modes

(* The saved warp mode is the user's, where it will be put back.            *)
WarpInv ==
    upset \cap {"again", "old"} = {} =>
        /\ ~InProgress => settings.warp = wanted.warp
        /\ InProgress => Warp(FALSE) = wanted.warp
        /\ autostartmode = "HASSNAPSHOT" => settings.warp = wanted.warp
        /\ "eof" \in callback => autostartmode = "LOADINGDISK"

(* Drive emulation differs from what the user wants only while a disk is    *)
(* loaded through traps, and then it is saved.                              *)
DriveInv ==
    upset \subseteq {"keys", "failed"} =>
        /\ autostartmode # "LOADINGDISK" => settings.tde = wanted.tde
        /\ InProgress => Undone.tde = wanted.tde

Inv == TypeInv /\ WarpInv /\ DriveInv

-----------------------------------------------------------------------------
(* What putting the settings back does to them.                             *)
LEMMA UndoneFields ==
    ASSUME TypeInv
    PROVE  /\ Undone \in Settings
           /\ Undone.warp = Warp(FALSE)
           /\ Undone.tde = IF settings.handle THEN orig.tde ELSE settings.tde
           /\ Undone.handle = settings.handle /\ Undone.autowarp = settings.autowarp
           /\ WarpOff \in Settings
           /\ WarpOff.warp = Warp(FALSE) /\ WarpOff.tde = settings.tde
           /\ WarpOff.handle = settings.handle /\ WarpOff.autowarp = settings.autowarp
BY DEF TypeInv, Undone, WarpOff, Warp, Settings, Saved

LEMMA FrameEndsLeaves ==
    ASSUME NEW kb, NEW k, FrameEndsWith(kb, k) \/ FrameEnds(kb)
    PROVE  wanted' = wanted
BY DEF FrameEndsWith, FrameEnds

(* A step that leaves all of this alone.                                    *)
LEMMA Leaves ==
    ASSUME Inv, UNCHANGED <<settings, orig, autostartmode, callback, wanted, upset>>
    PROVE  Inv'
BY DEF Inv, TypeInv, WarpInv, DriveInv, InProgress, Warp, Undone

(* Autostart goes on to a next stage that is not the load through traps.    *)
LEMMA GoesOn ==
    ASSUME Inv, InProgress, autostartmode # "LOADINGDISK",
           UNCHANGED <<settings, orig, callback, wanted, upset>>,
           autostartmode' \in Modes \ {"LOADINGDISK", "HASSNAPSHOT"},
           autostartmode' = "DONE" => autostartmode = "HASSNAPSHOT",
           autostartmode' \notin {"NONE", "ERROR"}
    PROVE  Inv'
BY DEF Inv, TypeInv, WarpInv, DriveInv, InProgress, Warp, Undone

(* Autostart ends, and warp mode is put back.                               *)
LEMMA EndsWarpOff ==
    ASSUME Inv, InProgress, autostartmode # "LOADINGDISK", settings' = WarpOff,
           autostartmode' = "DONE", UNCHANGED <<orig, callback, wanted, upset>>
    PROVE  Inv'
<1>1. WarpOff \in Settings /\ WarpOff.warp = Warp(FALSE) /\ WarpOff.tde = settings.tde
  BY UndoneFields DEF Inv
<1>2. TypeInv'
  BY <1>1 DEF Inv, TypeInv, Modes
<1>3. WarpInv'
  BY <1>1 DEF Inv, WarpInv, InProgress
<1>4. DriveInv'
  BY <1>1 DEF Inv, DriveInv, InProgress
<1> QED BY <1>2, <1>3, <1>4 DEF Inv

(* Both settings are put back, at the end of the file or by a reset.        *)
LEMMA EndsUndone ==
    ASSUME Inv, settings' = Undone, autostartmode' \in {"DONE", "NONE"},
           callback' = callback \ {"eof"}, UNCHANGED <<orig, wanted>>,
           upset' \in {upset, upset \cup {"keys"}},
           InProgress \/ "eof" \in callback
    PROVE  Inv'
<1>1. Undone \in Settings /\ Undone.warp = Warp(FALSE)
  BY UndoneFields DEF Inv
<1>2. TypeInv'
  BY <1>1 DEF Inv, TypeInv, Modes
<1>3. upset \cap {"again", "old"} = {} => InProgress
  BY DEF Inv, WarpInv, InProgress
<1>4. WarpInv'
  BY <1>1, <1>3 DEF Inv, WarpInv, InProgress
<1>5. DriveInv'
  BY <1>3 DEF Inv, DriveInv, InProgress
<1> QED BY <1>2, <1>4, <1>5 DEF Inv

(* A stage fails.  When it is the one that types LOAD, drive emulation is   *)
(* saved first.                                                             *)
LEMMA Failing ==
    ASSUME Inv, NEW mode, NEW text, NEW warp \in BOOLEAN, Fails(mode, text, warp),
           mode \in Modes \ {"NONE", "ERROR", "DONE", "LOADINGDISK"},
           ~warp => mode = "HASSNAPSHOT"
    PROVE  Inv'
<1>1. autostartmode = mode /\ InProgress /\ autostartmode' = "ERROR" /\ ~InProgress'
  BY DEF Fails, Polls, InProgress
<1>2. UNCHANGED <<wanted, callback, upset>>
  BY FrameEndsLeaves DEF Fails
<1>3. orig' \in Saved /\ orig'.tde = IF mode = "HASDISK" THEN settings.tde ELSE orig.tde
  BY DEF Fails, Inv, TypeInv, Saved, Settings
<1> DEFINE w == IF warp THEN Warp(FALSE) ELSE settings.warp
           t == IF settings.handle THEN orig'.tde ELSE settings.tde
<1>4. w \in BOOLEAN /\ t \in BOOLEAN
  BY <1>3 DEF Inv, TypeInv, Settings, Saved, Warp
<1>5. settings' = [settings EXCEPT !.warp = w, !.tde = t]
  BY DEF Fails
<1>6. upset \cap {"again", "old"} = {} => w = wanted.warp
  BY <1>1 DEF Inv, WarpInv
<1>7. upset \subseteq {"keys", "failed"} => t = wanted.tde
  BY <1>1, <1>3, UndoneFields DEF Inv, DriveInv
<1> HIDE DEF w, t
<1>8. settings' \in Settings /\ settings'.warp = w /\ settings'.tde = t
  BY <1>4, <1>5 DEF Inv, TypeInv, Settings
<1>9. TypeInv'
  BY <1>1, <1>2, <1>3, <1>8 DEF Inv, TypeInv, Modes
<1>10. WarpInv'
  BY <1>1, <1>2, <1>6, <1>8 DEF Inv, WarpInv
<1>11. DriveInv'
  BY <1>1, <1>2, <1>7, <1>8 DEF DriveInv
<1> QED BY <1>9, <1>10, <1>11 DEF Inv

-----------------------------------------------------------------------------
(* The hook at the end of a frame.                                          *)

LEMMA Waiting ==
    ASSUME Inv, NEW mode, NEW text, Waits(mode, text)
    PROVE  Inv'
BY Leaves, FrameEndsLeaves DEF Waits, own

LEMMA Leaving ==
    ASSUME Inv, NEW mode \in {"LOADINGTAPE", "WAITLOADREADY"}, LeavesRom(mode)
    PROVE  Inv'
<1>1. InProgress /\ autostartmode # "LOADINGDISK"
  BY DEF LeavesRom, Polls, InProgress
<1>2. UNCHANGED <<orig, callback, wanted, upset>>
  BY FrameEndsLeaves DEF LeavesRom
<1>3. CASE UNCHANGED <<autostartmode, settings>>
  BY <1>2, <1>3, Leaves
<1>4. CASE autostartmode' = "DONE" /\ settings' = WarpOff
  BY <1>1, <1>2, <1>4, EndsWarpOff
<1> QED BY <1>3, <1>4 DEF LeavesRom

LEMMA Loading ==
    ASSUME Inv, NEW mode \in {"LOADINGTAPE", "WAITLOADREADY"}, Loaded(mode)
    PROVE  Inv'
<1>1. InProgress /\ autostartmode # "LOADINGDISK" /\ autostartmode' = "DONE"
  BY DEF Loaded, Goes, Polls, InProgress
<1>2. UNCHANGED <<orig, callback, wanted, upset>>
  BY FrameEndsLeaves DEF Loaded
<1> QED BY <1>1, <1>2, EndsWarpOff DEF Loaded

(* LOAD is typed.                                                           *)
LEMMA HasDiskTypes ==
    ASSUME Inv, AdvanceHasDisk, "YES" \in Shown("READY."), autostartmode' # "ERROR",
           ~Waits("HASDISK", "READY.")
    PROVE  Inv'
<1> DEFINE byTrap == IF settings.handle THEN settings.traps ELSE ~settings.tde
           t == IF settings.handle THEN ~settings.traps ELSE settings.tde
           mode == CASE byTrap -> "LOADINGDISK"
                     [] ~byTrap /\ settings.autowarp -> "WAITSEARCHINGFOR"
                     [] OTHER -> "DONE"
<1>1. /\ autostartmode = "HASDISK" /\ autostartmode' = mode
      /\ orig' = [orig EXCEPT !.tde = settings.tde]
      /\ settings' = IF settings.handle THEN [settings EXCEPT !.tde = ~settings.traps]
                     ELSE settings
      /\ upset' = (upset \ (IF settings.tde = wanted.tde THEN {"stale"} ELSE {})) \cup
                  (IF settings.handle /\ ~settings.traps /\ ~settings.tde
                   THEN {"notraps"} ELSE {})
      /\ callback' = IF byTrap THEN callback \cup {"attention"} ELSE callback
      /\ wanted' = wanted
  BY FrameEndsLeaves DEF AdvanceHasDisk, Fails, Polls
<1>2. InProgress /\ mode \in {"LOADINGDISK", "WAITSEARCHINGFOR", "DONE"}
  BY <1>1 DEF InProgress
<1>3. /\ settings' \in Settings /\ settings'.tde = t /\ settings'.warp = settings.warp
      /\ settings'.autowarp = settings.autowarp /\ settings'.handle = settings.handle
  BY <1>1 DEF Inv, TypeInv, Settings
<1>4. orig' \in Saved /\ orig'.tde = settings.tde /\ orig'.warp = orig.warp
  BY <1>1 DEF Inv, TypeInv, Settings, Saved
<1>5. TypeInv'
  BY <1>1, <1>2, <1>3, <1>4 DEF Inv, TypeInv, Modes
<1>6. WarpInv'
  <2>1. SUFFICES ASSUME upset \cap {"again", "old"} = {}
                 PROVE  /\ ~InProgress' => settings'.warp = wanted'.warp
                        /\ InProgress' => Warp(FALSE)' = wanted'.warp
                        /\ autostartmode' # "HASSNAPSHOT" /\ "eof" \notin callback'
    BY <1>1 DEF WarpInv
  <2>2. Warp(FALSE) = wanted.warp /\ "eof" \notin callback
    BY <1>1, <1>2, <2>1 DEF Inv, WarpInv
  <2>3. Warp(FALSE)' = wanted'.warp
    BY <1>1, <1>3, <1>4, <2>2 DEF Warp
  <2>4. "eof" \notin callback'
    BY <1>1, <2>2
  <2>5. CASE mode = "DONE"
    BY <1>1, <1>2, <1>3, <2>2, <2>3, <2>4, <2>5 DEF Warp, InProgress
  <2>6. CASE mode # "DONE"
    BY <1>1, <1>2, <2>3, <2>4, <2>6 DEF InProgress
  <2> QED BY <2>5, <2>6
<1>7. DriveInv'
  <2>1. SUFFICES ASSUME upset' \subseteq {"keys", "failed"}
                 PROVE  /\ autostartmode' # "LOADINGDISK" => settings'.tde = wanted'.tde
                        /\ InProgress' => Undone'.tde = wanted'.tde
    BY DEF DriveInv
  <2>2. settings.tde = wanted.tde
    <3>1. CASE upset \subseteq {"keys", "failed"}
      BY <1>1, <3>1 DEF Inv, DriveInv
    <3>2. CASE ~(upset \subseteq {"keys", "failed"})
      BY <1>1, <2>1, <3>2
    <3> QED BY <3>1, <3>2
  <2>3. settings.handle /\ ~settings.traps => settings.tde
    BY <1>1, <2>1
  <2>4. Undone'.tde = IF settings.handle THEN settings.tde ELSE t
    BY <1>3, <1>4 DEF Undone, Settings
  <2> QED
    BY <1>1, <1>3, <2>2, <2>3, <2>4 DEF Inv, TypeInv, Settings
<1> QED BY <1>5, <1>6, <1>7 DEF Inv

LEMMA FrameStep ==
    ASSUME Inv, Frame
    PROVE  Inv'
<1>1. CASE HookIdles
  BY <1>1, Leaves, FrameEndsLeaves DEF HookIdles
<1>2. CASE AdvanceHasTape
  <2>1. CASE Goes("HASTAPE", "READY.", "PRESSPLAYONTAPE")
             /\ FrameEnds(Feed(Flushed, LoadTape, FALSE, clk))
             /\ UNCHANGED <<settings, orig, callback, upset>>
    BY <2>1, GoesOn, FrameEndsLeaves DEF Goes, Polls, InProgress, Modes
  <2> QED BY <1>2, <2>1, Waiting, Failing DEF AdvanceHasTape, Modes
<1>3. CASE AdvancePressPlayOnTape
  <2>1. CASE Goes("PRESSPLAYONTAPE", "PRESS PLAY ON TAPE", "LOADINGTAPE")
             /\ FrameEnds(Flushed) /\ UNCHANGED <<settings, orig, callback, upset>>
    BY <2>1, GoesOn, FrameEndsLeaves DEF Goes, Polls, InProgress, Modes
  <2> QED BY <1>3, <2>1, Waiting, Failing DEF AdvancePressPlayOnTape, Modes
<1>4. CASE AdvanceLoadingTape
  BY <1>4, Loading, Leaving, Failing DEF AdvanceLoadingTape, Modes
<1>5. CASE AdvanceWaitLoadReady
  BY <1>5, Loading, Leaving, Failing DEF AdvanceWaitLoadReady, Modes
<1>6. CASE AdvanceHasDisk
  <2>1. CASE Waits("HASDISK", "READY.")
    BY <2>1, Waiting
  <2>2. CASE Fails("HASDISK", "READY.", TRUE)
    BY <2>2, Failing DEF Modes
  <2>3. CASE ~Waits("HASDISK", "READY.") /\ ~Fails("HASDISK", "READY.", TRUE)
    <3>1. "YES" \in Shown("READY.") /\ autostartmode' # "ERROR"
      BY <1>6, <2>3 DEF AdvanceHasDisk
    <3> QED BY <1>6, <2>3, <3>1, HasDiskTypes
  <2> QED BY <2>1, <2>2, <2>3
<1>7. CASE AdvanceWaitSearchingFor
  <2>1. CASE Goes("WAITSEARCHINGFOR", "SEARCHING FOR", "WAITLOADING")
             /\ FrameEnds(Flushed) /\ UNCHANGED <<settings, orig, callback, upset>>
    BY <2>1, GoesOn, FrameEndsLeaves DEF Goes, Polls, InProgress, Modes
  <2> QED BY <1>7, <2>1, Waiting, Failing DEF AdvanceWaitSearchingFor, Modes
<1>8. CASE AdvanceWaitLoading
  <2>1. CASE Goes("WAITLOADING", "LOADING", "WAITLOADREADY")
             /\ FrameEnds(Flushed) /\ UNCHANGED <<settings, orig, callback, upset>>
    BY <2>1, GoesOn, FrameEndsLeaves DEF Goes, Polls, InProgress, Modes
  <2>2. CASE FrameEnds(Flushed) /\ UNCHANGED <<settings, own, upset>>
    BY <2>2, Leaves, FrameEndsLeaves DEF own
  <2> QED BY <1>8, <2>1, <2>2, Failing DEF AdvanceWaitLoading, Modes
<1>9. CASE AdvanceHasSnapshot
  <2>1. CASE /\ Goes("HASSNAPSHOT", "READY.", "DONE")
             /\ FrameEndsWith(Flushed, [kernal EXCEPT !.shows = "RUNNING", !.memory = TRUE])
             /\ UNCHANGED <<settings, orig, callback, upset>>
    BY <2>1, GoesOn, FrameEndsLeaves DEF Goes, Polls, InProgress, Modes
  <2> QED BY <1>9, <2>1, Waiting, Failing DEF AdvanceHasSnapshot, Modes
<1>10. CASE AdvanceInject
  BY <1>10, GoesOn, FrameEndsLeaves DEF AdvanceInject, Polls, InProgress, Modes
<1> QED
  BY <1>1, <1>2, <1>3, <1>4, <1>5, <1>6, <1>7, <1>8, <1>9, <1>10 DEF Frame

-----------------------------------------------------------------------------
(* Resets, the user and the KERNAL.                                         *)

LEMMA ServeResetStep ==
    ASSUME Inv, ServeReset
    PROVE  Inv'
<1>1. wanted' = wanted /\ orig' = orig /\ upset' \in {upset, upset \cup {"keys"}}
  BY DEF ServeReset
<1>2. CASE autostartmode' = "NONE" /\ settings' = Undone /\ callback' = callback \ {"eof"}
           /\ autostartmode \notin {"NONE", "ERROR", "DONE"}
  BY <1>1, <1>2, EndsUndone DEF InProgress
<1>3. CASE autostartmode' \in {"NONE", autostartmode} /\ UNCHANGED <<settings, callback>>
           /\ (autostartmode' # autostartmode => autostartmode = "DONE")
  BY <1>1, <1>3 DEF Inv, TypeInv, WarpInv, DriveInv, InProgress, Warp, Undone, Modes
<1> QED BY <1>2, <1>3 DEF ServeReset

LEMMA UserSetsStep ==
    ASSUME Inv, UserSets
    PROVE  Inv'
<1>1. ~InProgress /\ ~InProgress' /\ UNCHANGED <<orig, autostartmode, callback, upset>>
  BY DEF UserSets, own, InProgress
<1>2. PICK on \in BOOLEAN :
          \/ settings' = [settings EXCEPT !.tde = on] /\ wanted' = [wanted EXCEPT !.tde = on]
          \/ settings' = [settings EXCEPT !.warp = on] /\ wanted' = [wanted EXCEPT !.warp = on]
  BY DEF UserSets
<1>3. settings' \in Settings /\ wanted' \in Saved
  BY <1>2 DEF Inv, TypeInv, Settings, Saved
<1>4. /\ settings.warp = wanted.warp => settings'.warp = wanted'.warp
      /\ settings.tde = wanted.tde => settings'.tde = wanted'.tde
  BY <1>2 DEF Inv, TypeInv, Settings, Saved
<1>5. TypeInv'
  BY <1>1, <1>3 DEF Inv, TypeInv
<1>6. WarpInv'
  BY <1>1, <1>4 DEF Inv, WarpInv, InProgress
<1>7. DriveInv'
  BY <1>1, <1>4 DEF Inv, DriveInv, InProgress
<1> QED BY <1>5, <1>6, <1>7 DEF Inv

LEMMA StartFailsStep ==
    ASSUME Inv, StartFails
    PROVE  Inv'
BY DEF Inv, TypeInv, WarpInv, DriveInv, InProgress, Warp, Undone, StartFails, machine, Modes

LEMMA KernalStep ==
    ASSUME Inv, KernalRuns
    PROVE  Inv'
<1>1. UNCHANGED <<orig, wanted>>
  BY DEF KernalRuns, KernalBoots, KernalReads, KernalSearches, KernalComplains,
         KernalFindsTape, KernalLoads, Kernal
<1>2. CASE KernalBoots \/ KernalReads \/ KernalComplains \/ KernalFindsTape
  BY <1>1, <1>2, Leaves DEF KernalBoots, KernalReads, KernalComplains, KernalFindsTape
<1>3. CASE KernalSearches
  <2>1. /\ UNCHANGED <<settings, autostartmode>>
        /\ callback' = IF ByTrap /\ "attention" \in callback THEN {"eof"} ELSE callback
        /\ \E failed \in {{}, {"failed"}} :
               upset' = upset \cup failed \cup
                       (IF ByTrap /\ "attention" \in callback /\ autostartmode # "LOADINGDISK"
                        THEN {"old"} ELSE {})
    BY <1>3 DEF KernalSearches
  <2> QED
    BY <1>1, <2>1 DEF Inv, TypeInv, WarpInv, DriveInv, InProgress, Warp, Undone
<1>4. CASE KernalLoads
  <2>1. CASE UNCHANGED <<settings, kbd, autostartmode, callback>> /\ upset' = upset
    BY <1>1, <2>1, Leaves
  <2>2. CASE /\ "eof" \in callback /\ settings' = Undone /\ autostartmode' = "DONE"
             /\ callback' = callback \ {"eof"} /\ upset' = upset
    BY <1>1, <2>2, EndsUndone
  <2> QED BY <1>4, <2>1, <2>2 DEF KernalLoads
<1> QED BY <1>2, <1>3, <1>4 DEF KernalRuns

LEMMA ModeOfMedia ==
    ASSUME NEW media \in Media
    PROVE  /\ ModeOf[media] \in {"HASDISK", "HASTAPE", "INJECT", "HASSNAPSHOT"}
           /\ ModeOf[media] = "HASSNAPSHOT" <=> media = "snapshot"
<1>1. media \in {"disk", "tape", "inject", "snapshot"}
  BY AutostartAssumption
<1> QED BY <1>1 DEF ModeOf

LEMMA StartsStep ==
    ASSUME Inv, NEW media \in Media, Starts(media)
    PROVE  Inv'
<1> DEFINE enables == settings.autowarp /\ media # "snapshot"
           w == settings.warp \/ enables
           v == settings.traps \/ media = "tape"
           o == IF enables THEN settings.warp ELSE orig.warp
<1>1. /\ settings' = [settings EXCEPT !.warp = w, !.traps = v]
      /\ orig' = IF enables THEN [orig EXCEPT !.warp = settings.warp] ELSE orig
      /\ autostartmode' = ModeOf[media] /\ UNCHANGED <<callback, wanted>>
      /\ upset' = (upset \ {"failed"}) \cup (IF InProgress THEN {"again"} ELSE {})
                  \cup (IF settings.handle /\ orig.tde # settings.tde THEN {"stale"} ELSE {})
                  \cup (IF media = "snapshot" /\ settings.warp # Warp(FALSE)
                        THEN {"old"} ELSE {})
  BY DEF Starts
<1>2. w \in BOOLEAN /\ v \in BOOLEAN /\ o \in BOOLEAN
  BY DEF Inv, TypeInv, Settings, Saved
<1>3. orig' = [orig EXCEPT !.warp = o]
  BY <1>1 DEF Inv, TypeInv, Saved
<1>4. InProgress' /\ autostartmode' # "LOADINGDISK" /\ autostartmode' \in Modes
  BY <1>1, ModeOfMedia DEF InProgress, Modes
<1>5. upset' \cap {"again", "old"} = {} =>
          /\ ~InProgress /\ upset \cap {"again", "old"} = {}
          /\ media = "snapshot" => settings.warp = Warp(FALSE)
  BY <1>1
<1>6. upset' \subseteq {"keys", "failed"} =>
          /\ ~InProgress /\ upset \subseteq {"keys", "failed"}
          /\ settings.handle => orig.tde = settings.tde
  BY <1>1
<1>7. settings.warp = w \/ (enables /\ w = TRUE)
  BY DEF Inv, TypeInv, Settings
<1>8. o = IF enables THEN settings.warp ELSE orig.warp
  OBVIOUS
<1> HIDE DEF w, v, o
<1>9. /\ settings' \in Settings /\ settings'.warp = w /\ settings'.tde = settings.tde
      /\ settings'.handle = settings.handle /\ settings'.autowarp = settings.autowarp
  BY <1>1, <1>2 DEF Inv, TypeInv, Settings
<1>10. orig' \in Saved /\ orig'.warp = o /\ orig'.tde = orig.tde
  BY <1>2, <1>3 DEF Inv, TypeInv, Saved
<1>11. TypeInv'
  BY <1>1, <1>4, <1>9, <1>10 DEF Inv, TypeInv
<1>12. WarpInv'
  <2>1. SUFFICES ASSUME upset' \cap {"again", "old"} = {}
                 PROVE  /\ Warp(FALSE)' = wanted'.warp
                        /\ media = "snapshot" => settings'.warp = wanted'.warp
                        /\ "eof" \notin callback'
    BY <1>1, <1>4, ModeOfMedia DEF WarpInv
  <2>2. settings.warp = wanted.warp /\ "eof" \notin callback
    BY <1>5, <2>1 DEF Inv, WarpInv, InProgress
  <2>3. CASE enables
    <3>1. settings'.autowarp /\ orig'.warp = settings.warp /\ media # "snapshot"
      BY <1>8, <1>9, <1>10, <2>3
    <3>2. settings'.warp = settings.warp \/ settings'.warp = TRUE
      BY <1>7, <1>9
    <3>3. Warp(FALSE)' = settings.warp
      BY <3>1, <3>2 DEF Warp, Inv, TypeInv, Settings
    <3> QED BY <1>1, <2>2, <3>1, <3>3
  <2>4. CASE ~enables
    <3>1. settings'.warp = settings.warp /\ orig'.warp = orig.warp
      BY <1>7, <1>8, <1>9, <1>10, <2>4
    <3>2. Warp(FALSE)' = Warp(FALSE)
      BY <1>9, <3>1 DEF Warp
    <3>3. Warp(FALSE) = settings.warp
      BY <1>5, <2>1, <2>4 DEF Warp
    <3> QED BY <1>1, <2>2, <3>1, <3>2, <3>3
  <2> QED BY <2>3, <2>4
<1>13. DriveInv'
  <2>1. SUFFICES ASSUME upset' \subseteq {"keys", "failed"}
                 PROVE  settings'.tde = wanted'.tde /\ Undone'.tde = wanted'.tde
    BY DEF DriveInv
  <2>2. settings.tde = wanted.tde
    BY <1>6, <2>1 DEF Inv, DriveInv, InProgress
  <2>3. Undone'.tde = IF settings'.handle THEN orig'.tde ELSE settings'.tde
    BY <1>9 DEF Undone, Settings
  <2> QED BY <1>1, <1>6, <1>9, <1>10, <2>1, <2>2, <2>3
<1> QED BY <1>11, <1>12, <1>13 DEF Inv

-----------------------------------------------------------------------------
LEMMA InitInv == Init => Inv
<1> SUFFICES ASSUME Init PROVE Inv
  OBVIOUS
<1>1. TypeInv /\ ~InProgress /\ callback = {} /\ autostartmode = "NONE"
  BY DEF Init, TypeInv, Settings, Saved, Modes, InProgress
<1>2. settings.warp = wanted.warp /\ settings.tde = wanted.tde
  BY DEF Init
<1> QED BY <1>1, <1>2 DEF Inv, WarpInv, DriveInv

LEMMA NextInv == Inv /\ [Next]_vars => Inv'
<1> SUFFICES ASSUME Inv, [Next]_vars PROVE Inv'
  OBVIOUS
<1>1. CASE Frame
  BY <1>1, FrameStep
<1>2. CASE AlarmFires
  BY <1>2, Leaves DEF AlarmFires, own, history
<1>3. CASE ServeReset
  BY <1>3, ServeResetStep
<1>4. CASE KernalRuns
  BY <1>4, KernalStep
<1>5. CASE UserResets \/ UserLoads
  BY <1>5, Leaves DEF UserResets, UserLoads, own
<1>6. CASE UserSets
  BY <1>6, UserSetsStep
<1>7. CASE StartFails
  BY <1>7, StartFailsStep
<1>8. CASE \E media \in Media : Starts(media)
  BY <1>8, StartsStep
<1>9. CASE UNCHANGED vars
  BY <1>9, Leaves DEF vars, own, history
<1> QED BY <1>1, <1>2, <1>3, <1>4, <1>5, <1>6, <1>7, <1>8, <1>9 DEF Next

LEMMA AlwaysInv == Spec => []Inv
BY InitInv, NextInv, PTL DEF Spec

(* After any sequence of autostarts, resets and changed settings, warp mode *)
(* is the user's when no autostart is in progress (autostart.c:506-527),    *)
(* but for the two cases that WarpComesBack names.                          *)
THEOREM WarpReturns == Spec => []WarpComesBack
<1>1. Inv => WarpComesBack
  BY DEF Inv, WarpInv, WarpComesBack
<1> QED BY AlwaysInv, <1>1, PTL

(* So is true drive emulation, which disk_eof_callback, autostart_disable   *)
(* or nobody puts back (autostart.c:614-716), but for the cases that        *)
(* DriveComesBack names.                                                    *)
THEOREM DriveReturns == Spec => []DriveComesBack
<1>1. Inv => DriveComesBack
  BY DEF Inv, DriveInv, DriveComesBack, InProgress
<1> QED BY AlwaysInv, <1>1, PTL

-----------------------------------------------------------------------------
(* What is typed: the line on the screen, the KERNAL's buffer and the queue *)
(* are one sequence of keys, which consists of whole commands.              *)

Pending(kb) == kb.buffer \o kb.queue
Stream == kernal.line \o Pending(kbd)

CommandsOf(s, n) ==
    /\ Len(s) = 2 * n
    /\ \A i \in 1 .. n : s[2 * i] = "return" /\ s[2 * i - 1] # "return"
Commands(s) == \E n \in Nat : CommandsOf(s, n)
LoadsBefore(s) ==
    \A j \in 1 .. Len(s) : s[j] = "run" => \E i \in 1 .. j - 1 : s[i] \in {"load", "tape"}

Command(c) == c \in {Load, LoadTape, Run}
LEMMA CommandFields ==
    ASSUME NEW c, Command(c)
    PROVE  /\ c \in Seq(Keys) /\ Len(c) = 2 /\ c[2] = "return"
           /\ c[1] # "return" /\ (c = Run <=> c[1] = "run")
           /\ c # Run => c[1] \in {"load", "tape"}
<1> USE DEF Keys
<1>1. CASE c = Load
  BY <1>1 DEF Load, Run
<1>2. CASE c = LoadTape
  BY <1>2 DEF LoadTape, Run
<1>3. CASE c = Run
  BY <1>3 DEF Run
<1> QED BY <1>1, <1>2, <1>3 DEF Command

(* One more command at the end.                                             *)
LEMMA CommandAdded ==
    ASSUME NEW s \in Seq(Keys), NEW c, Command(c), Commands(s)
    PROVE  s \o c \in Seq(Keys) /\ Commands(s \o c)
<1>1. c \in Seq(Keys) /\ Len(c) = 2 /\ c[2] = "return" /\ c[1] # "return"
  BY CommandFields
<1>2. PICK n \in Nat : CommandsOf(s, n)
  BY DEF Commands
<1> DEFINE t == s \o c
<1>3. /\ t \in Seq(Keys) /\ Len(t) = Len(s) + 2 /\ Len(s) = 2 * n
      /\ \A i \in 1 .. Len(s) + 2 : t[i] = IF i <= Len(s) THEN s[i] ELSE c[i - Len(s)]
  <2>1. /\ t \in Seq(Keys) /\ Len(t) = Len(s) + Len(c)
        /\ \A i \in 1 .. Len(s) + Len(c) : t[i] = IF i <= Len(s) THEN s[i] ELSE c[i - Len(s)]
    BY <1>1, ConcatProperties, Zenon
  <2> QED BY <1>1, <1>2, <2>1 DEF CommandsOf
<1> HIDE DEF t
<1>4. ASSUME NEW i \in 1 .. n + 1  PROVE t[2 * i] = "return" /\ t[2 * i - 1] # "return"
  <2>1. CASE i \in 1 .. n
    <3>1. 2 * i \in 1 .. Len(s) + 2 /\ 2 * i - 1 \in 1 .. Len(s) + 2 /\ 2 * i <= Len(s)
      BY <1>3, <2>1
    <3> QED BY <1>2, <1>3, <2>1, <3>1 DEF CommandsOf
  <2>2. CASE i = n + 1
    <3>1. 2 * i = Len(s) + 2 /\ 2 * i - 1 = Len(s) + 1
      BY <1>3, <2>2
    <3> QED BY <1>1, <1>3, <3>1
  <2> QED BY <2>1, <2>2
<1>5. CommandsOf(t, n + 1)
  BY <1>3, <1>4 DEF CommandsOf
<1> QED BY <1>3, <1>5 DEF Commands, t

LEMMA LoadsAdded ==
    ASSUME NEW s \in Seq(Keys), NEW c, Command(c), LoadsBefore(s),
           c = Run => \E i \in 1 .. Len(s) : s[i] \in {"load", "tape"}
    PROVE  LoadsBefore(s \o c)
<1>1. c \in Seq(Keys) /\ Len(c) = 2 /\ c[2] = "return" /\ (c[1] = "run" => c = Run)
  BY CommandFields
<1> DEFINE t == s \o c
<1>2. /\ Len(t) = Len(s) + 2 /\ Len(s) \in Nat
      /\ \A i \in 1 .. Len(s) + 2 : t[i] = IF i <= Len(s) THEN s[i] ELSE c[i - Len(s)]
  <2>1. /\ Len(t) = Len(s) + Len(c) /\ Len(s) \in Nat
        /\ \A i \in 1 .. Len(s) + Len(c) : t[i] = IF i <= Len(s) THEN s[i] ELSE c[i - Len(s)]
    <3>1. Len(s) \in Nat
      BY LenProperties, Zenon
    <3> QED BY <1>1, <3>1, ConcatProperties, Zenon
  <2> QED BY <1>1, <2>1
<1> HIDE DEF t
<1>3. ASSUME NEW j \in 1 .. Len(t), t[j] = "run"
      PROVE  \E i \in 1 .. j - 1 : t[i] \in {"load", "tape"}
  <2>1. CASE j <= Len(s)
    <3>1. PICK i \in 1 .. j - 1 : s[i] \in {"load", "tape"}
      BY <1>2, <1>3, <2>1 DEF LoadsBefore
    <3> QED BY <1>2, <2>1, <3>1
  <2>2. CASE j = Len(s) + 1
    <3>1. c = Run
      BY <1>1, <1>2, <1>3, <2>2
    <3>2. PICK i \in 1 .. Len(s) : s[i] \in {"load", "tape"}
      BY <3>1
    <3> QED BY <1>2, <2>2, <3>2
  <2>3. CASE j = Len(s) + 2
    BY <1>1, <1>2, <1>3, <2>3
  <2> QED BY <1>2, <2>1, <2>2, <2>3
<1> QED BY <1>3 DEF LoadsBefore, t

(* A LOAD that is typed by hand comes first.                                *)
LEMMA LoadTyped ==
    ASSUME NEW s \in Seq(Keys), Commands(s)
    PROVE  /\ Load \o s \in Seq(Keys) /\ Commands(Load \o s)
           /\ LoadsBefore(Load \o s)
<1>1. Load \in Seq(Keys) /\ Len(Load) = 2 /\ Load[2] = "return" /\ Load[1] = "load"
  BY DEF Load, Keys
<1>2. PICK n \in Nat : CommandsOf(s, n)
  BY DEF Commands
<1> DEFINE t == Load \o s
<1>3. /\ t \in Seq(Keys) /\ Len(t) = Len(s) + 2 /\ Len(s) = 2 * n
      /\ \A i \in 1 .. Len(s) + 2 : t[i] = IF i <= 2 THEN Load[i] ELSE s[i - 2]
  <2>1. /\ t \in Seq(Keys) /\ Len(t) = Len(Load) + Len(s)
        /\ \A i \in 1 .. Len(Load) + Len(s) :
               t[i] = IF i <= Len(Load) THEN Load[i] ELSE s[i - Len(Load)]
    BY <1>1, ConcatProperties, Zenon
  <2> QED BY <1>1, <1>2, <2>1 DEF CommandsOf
<1> HIDE DEF t
<1>4. t[1] = "load" /\ t[2] = "return"
  BY <1>1, <1>3
<1>5. ASSUME NEW i \in 1 .. n + 1  PROVE t[2 * i] = "return" /\ t[2 * i - 1] # "return"
  <2>1. CASE i = 1
    BY <1>4, <2>1
  <2>2. CASE i # 1
    <3>1. /\ i - 1 \in 1 .. n
          /\ 2 * i \in 1 .. Len(s) + 2 /\ 2 * i - 1 \in 1 .. Len(s) + 2
          /\ 2 * i - 2 = 2 * (i - 1) /\ 2 * i - 1 - 2 = 2 * (i - 1) - 1 /\ 2 * i - 1 > 2
      BY <1>3, <2>2
    <3>2. t[2 * i] = s[2 * (i - 1)] /\ t[2 * i - 1] = s[2 * (i - 1) - 1]
      BY <1>3, <3>1
    <3> QED BY <1>2, <3>1, <3>2 DEF CommandsOf
  <2> QED BY <2>1, <2>2
<1>6. CommandsOf(t, n + 1)
  BY <1>3, <1>5 DEF CommandsOf
<1>7. ASSUME NEW j \in 1 .. Len(t), t[j] = "run"
      PROVE  \E i \in 1 .. j - 1 : t[i] \in {"load", "tape"}
  <2>1. j # 1 /\ 1 \in 1 .. j - 1
    BY <1>3, <1>4, <1>7
  <2> QED BY <1>4, <2>1
<1>8. t \in Seq(Keys) /\ Commands(t)
  BY <1>3, <1>6 DEF Commands
<1>9. LoadsBefore(t)
  BY <1>7 DEF LoadsBefore
<1> QED BY <1>8, <1>9 DEF t

(* The RETURN of a command is read.                                         *)
LEMMA CommandRead ==
    ASSUME NEW s \in Seq(Keys), NEW t \in Seq(Keys), Commands(s),
           Len(s) = Len(t) + 2, \A i \in 1 .. Len(t) : t[i] = s[i + 2]
    PROVE  Commands(t)
<1>1. PICK n \in Nat : CommandsOf(s, n)
  BY DEF Commands
<1>2. Len(t) \in Nat /\ Len(s) = 2 * n
  BY <1>1, LenProperties DEF CommandsOf
<1>3. n - 1 \in Nat /\ Len(t) = 2 * (n - 1)
  BY <1>2
<1>4. ASSUME NEW i \in 1 .. n - 1  PROVE t[2 * i] = "return" /\ t[2 * i - 1] # "return"
  <2>1. /\ i + 1 \in 1 .. n /\ 2 * i \in 1 .. Len(t) /\ 2 * i - 1 \in 1 .. Len(t)
        /\ 2 * i + 2 = 2 * (i + 1) /\ 2 * i - 1 + 2 = 2 * (i + 1) - 1
    BY <1>3
  <2>2. t[2 * i] = s[2 * (i + 1)] /\ t[2 * i - 1] = s[2 * (i + 1) - 1]
    BY <2>1
  <2> QED BY <1>1, <2>1, <2>2 DEF CommandsOf
<1> QED BY <1>3, <1>4 DEF Commands, CommandsOf

-----------------------------------------------------------------------------
(* The operators of the keyboard buffer.                                    *)

Buffers == Kbdbufs(0 .. Late + 1)

(* RETURN is held back only while there is something to press it for.       *)
Sound(kb) ==
    /\ kb \in Buffers
    /\ Len(kb.queue) <= QueueSize
    /\ kb.alarm # Unset => kb.queue # <<>>
(* What the alarm presses is RETURN, and there is room for it.              *)
Tidy(kb) ==
    /\ Len(kb.buffer) <= BufferSize
    /\ kb.alarm # Unset => Len(kb.buffer) < BufferSize /\ Head(kb.queue) = "return"

(* What an operation may do to the alarm.                                   *)
Sets(kb, new, now) ==
    /\ new.alarm \in {kb.alarm, now + 1}
    /\ new.alarm = kb.alarm \/ kb.alarm = Unset

LEMMA LeastNatural ==
    ASSUME NEW S \in SUBSET Nat, S # {}
    PROVE  \E x \in S : \A y \in S : x <= y
<1>1. PICK x \in S : \A y \in S : <<y, x>> \notin OpToRel(<, Nat)
  BY WFMin, NatLessThanWellFounded, Zenon
<1>2. ASSUME NEW y \in S  PROVE  ~(y < x)
  BY <1>1 DEF OpToRel
<1> QED BY <1>2

(* The keys that kbdbuf_flush lets through are all, or those up to the first *)
(* RETURN.                                                                  *)
Free(q, n, delays) == {k \in 0 .. n : delays => \A i \in 1 .. k : q[i] # "return"}

LEMMA LongestFree ==
    ASSUME NEW q \in Seq(Keys), NEW n \in 0 .. Len(q), NEW delays \in BOOLEAN
    PROVE  \E k \in Free(q, n, delays) :
               /\ \A j \in Free(q, n, delays) : j <= k
               /\ k < n => q[k + 1] = "return"
<1>1. Len(q) \in Nat
  BY LenProperties
<1> DEFINE free == {k \in 0 .. n : delays => \A i \in 1 .. k : q[i] # "return"}
           Held == {i \in 0 .. n : i < n /\ delays /\ q[i + 1] = "return"}
<1>2. \E k \in free : /\ \A j \in free : j <= k
                      /\ k < n => q[k + 1] = "return"
  <2>1. CASE Held = {}
    <3>1. n \in free
      <4>1. ASSUME delays, NEW i \in 1 .. n  PROVE q[i] # "return"
        <5>1. i - 1 \in 0 .. n /\ i - 1 < n /\ (i - 1) + 1 = i
          BY <1>1
        <5> QED BY <2>1, <4>1, <5>1
      <4> QED BY <1>1, <4>1
    <3> QED BY <1>1, <3>1
  <2>2. CASE Held # {}
    <3>1. PICK k \in Held : \A j \in Held : k <= j
      <4>1. Held \in SUBSET Nat
        OBVIOUS
      <4> HIDE DEF Held
      <4> QED BY <2>2, <4>1, LeastNatural
    <3>2. k \in free
      <4>1. ASSUME NEW i \in 1 .. k  PROVE q[i] # "return"
        <5>1. i - 1 \in 0 .. n /\ i - 1 < n /\ (i - 1) + 1 = i /\ ~(k <= i - 1)
          BY <1>1, <3>1
        <5>2. i - 1 \notin Held
          BY <3>1, <5>1
        <5> QED BY <3>1, <5>1, <5>2
      <4> QED BY <3>1, <4>1
    <3>3. ASSUME NEW j \in free  PROVE j <= k
      <4>1. CASE j > k
        <5>1. k + 1 \in 1 .. j /\ delays /\ q[k + 1] = "return"
          BY <1>1, <3>1, <4>1
        <5> QED BY <5>1
      <4> QED BY <1>1, <4>1
    <3> QED BY <3>1, <3>2, <3>3
  <2> QED BY <2>1, <2>2
<1> QED BY <1>2 DEF Free

(* kbdbuf_flush passes on what fits, in the order in which it was fed.      *)
FlushedFrom(kb, new, now) ==
    /\ Sound(new) /\ Pending(new) = Pending(kb) /\ Sets(kb, new, now)
    /\ Len(new.queue) <= Len(kb.queue)
    /\ now < KernalInit => new = kb
    /\ Tidy(kb) => Tidy(new)

LEMMA FlushWorks ==
    ASSUME NEW kb, Sound(kb), NEW now \in Clock
    PROVE  FlushedFrom(kb, Flush(kb, now), now)
<1> DEFINE q == kb.queue
           n == IF Len(kb.queue) > BufferSize THEN BufferSize ELSE Len(kb.queue)
           free == {k \in 0 .. n : kb.delays => \A i \in 1 .. k : kb.queue[i] # "return"}
           k == CHOOSE k \in free : \A j \in free : j <= k
           alarm == IF k < n THEN now + 1 ELSE Unset
           new == [kb EXCEPT !.buffer = SubSeq(kb.queue, 1, k),
                             !.queue = SubSeq(kb.queue, k + 1, Len(kb.queue)),
                             !.alarm = alarm]
<1>1. /\ kb \in Buffers /\ q \in Seq(Keys) /\ kb.buffer \in Seq(Keys) /\ kb.delays \in BOOLEAN
      /\ Len(q) \in Nat /\ BufferSize \in Nat \ {0} /\ Late \in Nat /\ Unset = -1
      /\ Len(q) <= QueueSize /\ QueueSize \in Nat /\ now + 1 \in 0 .. Late + 1
  BY KbdbufAssumption, AutostartAssumption, LenProperties
     DEF Sound, Buffers, Kbdbufs, Clock, Unset
<1>2. CASE q = <<>> \/ kb.buffer # <<>> \/ now < KernalInit \/ kb.alarm # Unset
  <2>1. Flush(kb, now) = kb
    BY <1>2 DEF Flush
  <2>2. FlushedFrom(kb, kb, now)
    BY <1>1 DEF FlushedFrom, Sets
  <2> QED BY <2>1, <2>2
<1>3. CASE ~(q = <<>> \/ kb.buffer # <<>> \/ now < KernalInit \/ kb.alarm # Unset)
  <2>1. Flush(kb, now) = new
    BY <1>3 DEF Flush
  <2>2. n \in 0 .. Len(q) /\ n <= BufferSize
    BY <1>1
  <2>3. k \in 0 .. n /\ (k < n => q[k + 1] = "return")
    <3>1. free = Free(q, n, kb.delays)
      BY DEF Free
    <3>2. \E m \in free : (\A j \in free : j <= m) /\ (m < n => q[m + 1] = "return")
      <4> HIDE DEF n, q, free
      <4> QED BY <1>1, <2>2, <3>1, LongestFree
    <3>3. \A j \in free : j \in 0 .. n
      OBVIOUS
    <3> HIDE DEF free, n, q
    <3>4. PICK m \in free : (\A j \in free : j <= m) /\ (m < n => q[m + 1] = "return")
      BY <3>2
    <3>5. k \in free /\ \A j \in free : j <= k
      BY <3>2
    <3> HIDE DEF k
    <3>6. m \in 0 .. n /\ k \in 0 .. n /\ m <= k /\ k <= m
      BY <3>3, <3>4, <3>5
    <3>7. m = k
      BY <1>1, <2>2, <3>6
    <3> QED BY <3>4, <3>6, <3>7
  <2>4. alarm \in {Unset, now + 1} /\ alarm \in 0 .. Late + 1 \cup {Unset}
    BY <1>1
  <2> DEFINE b == SubSeq(q, 1, k)
             r == SubSeq(q, k + 1, Len(q))
  <2> HIDE DEF k, n, q
  <2>5. b \in Seq(Keys) /\ r \in Seq(Keys) /\ Len(b) = k /\ Len(r) = Len(q) - k /\ b \o r = q
    <3>1. k \in 0 .. Len(q)
      BY <1>1, <2>2, <2>3
    <3>2. /\ \A i \in 1 .. k : q[i] \in Keys
          /\ \A i \in k + 1 .. Len(q) : q[i] \in Keys
      BY <1>1, <3>1, ElementOfSeq
    <3>3. b \in Seq(Keys) /\ Len(b) = k
      BY <3>1, <3>2, SubSeqProperties
    <3>4. r \in Seq(Keys) /\ Len(r) = Len(q) - k
      BY <1>1, <3>1, <3>2, SubSeqProperties
    <3>5. b \o r = SubSeq(q, 1, Len(q))
      <4>1. 1 \in 1 .. Len(q) + 1 /\ k \in 1 - 1 .. Len(q) /\ Len(q) \in k .. Len(q)
        BY <1>1, <3>1
      <4> QED BY <1>1, <4>1, ConcatAdjacentSubSeq, Zenon
    <3>6. SubSeq(q, 1, Len(q)) = q
      BY <1>1, SubSeqFull
    <3> QED BY <3>3, <3>4, <3>5, <3>6
  <2>6. k < n => r # <<>> /\ Head(r) = "return"
    <3> SUFFICES ASSUME k < n  PROVE r # <<>> /\ Head(r) = "return"
      OBVIOUS
    <3>1. k + 1 \in 1 .. Len(q) /\ Len(q) \in k + 1 .. Len(q)
      BY <1>1, <2>2, <2>3
    <3>2. Head(r) = q[k + 1]
      BY <1>1, <3>1, HeadTailOfSubSeq
    <3>3. Len(r) # 0
      BY <1>1, <2>2, <2>3, <2>5
    <3>4. r # <<>>
      BY <3>3, EmptySeq
    <3> QED BY <2>3, <3>2, <3>4
  <2>7. new \in Buffers /\ new.buffer = b /\ new.queue = r /\ new.alarm = alarm
    <3> HIDE DEF alarm
    <3> QED BY <1>1, <2>4, <2>5 DEF Buffers, Kbdbufs, q
  <2>8. alarm # Unset => k < n
    OBVIOUS
  <2> HIDE DEF alarm, b, r, new
  <2>9. Sound(new) /\ Len(new.queue) <= Len(kb.queue)
    BY <1>1, <2>2, <2>3, <2>5, <2>6, <2>7, <2>8 DEF Sound, q
  <2>10. Pending(new) = Pending(kb)
    <3>1. Pending(kb) = q
      BY <1>1, <1>3, ConcatEmptySeq DEF Pending, q
    <3> QED BY <2>5, <2>7, <3>1 DEF Pending
  <2>11. Sets(kb, new, now)
    BY <1>3, <2>4, <2>7 DEF Sets
  <2>12. Tidy(new)
    BY <1>1, <2>2, <2>3, <2>5, <2>6, <2>7, <2>8 DEF Tidy
  <2> QED BY <1>3, <2>1, <2>9, <2>10, <2>11, <2>12 DEF FlushedFrom
<1> QED BY <1>2, <1>3

(* kbdbuf_feed refuses a command that does not fit as a whole.              *)
FedFrom(kb, c, new, now) ==
    /\ Sound(new) /\ Sets(kb, new, now)
    /\ Pending(new) \in {Pending(kb), Pending(kb) \o c}
    /\ Len(kb.queue) + 2 > QueueSize => Pending(new) = Pending(kb) /\ new.queue = kb.queue
    /\ Len(kb.queue) + 2 <= QueueSize => Pending(new) = Pending(kb) \o c
    /\ Tidy(kb) => Tidy(new)

LEMMA FeedWorks ==
    ASSUME NEW kb, Sound(kb), NEW c, Command(c), NEW delays \in BOOLEAN, NEW now \in Clock
    PROVE  FedFrom(kb, c, Feed(kb, c, delays, now), now)
<1> DEFINE q == kb.queue
           fed == [kb EXCEPT !.delays = delays]
           longer == [fed EXCEPT !.queue = @ \o c]
<1>1. /\ kb \in Buffers /\ q \in Seq(Keys) /\ kb.buffer \in Seq(Keys)
      /\ Len(q) \in Nat /\ QueueSize \in Nat /\ Len(q) <= QueueSize
      /\ c \in Seq(Keys) /\ Len(c) = 2
  BY KbdbufAssumption, LenProperties, CommandFields DEF Sound, Buffers, Kbdbufs
<1>2. q \o c \in Seq(Keys) /\ Len(q \o c) = Len(q) + 2 /\ q \o c # <<>>
      /\ (q # <<>> => Head(q \o c) = Head(q))
  <2>1. /\ q \o c \in Seq(Keys) /\ Len(q \o c) = Len(q) + Len(c)
        /\ \A i \in 1 .. Len(q) + Len(c) : (q \o c)[i] = IF i <= Len(q) THEN q[i] ELSE c[i - Len(q)]
    BY <1>1, ConcatProperties, Zenon
  <2>2. q # <<>> => Len(q) # 0
    BY <1>1, EmptySeq
  <2>3. q \o c # <<>>
    <3>1. Len(q \o c) # 0
      BY <1>1, <2>1
    <3> QED BY <3>1, EmptySeq
  <2>4. q # <<>> => (q \o c)[1] = q[1]
    <3> HIDE DEF q
    <3> QED BY <1>1, <2>1, <2>2
  <2>5. Head(q) = q[1] /\ Head(q \o c) = (q \o c)[1]
    BY <1>1, <2>1, <2>2
  <2> QED BY <1>1, <2>1, <2>3, <2>4, <2>5
<1>3. /\ fed \in Buffers /\ fed.queue = q /\ fed.buffer = kb.buffer /\ fed.alarm = kb.alarm
      /\ longer \in Buffers /\ longer.queue = q \o c /\ longer.buffer = kb.buffer
      /\ longer.alarm = kb.alarm
  BY <1>1, <1>2 DEF Buffers, Kbdbufs
<1> HIDE DEF longer
<1>4. CASE Len(q) + 2 > QueueSize
  <2>1. Feed(kb, c, delays, now) = fed
    BY <1>1, <1>4 DEF Feed
  <2> HIDE DEF fed
  <2>2. FedFrom(kb, c, fed, now)
    <3>1. Sound(fed) /\ Sets(kb, fed, now) /\ Pending(fed) = Pending(kb) /\ fed.queue = kb.queue
      BY <1>3 DEF Sound, Sets, Pending
    <3>2. Tidy(kb) => Tidy(fed)
      BY <1>3 DEF Tidy
    <3>3. ~(Len(q) + 2 <= QueueSize)
      <4> HIDE DEF q
      <4> QED BY <1>1, <1>4
    <3> QED BY <3>1, <3>2, <3>3 DEF FedFrom
  <2> QED BY <2>1, <2>2
<1>5. CASE Len(q) + 2 <= QueueSize
  <2>1. Feed(kb, c, delays, now) = Flush(longer, now)
    BY <1>1, <1>5 DEF Feed, longer
  <2> HIDE DEF fed
  <2>2. Sound(longer) /\ (Tidy(kb) => Tidy(longer))
    BY <1>1, <1>2, <1>3, <1>5 DEF Sound, Tidy
  <2>3. Pending(longer) = Pending(kb) \o c
    <3>1. Pending(longer) = kb.buffer \o (q \o c)
      BY <1>3 DEF Pending
    <3>2. (kb.buffer \o q) \o c = kb.buffer \o (q \o c)
      <4>1. q \in Seq(Keys) /\ kb.buffer \in Seq(Keys) /\ c \in Seq(Keys)
        BY <1>1
      <4> HIDE DEF q
      <4>2. \A s, t, u \in Seq(Keys) : (s \o t) \o u = s \o (t \o u)
        BY ONLY ConcatAssociative
      <4> QED BY ONLY <4>1, <4>2
    <3> QED BY <3>1, <3>2 DEF Pending
  <2>4. FlushedFrom(longer, Flush(longer, now), now)
    BY <2>2, FlushWorks
  <2> DEFINE new == Flush(longer, now)
  <2>5. FlushedFrom(longer, new, now) /\ Feed(kb, c, delays, now) = new
    BY <2>1, <2>4
  <2> HIDE DEF new
  <2>6. FedFrom(kb, c, new, now)
    BY <1>1, <1>3, <1>5, <2>2, <2>3, <2>5 DEF FedFrom, FlushedFrom, Sets
  <2> QED BY <2>5, <2>6
<1> QED BY <1>1, <1>4, <1>5

(* LOAD and RUN, one after the other: where there is no room for LOAD there *)
(* is none for RUN.                                                         *)
LEMMA FeedTwiceWorks ==
    ASSUME NEW kb, Sound(kb), NEW typed, FedFrom(kb, Load, typed, clk),
           NEW new, FedFrom(typed, Run, new, clk)
    PROVE  /\ Sound(new) /\ (Tidy(kb) => Tidy(new)) /\ Sets(kb, new, clk)
           /\ Pending(new) \in {Pending(kb), Pending(kb) \o Load, (Pending(kb) \o Load) \o Run}
<1>1. Len(kb.queue) \in Nat /\ QueueSize \in Nat
  BY KbdbufAssumption, LenProperties DEF Sound, Buffers, Kbdbufs
<1>2. Sound(new) /\ (Tidy(kb) => Tidy(new)) /\ Sets(kb, new, clk)
  BY DEF FedFrom, Sets
<1>3. CASE Len(kb.queue) + 2 > QueueSize
  BY <1>2, <1>3 DEF FedFrom
<1>4. CASE Len(kb.queue) + 2 <= QueueSize
  BY <1>2, <1>4 DEF FedFrom
<1> QED BY <1>1, <1>3, <1>4

(* The alarm presses the RETURN that was held back.                         *)
LEMMA PressWorks ==
    ASSUME NEW kb, Sound(kb), kb.alarm # Unset
    PROVE  /\ Sound(PressReturn(kb))
           /\ Tidy(kb) => Tidy(PressReturn(kb)) /\ Pending(PressReturn(kb)) = Pending(kb)
<1> DEFINE q == kb.queue
           b == Append(kb.buffer, "return")
           new == [kb EXCEPT !.alarm = Unset, !.buffer = b, !.queue = Tail(q)]
<1>1. /\ kb \in Buffers /\ q \in Seq(Keys) /\ q # <<>> /\ kb.buffer \in Seq(Keys)
      /\ Len(q) \in Nat /\ Len(kb.buffer) \in Nat
      /\ QueueSize \in Nat /\ BufferSize \in Nat /\ Len(q) <= QueueSize
  BY KbdbufAssumption, LenProperties DEF Sound, Buffers, Kbdbufs
<1>2. b \in Seq(Keys) /\ Len(b) = Len(kb.buffer) + 1 /\ b = kb.buffer \o <<"return">>
  BY <1>1, AppendProperties, AppendIsConcat DEF Keys
<1>3. Tail(q) \in Seq(Keys) /\ Len(Tail(q)) = Len(q) - 1
  BY <1>1, HeadTailProperties
<1>4. Tail(q) \in Seq(Keys) /\ b \in Seq(Keys)
  BY <1>2, <1>3
<1> HIDE DEF b
<1>5. /\ new \in Buffers /\ new.queue = Tail(q) /\ new.buffer = b /\ new.alarm = Unset
  BY <1>1, <1>4 DEF Buffers, Kbdbufs
<1>6. PressReturn(kb) = new
  BY DEF PressReturn, b
<1> HIDE DEF new
<1>7. Sound(new)
  BY <1>1, <1>3, <1>5 DEF Sound
<1>8. ASSUME Tidy(kb)  PROVE Tidy(new) /\ Pending(new) = Pending(kb)
  <2>1. Tidy(new)
    BY <1>1, <1>2, <1>5, <1>8 DEF Tidy
  <2>2. <<"return">> \o Tail(q) = q
    <3>1. Head(q) = "return"
      BY <1>8 DEF Tidy
    <3>2. 1 \in 1 .. Len(q) /\ Len(q) \in 1 .. Len(q)
      <4>1. Len(q) # 0
        BY <1>1, EmptySeq
      <4> HIDE DEF q
      <4> QED BY <1>1, <4>1
    <3>3. SubSeq(q, 1, Len(q)) = <<q[1]>> \o SubSeq(q, 1 + 1, Len(q))
      BY <1>1, <3>2, SubSeqRecursiveFirst
    <3>4. SubSeq(q, 1, Len(q)) = q /\ Tail(q) = SubSeq(q, 2, Len(q)) /\ Head(q) = q[1]
      BY <1>1, SubSeqFull, TailIsSubSeq
    <3> QED BY <3>1, <3>3, <3>4
  <2>3. Pending(new) = (kb.buffer \o <<"return">>) \o Tail(q)
    BY <1>2, <1>5 DEF Pending
  <2>4. (kb.buffer \o <<"return">>) \o Tail(q) = kb.buffer \o (<<"return">> \o Tail(q))
    <3>1. <<"return">> \in Seq(Keys)
      BY DEF Keys
    <3>2. Tail(q) \in Seq(Keys) /\ kb.buffer \in Seq(Keys)
      BY <1>1, <1>3
    <3> HIDE DEF q
    <3> QED BY ONLY <3>1, <3>2, ConcatAssociative
  <2> QED BY <2>1, <2>2, <2>3, <2>4 DEF Pending
<1> QED BY <1>6, <1>7, <1>8

-----------------------------------------------------------------------------
(* What is typed fits, and is understood: unless a reset has found commands  *)
(* in the queue, the keys on their way are whole commands; and a RUN among   *)
(* them comes after a LOAD, or a program is in memory or on its way.         *)
Ready == kernal.memory \/ kernal.shows \in {"SEARCHING FOR", "PRESS PLAY ON TAPE", "LOADING"}

KeyInv ==
    /\ clk \in Clock /\ kernal \in Kernals /\ Sound(kbd)
    /\ "keys" \notin upset =>
           /\ Tidy(kbd)
           /\ kernal.shows = "boot" => kbd.queue = <<>> /\ kernal.line = <<>>
           /\ kernal.shows # "boot" => Len(kernal.line) <= 1 /\ Commands(Stream)
           /\ kernal.shows # "boot" /\ ~resetting /\ "failed" \notin upset =>
                  Ready \/ LoadsBefore(Stream)

(* Where autostart waits for the end of loading, something is loaded.       *)
ModeInv ==
    /\ autostartmode = "WAITLOADREADY" => kernal.memory \/ kernal.shows = "LOADING"
    /\ autostartmode = "LOADINGTAPE" =>
           kernal.memory \/ kernal.shows \in {"PRESS PLAY ON TAPE", "LOADING"}
    /\ ignoreReset =>
           resetting /\ autostartmode \notin {"WAITLOADREADY", "LOADINGTAPE"}

RestInv ==
    /\ resetting \in BOOLEAN /\ delay \in Nat
    /\ waitForReset \in BOOLEAN /\ ignoreReset \in BOOLEAN /\ enteredRom \in BOOLEAN
    /\ callback \subseteq {"attention", "eof"}
    /\ session \in 0 .. MaxStarts /\ left \in 0 .. MaxActs
    /\ upset \subseteq Reasons

AllInv == Inv /\ KeyInv /\ ModeInv /\ RestInv

LEMMA KeyFields ==
    ASSUME KeyInv
    PROVE  /\ kernal.line \in Seq(Keys) /\ kernal.shows \in Shows /\ kernal.memory \in BOOLEAN
           /\ kbd \in Buffers /\ kbd.buffer \in Seq(Keys) /\ kbd.queue \in Seq(Keys)
           /\ Pending(kbd) \in Seq(Keys) /\ Stream \in Seq(Keys)
<1>1. /\ kernal.line \in Seq(Keys) /\ kernal.shows \in Shows /\ kernal.memory \in BOOLEAN
      /\ kbd \in Buffers /\ kbd.buffer \in Seq(Keys) /\ kbd.queue \in Seq(Keys)
  BY DEF KeyInv, Kernals, Sound, Buffers, Kbdbufs
<1>2. Pending(kbd) \in Seq(Keys)
  BY <1>1, ConcatProperties DEF Pending
<1>3. Stream \in Seq(Keys)
  BY <1>1, <1>2, ConcatProperties DEF Stream
<1> QED BY <1>1, <1>2, <1>3

(* A step that may feed something and leaves the line as it is.             *)
Onward ==
    /\ clk' \in Clock /\ kernal' \in Kernals /\ Sound(kbd') /\ (Tidy(kbd) => Tidy(kbd'))
    /\ kernal'.line = kernal.line
    /\ kernal'.shows = "boot" <=> kernal.shows = "boot"
    /\ kernal.shows = "boot" => kbd'.queue = kbd.queue
    /\ upset \cap {"keys", "failed"} \subseteq upset'
    /\ ~resetting' => ~resetting

LEMMA KeysKept ==
    ASSUME KeyInv, Onward, Pending(kbd') = Pending(kbd), Ready => Ready' \/ "failed" \in upset'
    PROVE  KeyInv'
<1>1. Stream' = Stream
  BY DEF Stream, Onward
<1>2. SUFFICES ASSUME "keys" \notin upset'
               PROVE  /\ Tidy(kbd')
                      /\ kernal'.shows = "boot" => kbd'.queue = <<>> /\ kernal'.line = <<>>
                      /\ kernal'.shows # "boot" => Len(kernal'.line) <= 1 /\ Commands(Stream')
                      /\ kernal'.shows # "boot" /\ ~resetting' /\ "failed" \notin upset' =>
                             Ready' \/ LoadsBefore(Stream')
  BY DEF KeyInv, Onward
<1>3. "keys" \notin upset /\ ("failed" \notin upset' => "failed" \notin upset)
  BY <1>2 DEF Onward
<1>4. Tidy(kbd')
  BY <1>3 DEF KeyInv, Onward
<1>5. kernal'.shows = "boot" => kbd'.queue = <<>> /\ kernal'.line = <<>>
  BY <1>3 DEF KeyInv, Onward
<1>6. kernal'.shows # "boot" => Len(kernal'.line) <= 1 /\ Commands(Stream')
  BY <1>1, <1>3 DEF KeyInv, Onward
<1>7. kernal'.shows # "boot" /\ ~resetting' /\ "failed" \notin upset' =>
          Ready' \/ LoadsBefore(Stream')
  BY <1>1, <1>3 DEF KeyInv, Onward
<1> QED BY <1>4, <1>5, <1>6, <1>7

LEMMA KeysFed ==
    ASSUME KeyInv, Onward, kernal.shows # "boot", NEW c, Command(c),
           Pending(kbd') = Pending(kbd) \o c, Ready => Ready', c = Run => Ready'
    PROVE  KeyInv'
<1>1. Stream' = Stream \o c
  <2>1. kernal.line \in Seq(Keys) /\ Pending(kbd) \in Seq(Keys) /\ c \in Seq(Keys)
    BY KeyFields, CommandFields
  <2>2. \A s, t, u \in Seq(Keys) : (s \o t) \o u = s \o (t \o u)
    BY ONLY ConcatAssociative
  <2>3. (kernal.line \o Pending(kbd)) \o c = kernal.line \o (Pending(kbd) \o c)
    BY <2>1, <2>2
  <2> QED BY <2>3 DEF Stream, Onward
<1>2. SUFFICES ASSUME "keys" \notin upset'
               PROVE  /\ Tidy(kbd')
                      /\ Len(kernal'.line) <= 1 /\ Commands(Stream')
                      /\ ~resetting' /\ "failed" \notin upset' => Ready' \/ LoadsBefore(Stream')
  BY DEF KeyInv, Onward
<1>3. "keys" \notin upset /\ ("failed" \notin upset' => "failed" \notin upset)
  BY <1>2 DEF Onward
<1>4. Tidy(kbd')
  BY <1>3 DEF KeyInv, Onward
<1>5. Stream \in Seq(Keys) /\ Commands(Stream)
  BY <1>3, KeyFields DEF KeyInv
<1>6. Len(kernal'.line) <= 1 /\ Commands(Stream')
  BY <1>1, <1>3, <1>5, CommandAdded DEF KeyInv, Onward
<1>7. ASSUME ~resetting', "failed" \notin upset', ~Ready'  PROVE LoadsBefore(Stream')
  <2>1. LoadsBefore(Stream)
    BY <1>3, <1>7 DEF KeyInv, Onward
  <2> QED BY <1>1, <1>5, <1>7, <2>1, LoadsAdded
<1> QED BY <1>4, <1>6, <1>7

LEMMA KeysFedTwice ==
    ASSUME KeyInv, Onward, kernal.shows # "boot",
           Pending(kbd') = (Pending(kbd) \o Load) \o Run, Ready => Ready'
    PROVE  KeyInv'
<1>0. Command(Load) /\ Command(Run)
  BY DEF Command
<1>1. Load \in Seq(Keys) /\ Run \in Seq(Keys) /\ Len(Load) = 2 /\ Load[1] = "load"
  BY DEF Load, Run, Keys
<1> DEFINE s == Stream \o Load
<1>2. Stream' = s \o Run
  <2>1. kernal.line \in Seq(Keys) /\ Pending(kbd) \in Seq(Keys)
    BY KeyFields
  <2>2. \A r, t, u \in Seq(Keys) : (r \o t) \o u = r \o (t \o u)
    BY ONLY ConcatAssociative
  <2>3. Pending(kbd) \o Load \in Seq(Keys)
    BY <1>1, <2>1, ConcatProperties
  <2>4. (kernal.line \o Pending(kbd)) \o Load = kernal.line \o (Pending(kbd) \o Load)
    BY <1>1, <2>1, <2>2
  <2>5. (kernal.line \o (Pending(kbd) \o Load)) \o Run
        = kernal.line \o ((Pending(kbd) \o Load) \o Run)
    BY <1>1, <2>1, <2>2, <2>3
  <2> QED BY <2>4, <2>5 DEF Stream, Onward
<1>3. SUFFICES ASSUME "keys" \notin upset'
               PROVE  /\ Tidy(kbd')
                      /\ Len(kernal'.line) <= 1 /\ Commands(Stream')
                      /\ ~resetting' /\ "failed" \notin upset' => Ready' \/ LoadsBefore(Stream')
  BY DEF KeyInv, Onward
<1>4. "keys" \notin upset /\ ("failed" \notin upset' => "failed" \notin upset)
  BY <1>3 DEF Onward
<1>5. Tidy(kbd')
  BY <1>4 DEF KeyInv, Onward
<1>6. Stream \in Seq(Keys) /\ Commands(Stream)
  BY <1>4, KeyFields DEF KeyInv
<1>7. s \in Seq(Keys) /\ Commands(s)
  BY <1>0, <1>6, CommandAdded
<1>8. Commands(Stream')
  BY <1>0, <1>2, <1>7, CommandAdded
<1>9. Len(kernal'.line) <= 1
  BY <1>4 DEF KeyInv, Onward
<1>10. ASSUME ~resetting', "failed" \notin upset', ~Ready'  PROVE LoadsBefore(Stream')
  <2>1. LoadsBefore(Stream)
    BY <1>4, <1>10 DEF KeyInv, Onward
  <2>2. LoadsBefore(s)
    <3>1. Load # Run
      BY DEF Load, Run
    <3> QED BY <1>0, <1>6, <2>1, <3>1, LoadsAdded
  <2>3. \E i \in 1 .. Len(s) : s[i] \in {"load", "tape"}
    <3>1. /\ Len(s) = Len(Stream) + Len(Load)
          /\ \A i \in 1 .. Len(Stream) + Len(Load) :
                 s[i] = IF i <= Len(Stream) THEN Stream[i] ELSE Load[i - Len(Stream)]
      BY <1>1, <1>6, ConcatProperties, Zenon
    <3>2. Len(Stream) \in Nat
      BY <1>6, LenProperties
    <3> HIDE DEF s
    <3>3. Len(Stream) + 1 \in 1 .. Len(s) /\ s[Len(Stream) + 1] = Load[1]
      <4>1. PICK m \in Nat : m = Len(Stream)
        BY <3>2
      <4>2. Len(s) = m + 2 /\ \A i \in 1 .. m + 2 : s[i] = IF i <= m THEN Stream[i] ELSE Load[i - m]
        BY <1>1, <3>1, <4>1
      <4>3. m + 1 \in 1 .. m + 2 /\ ~(m + 1 <= m) /\ (m + 1) - m = 1
        OBVIOUS
      <4> QED BY <4>1, <4>2, <4>3
    <3> QED BY <1>1, <3>3
  <2> QED BY <1>0, <1>2, <1>7, <2>2, <2>3, LoadsAdded
<1> QED BY <1>5, <1>8, <1>9, <1>10

-----------------------------------------------------------------------------
(* A frame, at the end of which the hook has made kb of the buffer.         *)
LEMMA FrameOnward ==
    ASSUME KeyInv, NEW kb, NEW k, FrameEndsWith(kb, k), k \in Kernals,
           Sound(kb), Tidy(kbd) => Tidy(kb), Sets(kbd, kb, clk),
           k.line = kernal.line, k.shows = "boot" <=> kernal.shows = "boot",
           kernal.shows = "boot" => kb.queue = kbd.queue,
           upset \cap {"keys", "failed"} \subseteq upset'
    PROVE  /\ Onward /\ Pending(kbd') = Pending(kb)
           /\ kernal'.shows = k.shows /\ kernal'.memory = k.memory
           /\ UNCHANGED <<resetting, delay, ignoreReset, session, wanted, left>>
<1>1. /\ clk \in 0 .. Late /\ Late \in Nat /\ Unset = -1
      /\ kb \in Buffers /\ kbd \in Buffers
      /\ kb.alarm \in 0 .. Late + 1 \cup {-1} /\ kbd.alarm \in 0 .. Late + 1 \cup {-1}
  BY AutostartAssumption DEF KeyInv, Clock, Unset, Sound, Buffers, Kbdbufs
<1> DEFINE sub == IF clk = Late THEN 1 ELSE 0
           alarm == kb.alarm - sub
<1>2. /\ ~AlarmDue /\ clk' = clk + 1 - sub
      /\ kbd' = IF kb.alarm = Unset THEN kb ELSE [kb EXCEPT !.alarm = alarm]
      /\ kernal' = [k EXCEPT !.drawn = TRUE]
      /\ UNCHANGED <<resetting, delay, ignoreReset, session, wanted, left>>
  BY DEF FrameEndsWith
<1>3. clk' \in Clock
  BY <1>1, <1>2 DEF Clock
<1>4. kb.alarm # Unset => alarm \in 0 .. Late + 1
  <2>1. kb.alarm \in {kbd.alarm, clk + 1} /\ (kbd.alarm # Unset => clk < kbd.alarm)
    BY <1>1, <1>2 DEF AlarmDue, Sets
  <2> QED BY <1>1, <2>1
<1> HIDE DEF alarm
<1>5. /\ kbd' \in Buffers /\ kbd'.buffer = kb.buffer /\ kbd'.queue = kb.queue
      /\ kbd'.alarm # Unset <=> kb.alarm # Unset
  <2>1. CASE kb.alarm = Unset
    BY <1>1, <1>2, <2>1
  <2>2. CASE kb.alarm # Unset
    <3>1. kbd' = [kb EXCEPT !.alarm = alarm] /\ alarm \in 0 .. Late + 1
      BY <1>2, <1>4, <2>2
    <3>2. alarm # Unset
      BY <1>1, <3>1
    <3> QED BY <1>1, <2>2, <3>1, <3>2 DEF Buffers, Kbdbufs
  <2> QED BY <2>1, <2>2
<1>6. Sound(kbd') /\ (Tidy(kbd) => Tidy(kbd')) /\ Pending(kbd') = Pending(kb)
  BY <1>5 DEF Sound, Tidy, Pending
<1>7. /\ kernal' \in Kernals /\ kernal'.line = k.line
      /\ kernal'.shows = k.shows /\ kernal'.memory = k.memory
  BY <1>2 DEF Kernals
<1> QED BY <1>2, <1>3, <1>5, <1>6, <1>7 DEF Onward

LEMMA FlushedWorks ==
    ASSUME KeyInv
    PROVE  FlushedFrom(kbd, Flushed, clk)
BY FlushWorks DEF KeyInv, Flushed

(* A frame in which nothing is fed.                                         *)
LEMMA FrameKeeps ==
    ASSUME KeyInv, NEW k, FrameEndsWith(Flushed, k), k \in Kernals, k.line = kernal.line,
           k.shows = "boot" <=> kernal.shows = "boot", UNCHANGED upset,
           Ready => k.memory \/ k.shows \in {"SEARCHING FOR", "PRESS PLAY ON TAPE", "LOADING"}
    PROVE  /\ KeyInv' /\ kernal'.shows = k.shows /\ kernal'.memory = k.memory
           /\ UNCHANGED <<resetting, delay, ignoreReset, session, wanted, left>>
<1> DEFINE kb == Flushed
<1>1. FlushedFrom(kbd, kb, clk)
  BY FlushedWorks
<1>2. kernal.shows = "boot" => kb.queue = kbd.queue
  <2>1. clk + 1 < KernalInit => clk < KernalInit
    <3>1. clk \in 0 .. Late /\ Late \in Nat /\ KernalInit \in Nat
      BY KbdbufAssumption, AutostartAssumption DEF KeyInv, Clock
    <3> QED BY ONLY <3>1
  <2> QED BY <1>1, <2>1 DEF FlushedFrom, FrameEndsWith
<1> HIDE DEF kb
<1>3. FrameEndsWith(kb, k)
  BY DEF kb
<1>4. Sound(kb) /\ (Tidy(kbd) => Tidy(kb)) /\ Sets(kbd, kb, clk) /\ Pending(kb) = Pending(kbd)
  BY <1>1 DEF FlushedFrom
<1>5. /\ Onward /\ Pending(kbd') = Pending(kb)
      /\ kernal'.shows = k.shows /\ kernal'.memory = k.memory
      /\ UNCHANGED <<resetting, delay, ignoreReset, session, wanted, left>>
  BY <1>2, <1>3, <1>4, FrameOnward
<1>6. Ready => Ready'
  BY <1>5 DEF Ready
<1> QED BY <1>4, <1>5, <1>6, KeysKept

LEMMA PlainFrame ==
    ASSUME KeyInv, FrameEnds(Flushed), UNCHANGED upset
    PROVE  /\ KeyInv' /\ kernal'.shows = kernal.shows /\ kernal'.memory = kernal.memory
           /\ UNCHANGED <<resetting, delay, ignoreReset, session, wanted, left>>
<1>1. FrameEndsWith(Flushed, kernal) /\ kernal \in Kernals
  BY DEF FrameEnds, KeyInv
<1> QED BY <1>1, FrameKeeps DEF Ready

(* A frame in which a command is fed, a RUN only with a program in memory.  *)
LEMMA FrameFeeds ==
    ASSUME KeyInv, NEW c, Command(c), NEW delays \in BOOLEAN,
           FrameEnds(Feed(Flushed, c, delays, clk)), kernal.shows # "boot",
           c = Run => kernal.memory, UNCHANGED upset
    PROVE  /\ KeyInv' /\ kernal'.shows = kernal.shows /\ kernal'.memory = kernal.memory
           /\ UNCHANGED <<resetting, delay, ignoreReset, session, wanted, left>>
<1> DEFINE kb == Feed(Flushed, c, delays, clk)
<1>1. FlushedFrom(kbd, Flushed, clk) /\ clk \in Clock
  BY FlushedWorks DEF KeyInv
<1>2. Sound(Flushed)
  BY <1>1 DEF FlushedFrom
<1>3. FedFrom(Flushed, c, kb, clk)
  BY <1>1, <1>2, FeedWorks
<1>4. FrameEndsWith(kb, kernal) /\ kernal \in Kernals
  BY DEF FrameEnds, KeyInv
<1> HIDE DEF kb
<1>5. Sound(kb) /\ (Tidy(kbd) => Tidy(kb)) /\ Sets(kbd, kb, clk)
  BY <1>1, <1>3 DEF FlushedFrom, FedFrom, Sets
<1>6. Pending(kb) \in {Pending(kbd), Pending(kbd) \o c}
  BY <1>1, <1>3 DEF FlushedFrom, FedFrom
<1>7. /\ Onward /\ Pending(kbd') = Pending(kb)
      /\ kernal'.shows = kernal.shows /\ kernal'.memory = kernal.memory
      /\ UNCHANGED <<resetting, delay, ignoreReset, session, wanted, left>>
  BY <1>4, <1>5, FrameOnward
<1>8. (Ready => Ready') /\ (c = Run => Ready')
  BY <1>7 DEF Ready
<1>9. CASE Pending(kb) = Pending(kbd)
  BY <1>7, <1>8, <1>9, KeysKept
<1>10. CASE Pending(kb) = Pending(kbd) \o c
  BY <1>7, <1>8, <1>10, KeysFed
<1> QED BY <1>6, <1>7, <1>9, <1>10

(* The hook types LOAD, and RUN after it when it does not wait for anything. *)
LEMMA HasDiskKeys ==
    ASSUME Inv, KeyInv, NEW typed, typed = Feed(Flushed, Load, FALSE, clk), kernal.shows = "READY.",
           FrameEnds(typed) \/ FrameEnds(Finish(typed)),
           upset \cap {"keys", "failed"} \subseteq upset'
    PROVE  /\ KeyInv' /\ kernal'.shows = kernal.shows /\ kernal'.memory = kernal.memory
           /\ UNCHANGED <<resetting, delay, ignoreReset, session, wanted, left>>
<1>1. FlushedFrom(kbd, Flushed, clk) /\ clk \in Clock
  BY FlushedWorks DEF KeyInv
<1>2. Sound(Flushed)
  BY <1>1 DEF FlushedFrom
<1>3. FedFrom(Flushed, Load, typed, clk)
  BY <1>1, <1>2, FeedWorks DEF Command
<1>4. /\ Sound(typed) /\ (Tidy(kbd) => Tidy(typed)) /\ Sets(kbd, typed, clk)
      /\ Pending(typed) \in {Pending(kbd), Pending(kbd) \o Load}
  BY <1>1, <1>3 DEF FlushedFrom, FedFrom, Sets
<1> DEFINE both == Finish(typed)
<1>5. /\ Sound(both) /\ (Tidy(kbd) => Tidy(both)) /\ Sets(kbd, both, clk)
      /\ Pending(both) \in {Pending(kbd), Pending(kbd) \o Load, (Pending(kbd) \o Load) \o Run}
  <2>1. settings.random \in BOOLEAN
    BY DEF Inv, TypeInv, Settings
  <2>2. FedFrom(typed, Run, both, clk)
    BY <1>1, <1>4, <2>1, FeedWorks DEF Finish, Command
  <2> HIDE DEF both
  <2>3. /\ Sound(both) /\ (Tidy(Flushed) => Tidy(both)) /\ Sets(Flushed, both, clk)
        /\ Pending(both) \in {Pending(Flushed), Pending(Flushed) \o Load,
                              (Pending(Flushed) \o Load) \o Run}
    BY <1>2, <1>3, <2>2, FeedTwiceWorks
  <2> QED BY <1>1, <2>3 DEF FlushedFrom, Sets
<1>6. PICK kb \in {typed, both} : FrameEndsWith(kb, kernal)
  BY DEF FrameEnds
<1> HIDE DEF both
<1>7. /\ Sound(kb) /\ (Tidy(kbd) => Tidy(kb)) /\ Sets(kbd, kb, clk)
      /\ Pending(kb) \in {Pending(kbd), Pending(kbd) \o Load, (Pending(kbd) \o Load) \o Run}
  BY <1>4, <1>5
<1>8. /\ Onward /\ Pending(kbd') = Pending(kb)
      /\ kernal'.shows = kernal.shows /\ kernal'.memory = kernal.memory
      /\ UNCHANGED <<resetting, delay, ignoreReset, session, wanted, left>>
  BY <1>6, <1>7, FrameOnward DEF KeyInv
<1>9. Ready => Ready'
  BY <1>8 DEF Ready
<1>10. CASE Pending(kb) = Pending(kbd)
  BY <1>8, <1>9, <1>10, KeysKept
<1>11. CASE Pending(kb) = Pending(kbd) \o Load
  BY <1>8, <1>9, <1>11, KeysFed DEF Command, Load, Run
<1>12. CASE Pending(kb) = (Pending(kbd) \o Load) \o Run
  BY <1>8, <1>9, <1>12, KeysFedTwice
<1> QED BY <1>7, <1>8, <1>10, <1>11, <1>12

(* What the hook has seen is on the screen.                                 *)
LEMMA SeenIsShown ==
    ASSUME NEW text, "YES" \in Shown(text)
    PROVE  kernal.shows = text
<1>1. CASE Flushed.buffer # <<>> \/ kernal.shows = "RUNNING"
  BY <1>1 DEF Shown
<1>2. CASE ~(Flushed.buffer # <<>> \/ kernal.shows = "RUNNING")
  BY <1>2 DEF Shown
<1> QED BY <1>1, <1>2

LEMMA PlainKeys ==
    ASSUME KeyInv, ModeInv, FrameEnds(Flushed), UNCHANGED upset,
           autostartmode' \in {"WAITLOADREADY", "LOADINGTAPE"} => autostartmode' = autostartmode
    PROVE  KeyInv' /\ ModeInv'
<1>1. /\ KeyInv' /\ kernal'.shows = kernal.shows /\ kernal'.memory = kernal.memory
      /\ UNCHANGED <<resetting, ignoreReset>>
  BY PlainFrame
<1> QED BY <1>1 DEF ModeInv

LEMMA WaitsKeys ==
    ASSUME KeyInv, ModeInv, NEW mode, NEW text, Waits(mode, text)
    PROVE  KeyInv' /\ ModeInv'
BY PlainKeys DEF Waits, own

LEMMA FailsKeys ==
    ASSUME KeyInv, ModeInv, NEW mode, NEW text, NEW warp, Fails(mode, text, warp)
    PROVE  KeyInv' /\ ModeInv'
BY PlainKeys DEF Fails

LEMMA LeavesKeys ==
    ASSUME KeyInv, ModeInv, NEW mode, LeavesRom(mode)
    PROVE  KeyInv' /\ ModeInv'
<1>1. FrameEnds(Flushed) /\ UNCHANGED upset /\ autostartmode' \in {autostartmode, "DONE"}
  BY DEF LeavesRom
<1> QED BY <1>1, PlainKeys

LEMMA LoadedKeys ==
    ASSUME Inv, KeyInv, ModeInv, NEW mode \in {"LOADINGTAPE", "WAITLOADREADY"}, Loaded(mode)
    PROVE  KeyInv' /\ ModeInv'
<1>1. /\ autostartmode = mode /\ kernal.shows = "READY." /\ autostartmode' = "DONE"
      /\ FrameEnds(Feed(Flushed, Run, settings.random, clk)) /\ UNCHANGED upset
  BY SeenIsShown DEF Loaded, Goes, Polls, Finish
<1>2. kernal.memory
  BY <1>1 DEF ModeInv
<1>3. settings.random \in BOOLEAN /\ Command(Run)
  BY DEF Inv, TypeInv, Settings, Command
<1>4. KeyInv' /\ UNCHANGED <<resetting, ignoreReset>>
  BY <1>1, <1>2, <1>3, FrameFeeds
<1> QED BY <1>1, <1>4 DEF ModeInv

LEMMA FrameKeys ==
    ASSUME Inv, KeyInv, ModeInv, Frame
    PROVE  KeyInv' /\ ModeInv'
<1>1. CASE HookIdles
  BY <1>1, PlainKeys DEF HookIdles
<1>2. CASE AdvanceHasTape
  <2>1. CASE Goes("HASTAPE", "READY.", "PRESSPLAYONTAPE")
             /\ FrameEnds(Feed(Flushed, LoadTape, FALSE, clk))
             /\ UNCHANGED <<settings, orig, callback, upset>>
    <3>1. autostartmode' = "PRESSPLAYONTAPE" /\ kernal.shows = "READY."
      BY <2>1, SeenIsShown DEF Goes
    <3>2. LoadTape # Run /\ Command(LoadTape)
      BY DEF LoadTape, Run, Command
    <3>3. KeyInv' /\ UNCHANGED <<resetting, ignoreReset>>
      BY <2>1, <3>1, <3>2, FrameFeeds
    <3> QED BY <3>1, <3>3 DEF ModeInv
  <2> QED BY <1>2, <2>1, WaitsKeys, FailsKeys DEF AdvanceHasTape
<1>3. CASE AdvancePressPlayOnTape
  <2>1. CASE Goes("PRESSPLAYONTAPE", "PRESS PLAY ON TAPE", "LOADINGTAPE")
             /\ FrameEnds(Flushed) /\ UNCHANGED <<settings, orig, callback, upset>>
    <3>1. autostartmode' = "LOADINGTAPE" /\ kernal.shows = "PRESS PLAY ON TAPE"
      BY <2>1, SeenIsShown DEF Goes
    <3>2. KeyInv' /\ kernal'.shows = kernal.shows /\ UNCHANGED <<resetting, ignoreReset>>
      BY <2>1, PlainFrame
    <3>3. ~ignoreReset
      BY <2>1 DEF FrameEnds, FrameEndsWith, ModeInv
    <3> QED BY <3>1, <3>2, <3>3 DEF ModeInv
  <2> QED BY <1>3, <2>1, WaitsKeys, FailsKeys DEF AdvancePressPlayOnTape
<1>4. CASE AdvanceLoadingTape
  BY <1>4, LoadedKeys, LeavesKeys, FailsKeys DEF AdvanceLoadingTape
<1>5. CASE AdvanceWaitLoadReady
  BY <1>5, LoadedKeys, LeavesKeys, FailsKeys DEF AdvanceWaitLoadReady
<1>6. CASE AdvanceHasDisk
  <2>1. CASE Waits("HASDISK", "READY.")
    BY <2>1, WaitsKeys
  <2>2. CASE Fails("HASDISK", "READY.", TRUE)
    BY <2>2, FailsKeys
  <2>3. CASE ~Waits("HASDISK", "READY.") /\ ~Fails("HASDISK", "READY.", TRUE)
    <3> DEFINE typed == Feed(Flushed, Load, FALSE, clk)
    <3>1. /\ "YES" \in Shown("READY.")
          /\ autostartmode' \in {"LOADINGDISK", "WAITSEARCHINGFOR", "DONE"}
          /\ FrameEnds(IF autostartmode' = "DONE" THEN Finish(typed) ELSE typed)
          /\ upset \ {"stale"} \subseteq upset'
      BY <1>6, <2>3 DEF AdvanceHasDisk
    <3>2. kernal.shows = "READY."
      BY <3>1, SeenIsShown
    <3>3. FrameEnds(typed) \/ FrameEnds(Finish(typed))
      BY <3>1
    <3>4. upset \cap {"keys", "failed"} \subseteq upset'
      BY <3>1
    <3> HIDE DEF typed
    <3>5. typed = Feed(Flushed, Load, FALSE, clk)
      BY DEF typed
    <3>6. KeyInv' /\ UNCHANGED <<resetting, ignoreReset>>
      BY <3>2, <3>3, <3>4, <3>5, HasDiskKeys
    <3> QED BY <3>1, <3>6 DEF ModeInv
  <2> QED BY <2>1, <2>2, <2>3
<1>7. CASE AdvanceWaitSearchingFor
  <2>1. CASE Goes("WAITSEARCHINGFOR", "SEARCHING FOR", "WAITLOADING")
             /\ FrameEnds(Flushed) /\ UNCHANGED <<settings, orig, callback, upset>>
    BY <2>1, PlainKeys DEF Goes
  <2> QED BY <1>7, <2>1, WaitsKeys, FailsKeys DEF AdvanceWaitSearchingFor
<1>8. CASE AdvanceWaitLoading
  <2>1. CASE Goes("WAITLOADING", "LOADING", "WAITLOADREADY")
             /\ FrameEnds(Flushed) /\ UNCHANGED <<settings, orig, callback, upset>>
    <3>1. autostartmode' = "WAITLOADREADY" /\ kernal.shows = "LOADING"
      BY <2>1, SeenIsShown DEF Goes
    <3>2. KeyInv' /\ kernal'.shows = kernal.shows /\ UNCHANGED <<resetting, ignoreReset>>
      BY <2>1, PlainFrame
    <3>3. ~ignoreReset
      BY <2>1 DEF FrameEnds, FrameEndsWith, ModeInv
    <3> QED BY <3>1, <3>2, <3>3 DEF ModeInv
  <2>2. CASE FrameEnds(Flushed) /\ UNCHANGED <<settings, own, upset>>
    BY <2>2, PlainKeys DEF own
  <2> QED BY <1>8, <2>1, <2>2, FailsKeys DEF AdvanceWaitLoading
<1>9. CASE AdvanceHasSnapshot
  <2>1. CASE /\ Goes("HASSNAPSHOT", "READY.", "DONE")
             /\ FrameEndsWith(Flushed, [kernal EXCEPT !.shows = "RUNNING", !.memory = TRUE])
             /\ UNCHANGED <<settings, orig, callback, upset>>
    <3> DEFINE k == [kernal EXCEPT !.shows = "RUNNING", !.memory = TRUE]
    <3>1. autostartmode' = "DONE" /\ kernal.shows = "READY."
      BY <2>1, SeenIsShown DEF Goes
    <3>2. /\ k \in Kernals /\ k.line = kernal.line /\ k.memory
          /\ k.shows = "RUNNING"
      BY DEF KeyInv, Kernals, Shows
    <3>3. FrameEndsWith(Flushed, k)
      BY <2>1
    <3> HIDE DEF k
    <3>4. KeyInv' /\ UNCHANGED <<resetting, ignoreReset>>
      BY <2>1, <3>1, <3>2, <3>3, FrameKeeps
    <3> QED BY <3>1, <3>4 DEF ModeInv
  <2> QED BY <1>9, <2>1, WaitsKeys, FailsKeys DEF AdvanceHasSnapshot
<1>10. CASE AdvanceInject
  <2> DEFINE k == [kernal EXCEPT !.memory = TRUE]
  <2>1. /\ autostartmode' = "WAITLOADREADY" /\ FrameEndsWith(Flushed, k) /\ upset' = upset
    BY <1>10 DEF AdvanceInject
  <2>2. k \in Kernals /\ k.line = kernal.line /\ k.memory /\ k.shows = kernal.shows
    BY DEF KeyInv, Kernals
  <2> HIDE DEF k
  <2>3. KeyInv' /\ kernal'.memory = k.memory /\ UNCHANGED <<resetting, ignoreReset>>
    BY <2>1, <2>2, FrameKeeps
  <2>4. ~ignoreReset
    BY <2>1 DEF FrameEndsWith, ModeInv
  <2> QED BY <2>1, <2>2, <2>3, <2>4 DEF ModeInv
<1> QED
  BY <1>1, <1>2, <1>3, <1>4, <1>5, <1>6, <1>7, <1>8, <1>9, <1>10 DEF Frame

-----------------------------------------------------------------------------
(* The alarm, resets, the user and the KERNAL.                              *)

LEMMA AlarmKeys ==
    ASSUME KeyInv, ModeInv, AlarmFires
    PROVE  KeyInv' /\ ModeInv'
<1>1. /\ kbd.alarm # Unset /\ kbd' = PressReturn(kbd)
      /\ UNCHANGED <<clk, resetting, kernal, settings, own, history>>
  BY DEF AlarmFires, AlarmDue
<1>2. /\ Sound(kbd') /\ (Tidy(kbd) => Tidy(kbd') /\ Pending(kbd') = Pending(kbd))
  BY <1>1, PressWorks DEF KeyInv
<1>3. CASE "keys" \in upset
  BY <1>1, <1>2, <1>3 DEF KeyInv, ModeInv, own, history
<1>4. CASE "keys" \notin upset
  <2>1. Tidy(kbd') /\ Pending(kbd') = Pending(kbd)
    BY <1>2, <1>4 DEF KeyInv
  <2>2. kernal.shows # "boot"
    BY <1>1, <1>4 DEF KeyInv, Sound
  <2>3. Onward
    BY <1>1, <1>2, <2>1, <2>2 DEF Onward, KeyInv, history
  <2>4. Ready => Ready'
    BY <1>1 DEF Ready
  <2>5. KeyInv'
    BY <2>1, <2>3, <2>4, KeysKept
  <2> QED BY <1>1, <2>5 DEF ModeInv, own
<1> QED BY <1>3, <1>4

LEMMA ServeResetKeys ==
    ASSUME KeyInv, ModeInv, ServeReset
    PROVE  KeyInv' /\ ModeInv'
<1>1. /\ clk' = 0 /\ kernal' = Booting /\ UNCHANGED kbd /\ ~ignoreReset'
      /\ upset' = IF kbd.queue # <<>> THEN upset \cup {"keys"} ELSE upset
      /\ autostartmode' = "NONE" \/ (UNCHANGED autostartmode
                                     /\ (ignoreReset \/ autostartmode \in {"NONE", "ERROR"}))
  BY DEF ServeReset
<1>2. clk' \in Clock /\ kernal' \in Kernals
  BY <1>1, AutostartAssumption DEF Clock, Booting, Kernals, Shows, Keys
<1>3. kernal'.shows = "boot" /\ kernal'.line = <<>>
  BY <1>1 DEF Booting
<1>4. "keys" \notin upset' => "keys" \notin upset /\ kbd'.queue = <<>>
  BY <1>1
<1>5. KeyInv'
  BY <1>1, <1>2, <1>3, <1>4 DEF KeyInv
<1>6. ModeInv'
  BY <1>1 DEF ModeInv
<1> QED BY <1>5, <1>6

(* The machine is going to be reset.                                        *)
LEMMA ResetKeys ==
    ASSUME KeyInv, resetting', UNCHANGED <<clk, kbd, kernal>>,
           "keys" \in upset => "keys" \in upset'
    PROVE  KeyInv'
<1>1. Stream' = Stream
  BY DEF Stream, Pending
<1> QED BY <1>1 DEF KeyInv, Ready

LEMMA UserLoadsKeys ==
    ASSUME KeyInv, ModeInv, UserLoads
    PROVE  KeyInv' /\ ModeInv'
<1>1. /\ kernal.shows = "READY." /\ kernal.line = <<>> /\ kbd.buffer = <<>> /\ ~resetting
      /\ kbd' = [kbd EXCEPT !.buffer = Load]
      /\ UNCHANGED <<clk, resetting, kernal, own, upset>>
  BY DEF UserLoads
<1>2. Load \in Seq(Keys) /\ Len(Load) = 2 /\ Len(Load) <= BufferSize
  BY AutostartAssumption DEF Load, Keys
<1>3. /\ kbd' \in Buffers /\ kbd'.buffer = Load /\ kbd'.queue = kbd.queue
      /\ kbd'.alarm = kbd.alarm
  BY <1>1, <1>2 DEF KeyInv, Sound, Buffers, Kbdbufs
<1>4. Sound(kbd')
  BY <1>3 DEF KeyInv, Sound
<1>5. kbd.queue \in Seq(Keys) /\ Stream = kbd.queue
  <2>1. kbd.queue \in Seq(Keys)
    BY KeyFields
  <2> QED BY <1>1, <2>1, ConcatEmptySeq DEF Stream, Pending
<1>6. ASSUME "keys" \notin upset
      PROVE  Tidy(kbd') /\ Commands(Stream') /\ LoadsBefore(Stream') /\ Len(kernal'.line) <= 1
  <2>1. Commands(kbd.queue) /\ Tidy(kbd) /\ Sound(kbd) /\ Len(kernal.line) <= 1
    BY <1>1, <1>5, <1>6 DEF KeyInv
  <2>2. kbd.alarm = Unset
    <3>1. SUFFICES ASSUME kbd.queue # <<>>, Head(kbd.queue) = "return"  PROVE FALSE
      BY <2>1 DEF Sound, Tidy
    <3>2. PICK n \in Nat : CommandsOf(kbd.queue, n)
      BY <2>1 DEF Commands
    <3>3. Len(kbd.queue) # 0 /\ Len(kbd.queue) = 2 * n
      BY <1>5, <3>1, <3>2, EmptySeq DEF CommandsOf
    <3>4. 1 \in 1 .. n /\ 2 * 1 - 1 = 1
      BY <3>3
    <3>5. kbd.queue[1] # "return"
      BY <3>2, <3>4 DEF CommandsOf
    <3> QED BY <1>5, <3>1, <3>5
  <2>3. Tidy(kbd')
    BY <1>2, <1>3, <2>2 DEF Tidy
  <2>4. Stream' = Load \o kbd.queue
    <3>1. Load \o kbd.queue \in Seq(Keys)
      BY <1>2, <1>5, ConcatProperties
    <3>2. Stream' = <<>> \o (Load \o kbd.queue)
      BY <1>1, <1>3 DEF Stream, Pending
    <3> QED BY <3>1, <3>2, ConcatEmptySeq
  <2> QED BY <1>1, <1>5, <2>1, <2>3, <2>4, LoadTyped
<1>7. KeyInv'
  BY <1>1, <1>4, <1>6 DEF KeyInv
<1> QED BY <1>1, <1>7 DEF ModeInv, own

(* The KERNAL takes a key from its buffer.                                  *)
LEMMA ReadKeys ==
    ASSUME KeyInv, ModeInv, KernalReads
    PROVE  KeyInv' /\ ModeInv'
<1> DEFINE b == kbd.buffer
           q == kbd.queue
           h == Head(b)
           line == kernal.line \o <<h>>
           answer == CASE line = Load -> "SEARCHING FOR"
                       [] line = LoadTape -> "PRESS PLAY ON TAPE"
                       [] line = Run /\ kernal.memory -> "RUNNING"
                       [] OTHER -> "READY."
           shows == IF h = "return" THEN answer ELSE "READY."
           next == IF h = "return" THEN <<>> ELSE line
<1>1. /\ b # <<>> /\ ~resetting /\ kernal.shows = "READY."
      /\ kbd' = [kbd EXCEPT !.buffer = Tail(b)]
      /\ kernal' = [[kernal EXCEPT !.line = next,
                        !.shows = IF h = "return" THEN answer ELSE @] EXCEPT !.drawn = FALSE]
      /\ UNCHANGED <<clk, resetting, ignoreReset, autostartmode, upset>>
  BY DEF KernalReads, Kernal
<1>2. /\ b \in Seq(Keys) /\ q \in Seq(Keys) /\ kernal.line \in Seq(Keys) /\ Stream \in Seq(Keys)
      /\ kernal \in Kernals /\ kbd \in Buffers
  BY KeyFields DEF KeyInv
<1>3. h \in Keys /\ Tail(b) \in Seq(Keys) /\ Len(Tail(b)) = Len(b) - 1 /\ <<h>> \in Seq(Keys)
  BY <1>1, <1>2, HeadTailProperties
<1>4. b = <<h>> \o Tail(b)
  <2>1. Len(b) \in Nat /\ Len(b) # 0
    BY <1>1, <1>2, EmptySeq, LenProperties
  <2>2. 1 \in 1 .. Len(b) /\ Len(b) \in 1 .. Len(b)
    <3> HIDE DEF b
    <3> QED BY <2>1
  <2>3. SubSeq(b, 1, Len(b)) = <<b[1]>> \o SubSeq(b, 1 + 1, Len(b))
    BY <1>2, <2>2, SubSeqRecursiveFirst
  <2>4. SubSeq(b, 1, Len(b)) = b /\ Tail(b) = SubSeq(b, 2, Len(b)) /\ h = b[1]
    BY <1>1, <1>2, SubSeqFull, TailIsSubSeq
  <2> QED BY <2>3, <2>4
<1>5. line \in Seq(Keys) /\ next \in Seq(Keys)
  <2>1. line \in Seq(Keys)
    BY <1>2, <1>3, ConcatProperties
  <2> QED BY <2>1
<1>6. shows \in Shows \ {"boot"}
  BY DEF Shows
<1>7. /\ kbd' \in Buffers /\ kbd'.buffer = Tail(b) /\ kbd'.queue = q /\ kbd'.alarm = kbd.alarm
  BY <1>1, <1>2, <1>3 DEF Buffers, Kbdbufs
<1>8. Sound(kbd') /\ (Tidy(kbd) => Tidy(kbd'))
  <2>1. Len(b) \in Nat /\ BufferSize \in Nat
    BY <1>2, LenProperties, KbdbufAssumption
  <2>2. Sound(kbd')
    BY <1>7 DEF KeyInv, Sound
  <2>3. Tidy(kbd) => Tidy(kbd')
    <3> HIDE DEF b
    <3>1. Tidy(kbd) => Len(b) <= BufferSize /\ (kbd.alarm # Unset => Len(b) < BufferSize)
      BY DEF Tidy, b
    <3> QED BY <1>3, <1>7, <2>1, <3>1 DEF Tidy, q
  <2> QED BY <2>2, <2>3
<1>9. kernal' = [kernal EXCEPT !.line = next, !.shows = shows, !.drawn = FALSE]
  BY <1>1, <1>2 DEF Kernals
<1>10. /\ kernal' \in Kernals /\ kernal'.line = next /\ kernal'.shows = shows
       /\ kernal'.memory = kernal.memory
  <2> HIDE DEF next, shows
  <2> QED BY <1>2, <1>5, <1>6, <1>9 DEF Kernals
<1>11. Stream' = next \o (Tail(b) \o q)
  BY <1>7, <1>10 DEF Stream, Pending
<1>12. Stream = line \o (Tail(b) \o q)
  <2>1. \A s, t, u \in Seq(Keys) : (s \o t) \o u = s \o (t \o u)
    BY ONLY ConcatAssociative
  <2>2. Tail(b) \o q \in Seq(Keys)
    BY <1>2, <1>3, ConcatProperties
  <2>3. b \o q = <<h>> \o (Tail(b) \o q)
    <3>1. <<h>> \in Seq(Keys) /\ Tail(b) \in Seq(Keys) /\ q \in Seq(Keys)
      BY <1>2, <1>3
    <3>2. (<<h>> \o Tail(b)) \o q = <<h>> \o (Tail(b) \o q)
      BY ONLY <2>1, <3>1, Zenon
    <3> QED BY <1>4, <3>2
  <2>4. line \o (Tail(b) \o q) = kernal.line \o (<<h>> \o (Tail(b) \o q))
    <3>1. <<h>> \in Seq(Keys) /\ kernal.line \in Seq(Keys)
      BY <1>2, <1>3
    <3>2. (kernal.line \o <<h>>) \o (Tail(b) \o q) = kernal.line \o (<<h>> \o (Tail(b) \o q))
      BY ONLY <2>1, <2>2, <3>1, Zenon
    <3> QED BY <3>2, Zenon
  <2> QED BY <2>3, <2>4 DEF Stream, Pending
<1>13. ASSUME "keys" \notin upset
       PROVE  /\ Len(next) <= 1 /\ Commands(Stream')
              /\ "failed" \notin upset => Ready' \/ LoadsBefore(Stream')
  <2> DEFINE rest == Tail(b) \o q
  <2>1. rest \in Seq(Keys) /\ Len(rest) \in Nat
    BY <1>2, <1>3, ConcatProperties, LenProperties
  <2>2. /\ Len(line) = Len(kernal.line) + 1 /\ line[Len(line)] = h
        /\ Len(kernal.line) = 1 => line[1] = kernal.line[1]
    <3>1. /\ Len(line) = Len(kernal.line) + Len(<<h>>)
          /\ \A i \in 1 .. Len(kernal.line) + Len(<<h>>) :
                line[i] = IF i <= Len(kernal.line) THEN kernal.line[i]
                          ELSE <<h>>[i - Len(kernal.line)]
      BY <1>2, <1>3, ConcatProperties, Zenon
    <3>2. Len(<<h>>) = 1 /\ <<h>>[1] = h
      OBVIOUS
    <3>3. PICK m \in Nat : m = Len(kernal.line)
      BY <1>2, LenProperties
    <3> HIDE DEF line, h
    <3>4. line[m + 1] = h /\ (m = 1 => line[1] = kernal.line[1])
      <4>1. \A i \in 1 .. m + 1 : line[i] = IF i <= m THEN kernal.line[i] ELSE <<h>>[i - m]
        BY <3>1, <3>2, <3>3
      <4>2. m + 1 \in 1 .. m + 1 /\ ~(m + 1 <= m) /\ (m + 1) - m = 1
        OBVIOUS
      <4>3. line[m + 1] = h
        BY <3>2, <4>1, <4>2
      <4>4. m = 1 => line[1] = kernal.line[1]
        BY <4>1
      <4> QED BY <4>3, <4>4
    <3> QED BY <3>1, <3>2, <3>3, <3>4
  <2>3. /\ Len(Stream) = Len(line) + Len(rest)
        /\ \A i \in 1 .. Len(line) + Len(rest) :
              Stream[i] = IF i <= Len(line) THEN line[i] ELSE rest[i - Len(line)]
    BY <1>5, <1>12, <2>1, ConcatProperties, Zenon
  <2>4. /\ Commands(Stream) /\ Len(kernal.line) <= 1
        /\ "failed" \notin upset => Ready \/ LoadsBefore(Stream)
    BY <1>1, <1>13 DEF KeyInv
  <2>5. Len(kernal.line) \in {0, 1}
    <3>1. PICK m \in Nat : m = Len(kernal.line)
      BY <1>2, LenProperties
    <3>2. m <= 1
      BY <2>4, <3>1
    <3>3. m \in {0, 1}
      BY <3>2
    <3> QED BY <3>1, <3>3
  <2>6. /\ Stream[1] # "return" /\ Stream[2] = "return"
        /\ Stream[1] = line[1] /\ Stream[Len(line)] = h
    <3> HIDE DEF line, rest, h
    <3>1. PICK n \in Nat : CommandsOf(Stream, n)
      BY <2>4 DEF Commands
    <3>2. Len(line) \in {1, 2} /\ Len(Stream) = 2 * n
      <4>1. Len(line) \in {0 + 1, 1 + 1}
        BY <2>2, <2>5
      <4> QED BY <3>1, <4>1 DEF CommandsOf
    <3>3. 1 \in 1 .. n /\ 2 * 1 - 1 = 1 /\ 2 * 1 = 2
      BY <2>1, <2>3, <3>2
    <3>4. Stream[1] # "return" /\ Stream[2] = "return"
      BY <3>1, <3>3 DEF CommandsOf
    <3>5. Stream[1] = line[1] /\ Stream[Len(line)] = line[Len(line)]
      BY <2>1, <2>3, <3>2
    <3> QED BY <2>2, <3>4, <3>5
  <2>7. CASE kernal.line = <<>>
    <3>1. Len(line) = 1 /\ h # "return"
      BY <2>2, <2>6, <2>7, EmptySeq
    <3>2. next = line /\ shows = "READY."
      BY <3>1
    <3>3. Stream' = Stream /\ (Ready => Ready')
      BY <1>1, <1>10, <1>11, <1>12, <3>2 DEF Ready
    <3> QED BY <2>4, <3>1, <3>2, <3>3
  <2>8. CASE kernal.line # <<>>
    <3>1. Len(line) = 2 /\ h = "return" /\ Len(kernal.line) = 1
      <4>1. Len(kernal.line) # 0
        BY <1>2, <2>8, EmptySeq
      <4>2. Len(kernal.line) = 1
        BY <2>5, <4>1
      <4>3. Len(line) = 1 + 1
        BY <2>2, <4>2
      <4> HIDE DEF line, h
      <4> QED BY <2>6, <4>2, <4>3
    <3>2. next = <<>> /\ shows = answer
      BY <3>1
    <3>3. Stream' = rest
      BY <1>11, <2>1, <3>2, ConcatEmptySeq
    <3>4. Commands(rest)
      <4> HIDE DEF line, rest
      <4>1. Len(Stream) = Len(rest) + 2 /\ \A i \in 1 .. Len(rest) : rest[i] = Stream[i + 2]
        <5>1. PICK m \in Nat : m = Len(rest)
          BY <2>1
        <5>2. /\ Len(Stream) = 2 + m
              /\ \A i \in 1 .. 2 + m : Stream[i] = IF i <= 2 THEN line[i] ELSE rest[i - 2]
          BY <2>3, <3>1, <5>1
        <5>3. ASSUME NEW i \in 1 .. m  PROVE rest[i] = Stream[i + 2]
          <6>1. i + 2 \in 1 .. 2 + m /\ ~(i + 2 <= 2) /\ (i + 2) - 2 = i
            OBVIOUS
          <6> QED BY <5>2, <6>1
        <5> QED BY <5>1, <5>2, <5>3
      <4> QED BY <1>2, <2>1, <2>4, <4>1, CommandRead
    <3>5. ASSUME LoadsBefore(Stream)  PROVE Ready'
      <4>1. Stream[1] \in Keys /\ Stream[1] # "run"
        <5>1. 1 \in 1 .. Len(Stream)
          <6> HIDE DEF line, rest
          <6> QED BY <2>1, <2>3, <3>1
        <5>2. Stream[1] \in Keys
          BY <1>2, <5>1, ElementOfSeq
        <5>3. ~\E i \in 1 .. 1 - 1 : Stream[i] \in {"load", "tape"}
          OBVIOUS
        <5> QED BY <3>5, <5>1, <5>2, <5>3 DEF LoadsBefore
      <4>2. line[1] \in {"load", "tape"} /\ line[2] = "return"
        <5>1. line[1] = Stream[1] /\ line[2] = h
          BY <2>2, <2>6, <3>1
        <5> HIDE DEF line, h
        <5> QED BY <2>6, <3>1, <4>1, <5>1 DEF Keys
      <4>3. line = Load \/ line = LoadTape
        <5> HIDE DEF line, h
        <5>1. Load \in Seq(Keys) /\ LoadTape \in Seq(Keys) /\ Len(Load) = 2 /\ Len(LoadTape) = 2
              /\ Load[1] = "load" /\ Load[2] = "return"
              /\ LoadTape[1] = "tape" /\ LoadTape[2] = "return"
          BY DEF Load, LoadTape, Keys
        <5>2. CASE line[1] = "load"
          <6>1. \A i \in 1 .. Len(line) : line[i] = Load[i]
            BY <3>1, <4>2, <5>1, <5>2
          <6> QED BY <1>5, <3>1, <5>1, <6>1, SeqEqual
        <5>3. CASE line[1] = "tape"
          <6>1. \A i \in 1 .. Len(line) : line[i] = LoadTape[i]
            BY <3>1, <4>2, <5>1, <5>3
          <6> QED BY <1>5, <3>1, <5>1, <6>1, SeqEqual
        <5> QED BY <4>2, <5>2, <5>3
      <4>4. answer \in {"SEARCHING FOR", "PRESS PLAY ON TAPE"}
        <5>1. Load # LoadTape /\ Load # Run /\ LoadTape # Run
          <6>1. Load[1] # LoadTape[1] /\ Load[1] # Run[1] /\ LoadTape[1] # Run[1]
            BY DEF Load, LoadTape, Run
          <6> QED BY <6>1
        <5> HIDE DEF line
        <5> QED BY <4>3, <5>1
      <4> QED BY <1>10, <3>2, <4>4 DEF Ready
    <3>6. Ready => Ready'
      BY <1>1, <1>10 DEF Ready
    <3>7. Len(next) <= 1
      <4>1. Len(next) = 0
        BY <3>2, EmptySeq
      <4> QED BY <4>1
    <3> HIDE DEF next, shows, line, rest
    <3> QED BY <2>4, <3>3, <3>4, <3>5, <3>6, <3>7
  <2> QED BY <2>7, <2>8
<1> HIDE DEF next, shows
<1>14. KeyInv'
  BY <1>1, <1>6, <1>8, <1>10, <1>13 DEF KeyInv
<1>15. ModeInv'
  BY <1>1, <1>10 DEF ModeInv
<1> QED BY <1>14, <1>15

(* The KERNAL goes on without reading a key or coming up.                   *)
LEMMA KernalGoesOn ==
    ASSUME KeyInv, NEW from \in Shows \ {"boot"}, NEW shows \in Shows \ {"boot"},
           NEW memory \in BOOLEAN,
           Kernal(from, [kernal EXCEPT !.shows = shows, !.memory = memory]),
           upset \cap {"keys", "failed"} \subseteq upset'
    PROVE  /\ kernal'.shows = shows /\ kernal'.memory = memory
           /\ Sound(kbd') /\ (Tidy(kbd) => Tidy(kbd')) => Onward
           /\ UNCHANGED <<clk, resetting, delay, waitForReset, ignoreReset, enteredRom,
                          session, wanted, left>>
<1>1. /\ kernal.shows = from
      /\ kernal' = [[kernal EXCEPT !.shows = shows, !.memory = memory] EXCEPT !.drawn = FALSE]
      /\ UNCHANGED <<clk, resetting, delay, waitForReset, ignoreReset, enteredRom,
                     session, wanted, left>>
  BY DEF Kernal
<1>2. /\ kernal' \in Kernals /\ kernal'.line = kernal.line /\ kernal'.shows = shows
      /\ kernal'.memory = memory
  BY <1>1 DEF KeyInv, Kernals
<1> QED BY <1>1, <1>2 DEF Onward, KeyInv

LEMMA KernalKeys ==
    ASSUME Inv, KeyInv, ModeInv, KernalRuns
    PROVE  KeyInv' /\ ModeInv'
<1>1. CASE KernalBoots
  <2>1. /\ kernal.shows = "boot" /\ kernal' = [kernal EXCEPT !.shows = "READY.", !.drawn = FALSE]
        /\ kbd' = [kbd EXCEPT !.buffer = <<>>]
        /\ UNCHANGED <<clk, resetting, ignoreReset, autostartmode, upset>>
    BY <1>1 DEF KernalBoots, Kernal, KeyInv, Kernals
  <2>2. /\ kernal' \in Kernals /\ kernal'.line = kernal.line /\ kernal'.shows = "READY."
        /\ kernal'.memory = kernal.memory
    BY <2>1 DEF KeyInv, Kernals, Shows
  <2>3. /\ kbd' \in Buffers /\ kbd'.buffer = <<>> /\ kbd'.queue = kbd.queue
        /\ kbd'.alarm = kbd.alarm
    <3>1. <<>> \in Seq(Keys)
      BY EmptySeq
    <3> QED BY <2>1, <3>1 DEF KeyInv, Sound, Buffers, Kbdbufs
  <2>4. Sound(kbd')
    BY <2>3 DEF KeyInv, Sound
  <2>5. ASSUME "keys" \notin upset
        PROVE  Tidy(kbd') /\ Len(kernal'.line) <= 1 /\ Commands(Stream') /\ LoadsBefore(Stream')
    <3>1. kbd.queue = <<>> /\ kernal.line = <<>> /\ Len(<<>>) = 0
      BY <2>1, <2>5, EmptySeq DEF KeyInv
    <3>2. Tidy(kbd')
      BY <2>3, <2>4, <3>1, KbdbufAssumption DEF Tidy, Sound
    <3>3. Stream' = <<>>
      <4>1. Stream' = <<>> \o (<<>> \o <<>>)
        BY <2>2, <2>3, <3>1 DEF Stream, Pending
      <4>2. <<>> \in Seq(Keys)
        BY EmptySeq
      <4> QED BY <4>1, <4>2, ConcatEmptySeq
    <3>4. CommandsOf(<<>>, 0)
      BY <3>1 DEF CommandsOf
    <3>5. Commands(<<>>) /\ LoadsBefore(<<>>)
      BY <3>1, <3>4 DEF Commands, LoadsBefore
    <3> QED BY <2>2, <3>1, <3>2, <3>3, <3>5
  <2>6. KeyInv'
    BY <2>1, <2>2, <2>4, <2>5 DEF KeyInv
  <2> QED BY <2>1, <2>2, <2>6 DEF ModeInv
<1>2. CASE KernalReads
  BY <1>2, ReadKeys
<1>3. CASE KernalSearches
  <2>1. PICK shows \in {"ERROR", "LOADING"} :
            /\ Kernal("SEARCHING FOR", [kernal EXCEPT !.shows = shows])
            /\ upset' = upset \cup (IF shows = "ERROR" THEN {"failed"} ELSE {}) \cup
                        (IF ByTrap /\ "attention" \in callback /\ autostartmode # "LOADINGDISK"
                         THEN {"old"} ELSE {})
    BY <1>3 DEF KernalSearches
  <2>2. kernal.shows = "SEARCHING FOR" /\ UNCHANGED <<kbd, autostartmode>>
    BY <1>3, <2>1 DEF KernalSearches, Kernal
  <2>3. [kernal EXCEPT !.shows = shows, !.memory = kernal.memory] = [kernal EXCEPT !.shows = shows]
    BY DEF KeyInv, Kernals
  <2>4. kernal.memory \in BOOLEAN
    BY KeyFields
  <2>5. /\ kernal'.shows = shows /\ kernal'.memory = kernal.memory /\ Onward
        /\ UNCHANGED <<clk, resetting, ignoreReset>>
    BY <2>1, <2>2, <2>3, <2>4, KernalGoesOn DEF KeyInv, Shows
  <2>6. KeyInv'
    BY <2>1, <2>2, <2>5, KeysKept DEF Ready
  <2> QED BY <2>2, <2>5, <2>6 DEF ModeInv
<1>4. CASE KernalComplains
  <2>1. /\ Kernal("ERROR", [kernal EXCEPT !.shows = "READY."]) /\ kernal.shows = "ERROR"
        /\ UNCHANGED <<kbd, autostartmode, upset>>
    BY <1>4 DEF KernalComplains, Kernal
  <2>2. kernal.memory \in BOOLEAN /\
        [kernal EXCEPT !.shows = "READY.", !.memory = kernal.memory] = [kernal EXCEPT !.shows = "READY."]
    BY KeyFields DEF KeyInv, Kernals
  <2>3. /\ kernal'.shows = "READY." /\ kernal'.memory = kernal.memory /\ Onward
        /\ UNCHANGED <<clk, resetting, ignoreReset>>
    BY <2>1, <2>2, KernalGoesOn DEF KeyInv, Shows
  <2>4. KeyInv'
    BY <2>1, <2>3, KeysKept DEF Ready
  <2> QED BY <2>1, <2>3, <2>4 DEF ModeInv
<1>5. CASE KernalFindsTape
  <2>1. /\ Kernal("PRESS PLAY ON TAPE", [kernal EXCEPT !.shows = "LOADING"])
        /\ kernal.shows = "PRESS PLAY ON TAPE" /\ UNCHANGED <<kbd, autostartmode, upset>>
    BY <1>5 DEF KernalFindsTape, Kernal
  <2>2. kernal.memory \in BOOLEAN /\
        [kernal EXCEPT !.shows = "LOADING", !.memory = kernal.memory] = [kernal EXCEPT !.shows = "LOADING"]
    BY KeyFields DEF KeyInv, Kernals
  <2>3. /\ kernal'.shows = "LOADING" /\ kernal'.memory = kernal.memory /\ Onward
        /\ UNCHANGED <<clk, resetting, ignoreReset>>
    BY <2>1, <2>2, KernalGoesOn DEF KeyInv, Shows
  <2>4. KeyInv'
    BY <2>1, <2>3, KeysKept DEF Ready
  <2> QED BY <2>1, <2>3, <2>4 DEF ModeInv
<1>6. CASE KernalLoads
  <2>1. PICK shows \in {"READY.", "RUNNING"} :
            Kernal("LOADING", [kernal EXCEPT !.shows = shows, !.memory = TRUE])
    BY <1>6 DEF KernalLoads
  <2>2. /\ kernal.shows = "LOADING" /\ autostartmode' \in {autostartmode, "DONE"}
        /\ kbd' \in {kbd, Finish(kbd)} /\ UNCHANGED upset
    BY <1>6, <2>1 DEF KernalLoads, Kernal
  <2>3. /\ kernal'.shows = shows /\ kernal'.memory = TRUE
        /\ Sound(kbd') /\ (Tidy(kbd) => Tidy(kbd')) => Onward
        /\ UNCHANGED <<clk, resetting, ignoreReset>>
    BY <2>1, <2>2, KernalGoesOn DEF Shows
  <2>4. Ready'
    BY <2>3 DEF Ready
  <2>5. CASE kbd' = kbd
    <3>1. Onward
      BY <2>3, <2>5 DEF KeyInv
    <3> QED BY <2>2, <2>3, <2>4, <2>5, <3>1, KeysKept DEF ModeInv
  <2>6. CASE kbd' = Finish(kbd)
    <3>1. settings.random \in BOOLEAN /\ Command(Run)
      BY DEF Inv, TypeInv, Settings, Command
    <3>2. FedFrom(kbd, Run, kbd', clk)
      <4>1. FedFrom(kbd, Run, Feed(kbd, Run, settings.random, clk), clk)
        BY <3>1, FeedWorks DEF KeyInv
      <4> QED BY <2>6, <4>1 DEF Finish
    <3>3. Onward /\ Pending(kbd') \in {Pending(kbd), Pending(kbd) \o Run}
      BY <2>3, <3>2 DEF FedFrom
    <3>4. KeyInv'
      <4>1. CASE Pending(kbd') = Pending(kbd)
        BY <2>4, <3>3, <4>1, KeysKept
      <4>2. CASE Pending(kbd') = Pending(kbd) \o Run
        BY <2>2, <2>4, <3>1, <3>3, <4>2, KeysFed
      <4> QED BY <3>3, <4>1, <4>2
    <3> QED BY <2>2, <2>3, <3>4 DEF ModeInv
  <2> QED BY <2>2, <2>5, <2>6
<1> QED BY <1>1, <1>2, <1>3, <1>4, <1>5, <1>6 DEF KernalRuns

-----------------------------------------------------------------------------
(* The remaining variables.                                                 *)

LEMMA FrameRests ==
    ASSUME NEW kb, NEW k, FrameEndsWith(kb, k) \/ FrameEnds(kb)
    PROVE  UNCHANGED <<resetting, delay, ignoreReset, session, wanted, left>>
BY DEF FrameEndsWith, FrameEnds

LEMMA FrameRest ==
    ASSUME RestInv, Frame
    PROVE  RestInv'
<1>1. UNCHANGED <<resetting, delay, ignoreReset, session, left>>
  BY FrameRests DEF Frame, HookIdles, AdvanceHasTape, AdvancePressPlayOnTape,
     AdvanceLoadingTape, AdvanceHasDisk, AdvanceHasSnapshot, AdvanceWaitSearchingFor,
     AdvanceWaitLoading, AdvanceWaitLoadReady, AdvanceInject, Waits, Fails, Loaded, LeavesRom
<1>2. waitForReset' \in BOOLEAN /\ enteredRom' \in BOOLEAN
  BY DEF RestInv, Frame, HookIdles, AdvanceHasTape, AdvancePressPlayOnTape,
     AdvanceLoadingTape, AdvanceHasDisk, AdvanceHasSnapshot, AdvanceWaitSearchingFor,
     AdvanceWaitLoading, AdvanceWaitLoadReady, AdvanceInject, Waits, Fails, Loaded, LeavesRom,
     Goes, own
<1>3. callback' \subseteq {"attention", "eof"} /\ upset' \subseteq Reasons
  <2>1. CASE AdvanceHasDisk
    BY <2>1 DEF RestInv, AdvanceHasDisk, Waits, Fails, own, Reasons
  <2>2. CASE ~AdvanceHasDisk
    <3>1. UNCHANGED <<callback, upset>>
      BY <2>2 DEF Frame, HookIdles, AdvanceHasTape, AdvancePressPlayOnTape,
         AdvanceLoadingTape, AdvanceHasSnapshot, AdvanceWaitSearchingFor,
         AdvanceWaitLoading, AdvanceWaitLoadReady, AdvanceInject, Waits, Fails, Loaded,
         LeavesRom, own
    <3> QED BY <3>1 DEF RestInv
  <2> QED BY <2>1, <2>2
<1> QED BY <1>1, <1>2, <1>3 DEF RestInv

LEMMA UserRest ==
    ASSUME RestInv, UserResets \/ UserSets \/ UserLoads \/ StartFails
    PROVE  RestInv'
<1>1. /\ session' \in {session, session + 1} /\ (session' # session => session < MaxStarts)
      /\ left' \in {left, left - 1} /\ (left' # left => left > 0)
      /\ upset' \in {upset, upset \cup {"again"}} /\ resetting' \in {resetting, TRUE}
      /\ UNCHANGED own \/ UNCHANGED <<delay, waitForReset, ignoreReset, enteredRom, callback>>
  BY DEF UserResets, UserSets, UserLoads, StartFails, Acts, machine
<1>2. session' \in 0 .. MaxStarts /\ left' \in 0 .. MaxActs
  BY <1>1, AutostartAssumption DEF RestInv
<1> QED BY <1>1, <1>2 DEF RestInv, own, Reasons

LEMMA StartsRest ==
    ASSUME RestInv, NEW media \in Media, Starts(media)
    PROVE  RestInv'
<1>1. /\ session < MaxStarts /\ session' = session + 1
      /\ \E d \in Delays \cup {0} : delay' = MinCycles + d
      /\ ignoreReset' /\ waitForReset' /\ resetting'
      /\ ignoreReset' = TRUE /\ waitForReset' = TRUE /\ resetting' = TRUE
      /\ upset' \subseteq upset \cup {"again", "stale", "old"}
      /\ UNCHANGED <<enteredRom, callback, left>>
  BY DEF Starts
<1>2. delay' \in Nat
  <2>1. PICK d \in Delays \cup {0} : delay' = MinCycles + d
    BY <1>1
  <2> QED BY <2>1, AutostartAssumption
<1>3. session' \in 0 .. MaxStarts
  BY <1>1, AutostartAssumption DEF RestInv
<1> QED BY <1>1, <1>2, <1>3 DEF RestInv, Reasons

LEMMA KernalRest ==
    ASSUME RestInv, KernalRuns
    PROVE  RestInv'
<1>1. UNCHANGED <<resetting, delay, waitForReset, ignoreReset, enteredRom, session, left>>
  BY DEF KernalRuns, KernalBoots, KernalReads, KernalSearches, KernalComplains,
         KernalFindsTape, KernalLoads, Kernal
<1>2. /\ callback' \in {callback, {"eof"}, callback \ {"eof"}}
      /\ upset' \subseteq upset \cup {"failed", "old"}
  BY DEF KernalRuns, KernalBoots, KernalReads, KernalSearches, KernalComplains,
         KernalFindsTape, KernalLoads
<1> QED BY <1>1, <1>2 DEF RestInv, Reasons

-----------------------------------------------------------------------------
LEMMA InitAllInv == Init => AllInv
<1> SUFFICES ASSUME Init PROVE AllInv
  OBVIOUS
<1>1. clk \in Clock /\ kernal \in Kernals /\ kernal.shows = "boot" /\ kernal.line = <<>>
  BY AutostartAssumption, EmptySeq DEF Init, Booting, Kernals, Shows, Clock
<1>2. /\ kbd \in Buffers /\ kbd.queue = <<>> /\ kbd.buffer = <<>> /\ kbd.alarm = Unset
  BY EmptySeq DEF Init, EmptyKbdbuf, Buffers, Kbdbufs
<1>3. Sound(kbd) /\ Tidy(kbd)
  <2>1. Len(<<>>) = 0 /\ QueueSize \in Nat /\ BufferSize \in Nat
    BY KbdbufAssumption, EmptySeq
  <2> QED BY <1>2, <2>1 DEF Sound, Tidy
<1>4. KeyInv
  BY <1>1, <1>2, <1>3 DEF KeyInv
<1>5. ModeInv
  BY DEF Init, ModeInv
<1>6. RestInv
  <2>1. 0 \in 0 .. MaxStarts /\ MaxActs \in 0 .. MaxActs
    BY AutostartAssumption
  <2> QED BY <2>1 DEF Init, RestInv
<1> QED BY <1>4, <1>5, <1>6, InitInv DEF AllInv

LEMMA NextAllInv == AllInv /\ [Next]_vars => AllInv'
<1> SUFFICES ASSUME AllInv, [Next]_vars PROVE AllInv'
  OBVIOUS
<1>0. Inv /\ KeyInv /\ ModeInv /\ RestInv /\ Inv'
  BY NextInv DEF AllInv
<1> SUFFICES KeyInv' /\ ModeInv' /\ RestInv'
  BY <1>0 DEF AllInv
<1>1. CASE Frame
  BY <1>0, <1>1, FrameKeys, FrameRest
<1>2. CASE AlarmFires
  BY <1>0, <1>2, AlarmKeys DEF AlarmFires, own, history, RestInv
<1>3. CASE ServeReset
  <2>1. RestInv'
    BY <1>0, <1>3 DEF ServeReset, RestInv, Reasons
  <2> QED BY <1>0, <1>3, <2>1, ServeResetKeys
<1>4. CASE KernalRuns
  BY <1>0, <1>4, KernalKeys, KernalRest
<1>5. CASE UserResets
  <2>1. KeyInv'
    BY <1>0, <1>5, ResetKeys DEF UserResets
  <2>2. ModeInv'
    BY <1>0, <1>5 DEF UserResets, ModeInv, own
  <2> QED BY <1>0, <1>5, <2>1, <2>2, UserRest
<1>6. CASE UserLoads
  BY <1>0, <1>6, UserLoadsKeys, UserRest
<1>7. CASE UserSets
  <2>1. KeyInv' /\ ModeInv'
    BY <1>0, <1>7 DEF UserSets, KeyInv, ModeInv, Ready, Stream, Pending, machine, own
  <2> QED BY <1>0, <1>7, <2>1, UserRest
<1>8. CASE StartFails
  <2>1. KeyInv' /\ ModeInv'
    BY <1>0, <1>8 DEF StartFails, KeyInv, ModeInv, Ready, Stream, Pending, machine
  <2> QED BY <1>0, <1>8, <2>1, UserRest
<1>9. CASE \E media \in Media : Starts(media)
  <2>1. PICK media \in Media : Starts(media)
    BY <1>9
  <2>2. KeyInv'
    BY <1>0, <2>1, ResetKeys DEF Starts
  <2>3. ModeInv'
    BY <2>1, ModeOfMedia DEF Starts, ModeInv
  <2> QED BY <1>0, <2>1, <2>2, <2>3, StartsRest
<1>10. CASE UNCHANGED vars
  BY <1>0, <1>10 DEF vars, machine, own, history, KeyInv, ModeInv, RestInv, Ready, Stream, Pending
<1> QED
  BY <1>1, <1>2, <1>3, <1>4, <1>5, <1>6, <1>7, <1>8, <1>9, <1>10 DEF Next

LEMMA AlwaysAllInv == Spec => []AllInv
BY InitAllInv, NextAllInv, PTL DEF Spec

(* The KERNAL's buffer and the queue never hold more than there is room for, *)
(* and the alarm never presses a RETURN that is not there (kbdbuf.c:325-351, *)
(* 265-272), but for what a reset leaves behind in the queue.                *)
THEOREM AutostartTypes == Spec => []TypeOK
<1>1. AllInv => TypeOK
  <2> SUFFICES ASSUME AllInv  PROVE TypeOK
    OBVIOUS
  <2>1. /\ clk \in Clock /\ kernal \in Kernals /\ kbd \in Kbdbufs(0 .. Late + 1)
        /\ Len(kbd.queue) <= QueueSize
        /\ Len(kbd.buffer) <= BufferSize \/ "keys" \in upset
    BY DEF AllInv, KeyInv, Sound, Tidy, Buffers
  <2> QED BY <2>1 DEF AllInv, Inv, TypeInv, RestInv, TypeOK, Settings, Saved
<1> QED BY AlwaysAllInv, <1>1, PTL

(* When the KERNAL is given RUN, a program is in memory (autostart.c:633-678, *)
(* 793-870): the RETURN that ends the line comes after a LOAD, or was fed     *)
(* once the program was there.                                               *)
THEOREM RunHasAProgram == Spec => RunsAProgram
<1>1. ASSUME AllInv, KernalReads, kernal.line \o <<Head(kbd.buffer)>> = Run,
             upset \cap {"keys", "failed"} = {}
      PROVE  kernal.memory
  <2> DEFINE h == Head(kbd.buffer)
  <2>1. KeyInv /\ kernal.shows = "READY." /\ ~resetting /\ kbd.buffer # <<>>
    BY <1>1 DEF AllInv, KernalReads, Kernal
  <2>2. /\ kernal.line \in Seq(Keys) /\ kbd.buffer \in Seq(Keys) /\ Pending(kbd) \in Seq(Keys)
        /\ h \in Keys
    BY <2>1, KeyFields, HeadTailProperties
  <2>3. /\ Len(Run) = Len(kernal.line) + Len(<<h>>)
        /\ \A i \in 1 .. Len(kernal.line) + Len(<<h>>) :
              Run[i] = IF i <= Len(kernal.line) THEN kernal.line[i] ELSE <<h>>[i - Len(kernal.line)]
    <3>1. <<h>> \in Seq(Keys)
      BY <2>2
    <3> QED BY <1>1, <2>2, <3>1, ConcatProperties, ZenonT(60)
  <2>4. Len(kernal.line) = 1 /\ kernal.line[1] = "run"
    <3>1. PICK m \in Nat : m = Len(kernal.line)
      BY <2>2, LenProperties
    <3>2. Len(<<h>>) = 1
      OBVIOUS
    <3>3. Len(Run) = 2 /\ Run[1] = "run"
      BY DEF Run
    <3> HIDE DEF h
    <3>4. m + 1 = 2
      BY <2>3, <3>1, <3>2, <3>3
    <3>5. m = 1
      BY <3>4
    <3>6. 1 \in 1 .. Len(kernal.line) + Len(<<h>>) /\ 1 <= Len(kernal.line)
      BY <3>1, <3>2, <3>5
    <3> QED BY <2>3, <3>1, <3>3, <3>5, <3>6
  <2>5. Stream[1] = "run" /\ 1 \in 1 .. Len(Stream)
    <3>1. /\ Len(Stream) = Len(kernal.line) + Len(Pending(kbd))
          /\ \A i \in 1 .. Len(kernal.line) + Len(Pending(kbd)) :
                Stream[i] = IF i <= Len(kernal.line) THEN kernal.line[i]
                            ELSE Pending(kbd)[i - Len(kernal.line)]
      BY <2>2, ConcatProperties, Zenon DEF Stream
    <3>2. PICK m \in Nat : m = Len(Pending(kbd))
      BY <2>2, LenProperties
    <3> QED BY <2>4, <3>1, <3>2
  <2>6. ~LoadsBefore(Stream)
    BY <2>5 DEF LoadsBefore
  <2>7. Ready
    BY <1>1, <2>1, <2>6 DEF KeyInv
  <2> QED BY <2>1, <2>7 DEF Ready
<1>2. AllInv => [KernalReads /\ kernal.line \o <<Head(kbd.buffer)>> = Run
                     /\ upset \cap {"keys", "failed"} = {} => kernal.memory]_vars
  BY <1>1
<1> QED BY AlwaysAllInv, <1>2, PTL DEF RunsAProgram
=============================================================================
