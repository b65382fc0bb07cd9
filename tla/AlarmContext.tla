---------------------------- MODULE AlarmContext ----------------------------
(***************************************************************************)
(* The alarm context of VICE (src/vice/src/alarm.c, alarm.h): the table of  *)
(* pending alarms every emulated CPU polls between two instructions.  This  *)
(* module is the data structure alone: a record and one operator for each   *)
(* function of the C interface.  AlarmTable drives it as a state machine and *)
(* shows that it implements AlarmQueue, which is all MainCpu knows of it.   *)
(*                                                                         *)
(* A context c has                                                         *)
(*   c.live     the alarms on the context's list (alarm_new'ed, not yet     *)
(*              destroyed);                                                 *)
(*   c.num      num_pending_alarms;                                         *)
(*   c.slot     pending_alarms[]: slots 0 .. c.num-1 are in use, the others *)
(*              keep whatever was last written to them;                     *)
(*   c.idx      alarm->pending_idx of every alarm, -1 when not pending;     *)
(*   c.nextClk  next_pending_alarm_clk;                                     *)
(*   c.nextIdx  next_pending_alarm_idx.                                     *)
(***************************************************************************)
EXTENDS Clocks

CONSTANTS
    Alarms,       \* the alarms the chips of the machine may create
    NoAlarm,      \* what a slot that was never written holds
    MaxPending    \* ALARM_CONTEXT_MAX_PENDING_ALARMS

ASSUME AlarmsAssumption == NoAlarm \notin Alarms
ASSUME MaxPendingAssumption == MaxPending \in Nat \ {0}

Slots == 0 .. (MaxPending - 1)

Contexts ==
    [live : SUBSET Alarms,
     num : 0 .. MaxPending,
     slot : [Slots -> [alarm : Alarms \cup {NoAlarm}, clk : Clock]],
     idx : [Alarms -> -1 .. MaxPending - 1],
     nextClk : Clock,
     nextIdx : -1 .. MaxPending]

InUse(c) == 0 .. (c.num - 1)
IsPending(c, a) == c.idx[a] >= 0

\* The clock an alarm is due at; one past CLOCK_MAX when it is not pending.
DueTime(c, a) ==
    IF IsPending(c, a) THEN c.slot[c.idx[a]].clk ELSE ClockMax + 1

-----------------------------------------------------------------------------
(* alarm_context_init leaves next_pending_alarm_idx as lib_malloc returned  *)
(* it: garbage is any value of next_pending_alarm_idx the table can hold.   *)
ContextInit(garbage) ==
    [live |-> {}, num |-> 0,
     slot |-> [i \in Slots |-> [alarm |-> NoAlarm, clk |-> 0]],
     idx |-> [a \in Alarms |-> -1],
     nextClk |-> ClockMax, nextIdx |-> garbage]

(* The scan for the next alarm compares with <=: of several alarms due at   *)
(* the same clock the one in the last slot is chosen.                       *)
LastEarliest(c) ==
    CHOOSE i \in InUse(c) :
        \A j \in InUse(c) : \/ c.slot[i].clk < c.slot[j].clk
                            \/ c.slot[i].clk = c.slot[j].clk /\ j <= i

UpdateNextPending(c) ==
    IF c.num = 0 THEN [c EXCEPT !.nextClk = ClockMax]
    ELSE [c EXCEPT !.nextClk = c.slot[LastEarliest(c)].clk,
                   !.nextIdx = LastEarliest(c)]

AlarmNew(c, a) == [c EXCEPT !.live = @ \cup {a}, !.idx[a] = -1]

(* Mutant of AddPending: alarm_set does not look whether the table is full. *)
AddPendingUnguarded(c, a, t) ==
    LET added == [c EXCEPT !.slot[c.num] = [alarm |-> a, clk |-> t],
                           !.num = @ + 1,
                           !.idx[a] = c.num]
    IN  IF t < c.nextClk
        THEN [added EXCEPT !.nextClk = t, !.nextIdx = c.num]
        ELSE added

(* alarm_set on an alarm that is not pending: append it, unless the table   *)
(* is full, when the request is only logged.                                *)
AddPending(c, a, t) ==
    IF c.num >= MaxPending THEN c
    ELSE LET added == [c EXCEPT !.slot[c.num] = [alarm |-> a, clk |-> t],
                                !.num = @ + 1,
                                !.idx[a] = c.num]
         IN  IF t < c.nextClk
             THEN [added EXCEPT !.nextClk = t, !.nextIdx = c.num]
             ELSE added

(* Mutant of ModifyPending: postponing the next alarm does not look for     *)
(* another one that is now earlier.                                         *)
ModifyPendingNoRescan(c, a, t) ==
    LET modified == [c EXCEPT !.slot[c.idx[a]].clk = t]
    IN  IF c.nextClk > t THEN UpdateNextPending(modified)
        ELSE IF c.idx[a] = c.nextIdx THEN [modified EXCEPT !.nextClk = t]
        ELSE modified

(* alarm_set on a pending alarm: overwrite its clock in place.              *)
ModifyPending(c, a, t) ==
    LET modified == [c EXCEPT !.slot[c.idx[a]].clk = t]
    IN  IF c.nextClk > t \/ c.idx[a] = c.nextIdx
        THEN UpdateNextPending(modified)
        ELSE modified

AlarmSet(c, a, t) ==
    IF IsPending(c, a) THEN ModifyPending(c, a, t) ELSE AddPending(c, a, t)

(* Mutants of RemovePending: the alarm that moves keeps its old index; the  *)
(* cached index does not follow the slot that moves.                        *)
RemovePendingStaleIndex(c, a) ==
    LET i == c.idx[a]
        last == c.num - 1
        moved == [c EXCEPT !.num = last, !.slot[i] = c.slot[last], !.idx[a] = -1]
    IN  IF c.nextIdx = i THEN UpdateNextPending(moved)
        ELSE IF c.nextIdx = last THEN [moved EXCEPT !.nextIdx = i]
        ELSE moved

RemovePendingStaleCache(c, a) ==
    LET i == c.idx[a]
        last == c.num - 1
        moved == [c EXCEPT !.num = last,
                           !.slot[i] = c.slot[last],
                           !.idx = [@ EXCEPT ![c.slot[last].alarm] = i,
                                             ![a] = -1]]
    IN  IF c.nextIdx = i THEN UpdateNextPending(moved) ELSE moved

(* alarm_unset with other alarms pending: the last slot moves into the one  *)
(* that is given up.                                                        *)
RemovePending(c, a) ==
    LET i == c.idx[a]
        last == c.num - 1
        moved == IF last = i THEN [c EXCEPT !.num = last, !.idx[a] = -1]
                 ELSE [c EXCEPT !.num = last,
                                !.slot[i] = c.slot[last],
                                !.idx = [@ EXCEPT ![c.slot[last].alarm] = i,
                                                  ![a] = -1]]
    IN  IF c.nextIdx = i THEN UpdateNextPending(moved)
        ELSE IF c.nextIdx = last THEN [moved EXCEPT !.nextIdx = i]
        ELSE moved

AlarmUnset(c, a) ==
    IF ~IsPending(c, a) THEN c
    ELSE IF c.num > 1 THEN RemovePending(c, a)
    ELSE [c EXCEPT !.num = 0, !.nextClk = ClockMax, !.nextIdx = -1,
                   !.idx[a] = -1]

AlarmDestroy(c, a) ==
    LET unset == AlarmUnset(c, a) IN [unset EXCEPT !.live = @ \ {a}]

(* Mutant of TimeWarp: the cached clock is left behind.                     *)
TimeWarpStaleCache(c, amount) ==
    [c EXCEPT !.slot = [i \in Slots |->
                          IF i \in InUse(c)
                          THEN [c.slot[i] EXCEPT !.clk = ClockSub(@, amount)]
                          ELSE c.slot[i]]]

(* alarm_context_time_warp with a negative direction, the only one the      *)
(* program uses: every clock moves back by amount, the cached one too.      *)
TimeWarp(c, amount) ==
    [c EXCEPT !.slot = [i \in Slots |->
                          IF i \in InUse(c)
                          THEN [c.slot[i] EXCEPT !.clk = ClockSub(@, amount)]
                          ELSE c.slot[i]],
              !.nextClk = ClockSub(@, amount)]

(* The alarm alarm_context_dispatch calls, and the offset it passes.        *)
Dispatched(c) == c.slot[c.nextIdx].alarm
DispatchOffset(c, cpuClk) == ClockSub(cpuClk, c.nextClk)

-----------------------------------------------------------------------------
(* The table and the alarms' own indices name each other: no alarm occupies *)
(* two slots, none is orphaned by the move of the last slot, and only live  *)
(* alarms are pending.                                                      *)
SlotsMatch(c) ==
    /\ \A i \in InUse(c) : /\ c.slot[i].alarm \in c.live
                           /\ c.idx[c.slot[i].alarm] = i
    /\ \A a \in Alarms : IsPending(c, a) => /\ c.idx[a] \in InUse(c)
                                            /\ c.slot[c.idx[a]].alarm = a

(* The cached clock is the earliest of the pending ones and the cached      *)
(* index is a slot with that clock; with no alarm pending the cached clock  *)
(* is the largest there is.                                                 *)
NextIsEarliest(c) ==
    /\ \A i \in InUse(c) : c.nextClk <= c.slot[i].clk
    /\ c.nextClk < ClockMax => /\ c.nextIdx \in InUse(c)
                               /\ c.slot[c.nextIdx].clk = c.nextClk
    /\ c.num = 0 => c.nextClk = ClockMax

(* No alarm is due at CLOCK_MAX itself: chips set alarms a little ahead of  *)
(* a CPU clock that the guard keeps well below it.                          *)
BeforeEnd(c) == \A i \in InUse(c) : c.slot[i].clk < ClockMax

Consistent(c) ==
    c \in Contexts /\ SlotsMatch(c) /\ NextIsEarliest(c) /\ BeforeEnd(c)
=============================================================================
