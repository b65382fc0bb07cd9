----------------------------- MODULE AlarmTable -----------------------------
(***************************************************************************)
(* One alarm context in use (src/vice/src/alarm.c, alarm.h).  The chips     *)
(* create, set, unset and destroy alarms in any order, the CPU dispatches   *)
(* the next one once its clock has reached it, and the clock guard moves    *)
(* every due time back before the clock overflows.  Each action is one call *)
(* of the C interface, with the caller's rules as its guard.                *)
(*                                                                         *)
(* Bounds: the constants alone (a few alarms, fewer slots than alarms so    *)
(* that the table fills up, a short CLOCK).                                 *)
(***************************************************************************)
EXTENDS AlarmContext

VARIABLES
    ctx,       \* the context
    called     \* the last callback: <<alarm, offset>>, <<>> before the first

vars == <<ctx, called>>

TypeOK ==
    /\ ctx \in Contexts
    /\ called \in {<<>>} \cup (Alarms \cup {NoAlarm}) \X Clock

Init ==
    /\ \E garbage \in -1 .. MaxPending : ctx = ContextInit(garbage)
    /\ called = <<>>

New(a) ==
    /\ a \notin ctx.live
    /\ ctx' = AlarmNew(ctx, a)
    /\ UNCHANGED called

Set(a, t) ==
    /\ a \in ctx.live
    /\ ctx' = AlarmSet(ctx, a, t)
    /\ UNCHANGED called

Unset(a) ==
    /\ a \in ctx.live
    /\ ctx' = AlarmUnset(ctx, a)
    /\ UNCHANGED called

Destroy(a) ==
    /\ a \in ctx.live
    /\ ctx' = AlarmDestroy(ctx, a)
    /\ UNCHANGED called

(* PROCESS_ALARMS calls dispatch only when the CPU clock has reached        *)
(* nextClk; the clock guard keeps the CPU clock below CLOCK_MAX.  dispatch  *)
(* leaves the alarm pending: its callback sets it later than it was due (a  *)
(* periodic chip adds a period to the old due time, which the CPU may have  *)
(* passed as well) or unsets it, or PROCESS_ALARMS would never leave its    *)
(* loop.                                                                    *)
Dispatch(now) ==
    /\ now < ClockMax /\ now >= ctx.nextClk
    /\ called' = <<Dispatched(ctx), DispatchOffset(ctx, now)>>
    /\ \/ \E t \in (ctx.nextClk + 1) .. (ClockMax - 1) :
              ctx' = AlarmSet(ctx, Dispatched(ctx), t)
       \/ ctx' = AlarmUnset(ctx, Dispatched(ctx))

(* machine_maincpu_clk_overflow_callback and its drive twin.  Two rules of  *)
(* the callers: the warp never reaches below zero, because the guard only   *)
(* subtracts what leaves at least CLKGUARD_SUB_MIN on a clock that is       *)
(* nearly CLOCK_MAX; and some alarm is pending (on the main CPU always the  *)
(* video chip's raster alarm).                                              *)
Warp(amount) ==
    /\ ctx.num > 0
    /\ \A i \in InUse(ctx) : ctx.slot[i].clk >= amount
    /\ ctx' = TimeWarp(ctx, amount)
    /\ UNCHANGED called

Next ==
    \/ \E a \in Alarms : New(a) \/ Unset(a) \/ Destroy(a)
    \/ \E a \in Alarms, t \in 0 .. (ClockMax - 1) : Set(a, t)
    \/ \E now \in Clock : Dispatch(now)
    \/ \E amount \in 1 .. ClockMax : Warp(amount)

Spec == Init /\ [][Next]_vars

-----------------------------------------------------------------------------
(* The slots and the alarms' own indices always name each other, whatever   *)
(* the order of sets, unsets and destroys (alarm.c:167-207).                *)
TableConsistent == SlotsMatch(ctx) /\ BeforeEnd(ctx)

(* The cached next clock and index, which alarm_set and alarm_unset update  *)
(* in five different ways, are always those of an earliest pending alarm.   *)
CacheCorrect == NextIsEarliest(ctx)

(* The table implements the alarm queue: nothing is lost, duplicated or     *)
(* moved by a call about another alarm, and dispatch always calls an alarm  *)
(* that is due earliest with its true lateness.                             *)
Due == [a \in Alarms |-> DueTime(ctx, a)]
Queue == INSTANCE AlarmQueue WITH live <- ctx.live, due <- Due
ImplementsQueue == Queue!Spec
=============================================================================
