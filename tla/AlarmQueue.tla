----------------------------- MODULE AlarmQueue -----------------------------
(***************************************************************************)
(* What an alarm context promises the chips that use it, without the table: *)
(* each alarm has at most one due time, the only thing that changes it is a *)
(* call about that alarm (or a time warp, which moves all of them alike),   *)
(* and whenever the CPU's clock has reached a due time, an alarm that is    *)
(* due earliest is the one called, told how late it is.                     *)
(***************************************************************************)
EXTENDS Integers, FiniteSets

CONSTANTS Alarms, MaxPending, ClockMax

Never == ClockMax + 1      \* the due time of an alarm that is not pending

VARIABLES
    live,      \* the alarms that exist
    due,       \* the due time of every alarm, or Never
    called     \* the last callback: its alarm and how late it came

vars == <<live, due, called>>

Clock == 0 .. ClockMax
Pending == {a \in Alarms : due[a] # Never}
Earliest(a) == a \in Pending /\ \A b \in Pending : due[a] <= due[b]

Init == live = {} /\ due = [a \in Alarms |-> Never] /\ called = <<>>

Create(a) ==
    /\ a \notin live
    /\ live' = live \cup {a}
    /\ UNCHANGED <<due, called>>

Discard(a) ==
    /\ a \in live
    /\ live' = live \ {a}
    /\ due' = [due EXCEPT ![a] = Never]
    /\ UNCHANGED called

(* A full context refuses a new alarm and only logs the refusal.            *)
Schedule(a, t) ==
    /\ a \in live
    /\ \/ /\ a \in Pending \/ Cardinality(Pending) < MaxPending
          /\ due' = [due EXCEPT ![a] = t]
       \/ /\ a \notin Pending /\ Cardinality(Pending) = MaxPending
          /\ UNCHANGED due
    /\ UNCHANGED <<live, called>>

Cancel(a) ==
    /\ a \in live
    /\ due' = [due EXCEPT ![a] = Never]
    /\ UNCHANGED <<live, called>>

Call(a, now, next) ==
    /\ Earliest(a)
    /\ due[a] <= now
    /\ called' = <<a, now - due[a]>>
    /\ due' = [due EXCEPT ![a] = next]
    /\ UNCHANGED live

Warp(amount) ==
    /\ \A a \in Pending : due[a] >= amount
    /\ due' = [a \in Alarms |-> IF a \in Pending THEN due[a] - amount ELSE Never]
    /\ UNCHANGED <<live, called>>

Next ==
    \/ \E a \in Alarms : Create(a) \/ Discard(a) \/ Cancel(a)
    \/ \E a \in Alarms, t \in Clock : Schedule(a, t)
    \/ \E a \in Alarms, now \in Clock, next \in Clock \cup {Never} :
           Call(a, now, next)
    \/ \E amount \in Clock : Warp(amount)

Spec == Init /\ [][Next]_vars
=============================================================================
