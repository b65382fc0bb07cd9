------------------------------ MODULE CiaTimer ------------------------------
(***************************************************************************)
(* A timer of the CIA chip (src/vice/src/core/ciatimer.h, ciatimer.c).  The *)
(* chip's own timer does one thing per cycle: control bits move through a   *)
(* pipeline of delays, the counter counts, an underflow reloads it.  The    *)
(* code brings a timer up to date only when somebody looks at it, and then  *)
(* skips over all the cycles it can.  One operator for each function;       *)
(* CiaTimerA drives them.                                                   *)
(*                                                                         *)
(* A timer r has r.flags (state, as a set of its bits), r.cnt, r.latch,     *)
(* r.clk (up to when it has run), r.alarmclk, and r.n, the underflows that  *)
(* the last ciat_update returned.                                           *)
(*                                                                         *)
(* Bound: Base, the number of values of a byte of the counter.              *)
(***************************************************************************)
EXTENDS Clocks

CONSTANT Base

Word == Base * Base
Never == ClockMax

CrBits == {"START", "ONESHOT_CR", "FLOAD", "PHI2IN"}
Flags == CrBits \cup {"STEP", "COUNT2", "COUNT3", "COUNT", "LOAD1", "LOAD",
                      "ONESHOT0", "ONESHOT", "OUT"}

Timers ==
    [flags : SUBSET Flags, cnt : 0 .. Word - 1, latch : 0 .. Word - 1,
     clk : Clock, alarmclk : Clock, n : Nat]

TimerReset(now) ==
    [flags |-> {}, cnt |-> Word - 1, latch |-> Word - 1, clk |-> now,
     alarmclk |-> Never, n |-> 0]

-----------------------------------------------------------------------------
(* What a cycle does.                                                       *)

Only(flag, given) == IF given THEN {flag} ELSE {}

\* ciat_table
Shifted(t) ==
    (t \cap {"START", "ONESHOT_CR", "PHI2IN"})
    \cup Only("COUNT2", {"START", "PHI2IN"} \subseteq t)
    \cup Only("COUNT3", "COUNT2" \in t \/ {"STEP", "START"} \subseteq t)
    \cup Only("COUNT", "COUNT3" \in t)
    \cup Only("LOAD1", "FLOAD" \in t)
    \cup Only("LOAD", "LOAD1" \in t)
    \cup Only("ONESHOT0", "ONESHOT_CR" \in t)
    \cup Only("ONESHOT", "ONESHOT0" \in t)

\* One cycle, the "inc" of the loops
Cycle(r) ==
    [r EXCEPT !.cnt = IF r.cnt # 0 /\ "COUNT3" \in r.flags THEN r.cnt - 1 ELSE r.cnt,
              !.flags = Shifted(r.flags), !.clk = ClockAdd(r.clk, 1)]

Underflows(r) == r.cnt = 0 /\ "COUNT3" \in r.flags

(* An underflow reloads the counter, which takes another cycle, and stops a *)
(* timer in one-shot mode.                                                  *)
Settle(r) ==
    LET out == r.flags \cup (IF Underflows(r) THEN {"LOAD", "OUT"} ELSE {})
        loads == "LOAD" \in out
        loaded == IF loads THEN out \ {"COUNT3"} ELSE out
        stops == "OUT" \in out /\ out \cap {"ONESHOT", "ONESHOT0"} # {}
    IN  [r EXCEPT !.flags = IF stops THEN loaded \ {"START", "COUNT2"} ELSE loaded,
                  !.cnt = IF loads THEN r.latch ELSE r.cnt,
                  !.n = IF Underflows(r) THEN r.n + 1 ELSE r.n]

\* The reference: one cycle after the other
Exact(r) == Settle(Cycle([r EXCEPT !.n = 0]))

-----------------------------------------------------------------------------
(* Which cycles can be skipped.                                             *)

\* No change of mode is on its way.
Steady(t) ==
    LET modes == {"ONESHOT_CR", "ONESHOT0", "ONESHOT"}
    IN  modes \subseteq t \/ modes \cap t = {}

\* Mutant: a change of mode that is on its way is overlooked.
CountingUnsteady(t) ==
    t \cap {"START", "FLOAD", "LOAD1", "PHI2IN", "COUNT2", "COUNT3", "COUNT", "LOAD"}
        = {"START", "PHI2IN", "COUNT2", "COUNT3", "COUNT"}

Counting(t) ==
    /\ t \cap {"START", "FLOAD", "LOAD1", "PHI2IN", "COUNT2", "COUNT3", "COUNT", "LOAD"}
           = {"START", "PHI2IN", "COUNT2", "COUNT3", "COUNT"}
    /\ Steady(t)

Standing(t) ==
    /\ t \cap {"COUNT2", "COUNT3", "COUNT"} = {}
    /\ "START" \notin t \/ t \cap {"PHI2IN", "STEP"} = {}
    /\ Steady(t)

Stopped(t) == Standing(t) /\ t \cap {"FLOAD", "LOAD1", "LOAD"} = {}

Toggling(r) ==
    /\ r.flags = {"COUNT", "OUT", "LOAD", "PHI2IN", "COUNT2", "START"}
    /\ r.cnt = 1 /\ r.latch = 1

(* The counter counts to the end, and if it does not stop there it          *)
(* underflows as often as the time allows.                                  *)
SkipCount(r, to) ==
    IF r.clk + r.cnt > to
    THEN [r EXCEPT !.cnt = @ - ((to - r.clk) % Word), !.clk = to]
    ELSE LET out == [r EXCEPT !.clk = @ + r.cnt, !.cnt = 0]
             m == (to - out.clk) \div (r.latch + 1)
         IN  IF \/ r.flags \cap {"ONESHOT_CR", "ONESHOT0"} # {}
                \/ (to - out.clk) % Word < r.latch + 1
             THEN out
             ELSE [out EXCEPT !.clk = @ + m * (r.latch + 1), !.n = @ + m]

\* Two cycles at a time
SkipToggles(r, to) ==
    LET m == 2 * ((to - r.clk) \div 2)
    IN  IF m = 0 THEN [r EXCEPT !.flags = Shifted(@), !.clk = @ + 1]
        ELSE [r EXCEPT !.clk = @ + m, !.n = @ + m \div 2]

Round(r, to) ==
    Settle(IF Counting(r.flags) THEN SkipCount(r, to)
           ELSE IF Stopped(r.flags) THEN [r EXCEPT !.clk = to]
           ELSE IF Toggling(r) THEN SkipToggles(r, to)
           ELSE Cycle(r))

(* ciat_update *)
Update(r, to) ==
    LET Rounds[s \in Timers] == IF s.clk < to THEN Rounds[Round(s, to)] ELSE s
    IN  Rounds[[r EXCEPT !.n = 0]]

(* The loop of ciat_set_alarm, which works on copies of the counter and its *)
(* flags: when the timer underflows next.                                   *)
NextUnderflow(r) ==
    LET First[s \in Timers] ==
            IF Counting(s.flags) THEN ClockAdd(s.clk, s.cnt)
            ELSE IF Standing(s.flags) THEN Never
            ELSE LET c == Cycle(s)
                 IN  IF Underflows(c) THEN c.clk ELSE First[Settle(c)]
    IN  First[[r EXCEPT !.alarmclk = Never, !.n = 0]]

=============================================================================
